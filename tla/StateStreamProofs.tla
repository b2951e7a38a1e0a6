------------------------- MODULE StateStreamProofs -------------------------
(***************************************************************************)
(* Of any games, synchronizers, intervals, rates and widths: the timer     *)
(* keeps its cadence; what is marked is read; a client coded otherwise     *)
(* takes nothing, and one coded alike has and shows what was read after    *)
(* one rounding, an angle that goes in steps within a step for each        *)
(* baseline it takes back to a whole snapshot; and a turn goes the short   *)
(* way.  Of any delays and orders of snapshots: the client's clock follows *)
(* the server's, and its buffer has the newest, shows a node between two   *)
(* of them that are next to each other, and leaves it where it was shown   *)
(* when one comes.                                                         *)
(***************************************************************************)
EXTENDS ClientHelpers, OrderFacts

-----------------------------------------------------------------------------
\* The shortest interval.

(***************************************************************************)
(* _min_interval_us is between 1 and the longest interval.                 *)
(***************************************************************************)
LEMMA IntervalBounds ==
    ASSUME interval \in [Syncs -> Intervals \cup {0}],
           NEW syncs, syncs \subseteq Syncs, NEW r \in Rates \cup {0}
    PROVE  MinInterval(syncs, r) \in 1 .. Longest
PROOF
  <1> USE IntervalAssumption
  <1>1. CASE r > 0
    <2>1. r # 0 /\ MinInterval(syncs, r) = r
      BY <1>1 DEF MinInterval
    <2> QED BY <2>1
  <1>2. CASE ~(r > 0) /\ syncs = {}
    BY <1>2 DEF MinInterval
  <1>3. CASE ~(r > 0) /\ syncs # {}
    <2> DEFINE all == {IF interval[s] > 0 THEN interval[s] ELSE DefaultInterval : s \in syncs}
    <2>1. all \subseteq 1 .. Longest
      OBVIOUS
    <2>2. all # {}
      BY <1>3
    <2>3. MinInterval(syncs, r) = Min(all)
      BY <1>3 DEF MinInterval
    <2> HIDE DEF all
    <2>4. all \subseteq Nat
      BY <2>1
    <2>5. \E n \in all : \A m \in all : n <= m
      BY <2>2, <2>4, LeastExists
    <2>6. Min(all) \in all
      BY <2>5 DEF Min
    <2> QED BY <2>1, <2>3, <2>6
  <1> QED BY <1>1, <1>2, <1>3

-----------------------------------------------------------------------------
\* The timer.

(***************************************************************************)
(* What Paced needs of the deadline: while polls come no further apart     *)
(* than the interval it stays less than one behind, and each tick it goes  *)
(* by moves it by exactly one.  So a tick n before the last was n          *)
(* intervals before it, give or take how late the two polls were, which    *)
(* is less than an interval for either; n ticks before the last the        *)
(* deadline was behind by Overdue(n, the time from then to the last tick). *)
(***************************************************************************)
Overdue(n, time) == since - lull + n * cached - time

OnTime(n, time) == 0 <= Overdue(n, time) /\ Overdue(n, time) < cached

TimerInv ==
    /\ lull = Never => spans = <<>>
    /\ lull # Never =>
         LET n == Len(spans)
         IN  /\ ~manual /\ since # Never /\ lull <= since /\ since < cached
             /\ n >= 1 => OnTime(1, spans[n])
             /\ n >= 2 => OnTime(2, spans[n] + spans[n - 1])
             /\ n >= 3 => OnTime(3, spans[n] + spans[n - 1] + spans[n - 2])

ClockInv == ClockTypeOK /\ TimerInv

(***************************************************************************)
(* Synchronizers and settings change the interval and end the history.     *)
(***************************************************************************)
LEMMA RefreshHolds ==
    ASSUME ClockInv, NEW syncs, syncs \subseteq Syncs, NEW r \in Rates \cup {0},
           Refresh(syncs, r), Unfollowed, UNCHANGED <<manual, since>>
    PROVE  ClockInv'
PROOF
  <1>1. /\ owned' = syncs /\ rate' = r /\ cached' = MinInterval(syncs, r)
        /\ manual' = manual /\ since' = since
        /\ lull' = Never /\ spans' = <<>> /\ interval' = interval
    BY DEF Refresh, Unfollowed
  <1>2. cached' \in 1 .. Longest
    BY <1>1, IntervalBounds DEF ClockInv, ClockTypeOK
  <1>3. ClockTypeOK'
    BY <1>1, <1>2, IntervalAssumption DEF ClockInv, ClockTypeOK
  <1>4. TimerInv'
    BY <1>1 DEF TimerInv
  <1> QED BY <1>3, <1>4 DEF ClockInv

(***************************************************************************)
(* The deadline after a poll: at most Far behind, less than an interval    *)
(* behind once it ticked.                                                  *)
(***************************************************************************)
LEMMA DeadlineFacts ==
    ASSUME ClockInv, NEW gap \in 0 .. MaxGap, PollTimer(gap)
    PROVE  /\ since' \in {Never} \cup 0 .. Far
           /\ Due(gap) => since' \in 0 .. cached - 1
           /\ Due(gap) /\ gap <= cached /\ since \in 0 .. cached - 1
                 => since' = since + gap - cached
           /\ ~Due(gap) /\ ~manual /\ since # Never => since' = since + gap /\ since' < cached
PROOF
  <1> USE IntervalAssumption
  <1>1. /\ cached \in 1 .. Longest /\ since \in {Never} \cup 0 .. Far /\ Far = 2 * Longest
        /\ manual \in BOOLEAN
    BY DEF ClockInv, ClockTypeOK, Far
  <1>2. CASE Due(gap)
    <2>1. since' = DeadlineMoves(Behind(gap)) /\ Behind(gap) >= cached /\ since # Never
      BY <1>1, <1>2 DEF PollTimer, Due, Behind
    <2>2. Behind(gap) = since + gap
      BY <2>1 DEF Behind
    <2> QED BY <1>1, <1>2, <2>1, <2>2 DEF DeadlineMoves, Never
  <1>3. CASE ~Due(gap) /\ ~manual
    <2>1. since' = AtMost(Behind(gap), Far) /\ ~(Behind(gap) >= cached)
      BY <1>3 DEF PollTimer, Due
    <2> QED BY <1>1, <1>3, <2>1 DEF AtMost, Behind, Never
  <1>4. CASE manual
    <2>1. ~Due(gap)
      BY <1>4 DEF Due
    <2>2. since' = IF since = Never THEN Never ELSE AtMost(since + gap, Far)
      BY <1>4, <2>1 DEF PollTimer
    <2> QED BY <1>1, <1>4, <2>1, <2>2 DEF AtMost, Never
  <1> QED BY <1>2, <1>3, <1>4

(***************************************************************************)
(* Of the times between ticks the last three are kept.                     *)
(***************************************************************************)
Keeps(S, old, span, new) ==
    /\ new \in Seq(S)
    /\ Len(new) = IF Len(old) = 3 THEN 3 ELSE Len(old) + 1
    /\ new[Len(new)] = span
    /\ Len(old) >= 1 => new[Len(new) - 1] = old[Len(old)] /\ old[Len(old)] \in Nat
    /\ Len(old) >= 2 => new[Len(new) - 2] = old[Len(old) - 1] /\ old[Len(old) - 1] \in Nat

\* One more is kept, and the oldest of four goes.
LEMMA NewestSpans ==
    ASSUME NEW S, S \subseteq Nat, NEW old \in Seq(S), Len(old) <= 3, NEW span \in S, NEW new,
           new = LastThree(Append(old, span))
    PROVE  Keeps(S, old, span, new)
PROOF
  <1> USE DEF Keeps
  <1> DEFINE all == Append(old, span)
             n == Len(old)
  <1>0. n \in Nat
    OBVIOUS
  <1>1. /\ all \in Seq(S) /\ Len(all) = n + 1 /\ all[n + 1] = span
        /\ \A i \in 1 .. n : all[i] = old[i]
        /\ \A i \in 1 .. n : old[i] \in Nat
    <2>1. all \in Seq(S) /\ Len(all) = n + 1 /\ all[n + 1] = span
      OBVIOUS
    <2>2. \A i \in 1 .. n : all[i] = old[i]
      OBVIOUS
    <2>3. \A i \in 1 .. n : old[i] \in S
      OBVIOUS
    <2> QED BY <2>1, <2>2, <2>3
  <1>2. n <= 3
    OBVIOUS
  <1>3. CASE n = 3
    <2>1. new = Tail(all)
      BY <1>1, <1>3 DEF LastThree
    <2>2. /\ Tail(all) \in Seq(S) /\ Len(Tail(all)) = 3
          /\ Tail(all)[3] = all[4] /\ Tail(all)[2] = all[3] /\ Tail(all)[1] = all[2]
      BY <1>1, <1>3
    <2>3. old[3] \in Nat /\ old[2] \in Nat /\ all[3] = old[3] /\ all[2] = old[2] /\ all[4] = span
      BY <1>1, <1>3
    <2>4. /\ new \in Seq(S) /\ Len(new) = 3
          /\ new[3] = span /\ new[2] = old[3] /\ new[1] = old[2]
      <3> HIDE DEF all
      <3> QED BY <2>1, <2>2, <2>3
    <2>5. Len(old) = 3
      BY <1>3
    <2> HIDE DEF all, n
    <2> QED BY <2>3, <2>4, <2>5
  <1>4. CASE n # 3
    <2> HIDE DEF n, all
    <2>1. ~(Len(all) > 3)
      BY <1>0, <1>1, <1>2, <1>4
    <2>2. new = all
      BY <2>1 DEF LastThree, all
    <2> QED BY <1>0, <1>1, <1>2, <1>4, <2>2 DEF n
  <1> QED BY <1>3, <1>4

(***************************************************************************)
(* A poll keeps the invariant of the timer.                                *)
(***************************************************************************)
LEMMA PollHolds ==
    ASSUME ClockInv, NEW gap \in 0 .. MaxGap, PollTimer(gap)
    PROVE  ClockInv'
PROOF
  <1> USE IntervalAssumption
  <1> DEFINE followed == lull # Never /\ gap <= cached
             S == 1 .. (Far + MaxGap)
  <1>0. S \subseteq Nat /\ (Far + MaxGap) \in Nat /\ gap \in Nat /\ gap <= MaxGap
    BY DEF Far
  <1>1. /\ interval' = interval
        /\ owned' = owned /\ rate' = rate /\ cached' = cached /\ manual' = manual
        /\ lull' = CASE Due(gap) -> 0
                     [] ~Due(gap) /\ followed -> lull + gap
                     [] ~Due(gap) /\ ~followed -> Never
        /\ spans' = CASE ~followed -> <<>>
                      [] followed /\ ~Due(gap) -> spans
                      [] followed /\ Due(gap) -> LastThree(Append(spans, lull + gap))
    BY DEF PollTimer
  <1>2. /\ cached \in 1 .. Longest /\ Far = 2 * Longest /\ manual \in BOOLEAN
        /\ since \in {Never} \cup 0 .. Far
        /\ lull \in {Never} \cup 0 .. (Far + MaxGap)
    BY DEF ClockInv, ClockTypeOK, Far
  <1>a. spans \in Seq(S) /\ Len(spans) <= 3
    BY DEF ClockInv, ClockTypeOK
  <1>3. /\ since' \in {Never} \cup 0 .. Far
        /\ Due(gap) => since' \in 0 .. cached - 1
        /\ Due(gap) /\ gap <= cached /\ since \in 0 .. cached - 1
              => since' = since + gap - cached
        /\ ~Due(gap) /\ ~manual /\ since # Never => since' = since + gap /\ since' < cached
    BY DeadlineFacts
  <1>4. TimerInv
    BY DEF ClockInv
  <1>6. Due(gap) => ~manual /\ Behind(gap) >= cached
    BY DEF Due
  <1>7. Due(gap) => since # Never
    BY <1>2, <1>6 DEF Behind
  <1> HIDE DEF S
  <1>8. CASE ~followed
    <2>1. ~Due(gap) => lull' = Never
      BY <1>1, <1>8
    <2>2. Due(gap) => lull' = 0
      BY <1>1
    <2>3. spans' = <<>> /\ Len(<<>>) = 0 /\ <<>> \in Seq(S)
      BY <1>1, <1>8
    <2>4. lull' \in {Never} \cup 0 .. (Far + MaxGap)
      BY ONLY <1>0, <2>1, <2>2
    <2>5. Due(gap) => lull' # Never /\ ~manual' /\ since' # Never /\ lull' <= since' /\ since' < cached'
      BY <1>1, <1>2, <1>3, <1>6, <2>2 DEF Never
    <2>6. TimerInv'
      BY <2>1, <2>2, <2>3, <2>5 DEF TimerInv
    <2>7. spans' \in Seq(1 .. (Far + MaxGap)) /\ Len(spans') <= 3
      BY <2>3 DEF S
    <2> QED BY <1>1, <1>2, <1>3, <2>4, <2>6, <2>7 DEF ClockInv, ClockTypeOK
  <1>9. CASE followed /\ ~Due(gap)
    <2>1. lull' = lull + gap /\ spans' = spans
      BY <1>1, <1>9
    <2>2. ~manual /\ since # Never /\ lull <= since /\ lull \in Nat
      BY <1>2, <1>4, <1>9 DEF TimerInv, Never
    <2>3. since' = since + gap /\ since' < cached
      BY <1>3, <1>9, <2>2
    <2>4. lull' # Never /\ 0 <= lull' /\ lull' <= Far + MaxGap /\ lull' <= since' /\ since' # Never
      BY <1>0, <1>2, <2>1, <2>2, <2>3 DEF Never
    <2>5. since' - lull' = since - lull
      BY <1>0, <1>2, <2>1, <2>2, <2>3 DEF Never
    <2>6. TimerInv'
      BY <1>1, <1>4, <1>9, <2>1, <2>2, <2>3, <2>4, <2>5 DEF TimerInv, OnTime, Overdue
    <2>7. lull' \in {Never} \cup 0 .. (Far + MaxGap)
      BY ONLY <1>0, <2>1, <2>2, <2>4
    <2> QED BY <1>1, <1>2, <1>a, <1>3, <2>1, <2>6, <2>7 DEF ClockInv, ClockTypeOK, S
  <1>10. CASE followed /\ Due(gap)
    <2>1. lull' = 0 /\ spans' = LastThree(Append(spans, lull + gap))
      BY <1>1, <1>10
    <2>2. /\ ~manual /\ since \in Nat /\ since < cached
          /\ lull # Never /\ lull \in Nat /\ lull <= since
      BY <1>2, <1>4, <1>10 DEF TimerInv, Never
    <2>3. since' = since + gap - cached /\ 0 <= since' /\ since' < cached
      BY <1>2, <1>3, <1>10, <2>2
    <2>4. lull + gap \in S
      <3>1. 1 <= lull + gap /\ lull + gap <= Far + MaxGap /\ lull + gap \in Nat
        BY <1>0, <1>2, <2>2, <2>3
      <3> QED BY ONLY <1>0, <3>1 DEF S
    <2> DEFINE n == Len(spans)
               new == Len(spans')
    <2>5. n \in Nat /\ n <= 3
      BY <1>a
    <2>6. /\ spans' \in Seq(S)
          /\ new = IF n = 3 THEN 3 ELSE n + 1
          /\ spans'[new] = lull + gap
          /\ n >= 1 => spans'[new - 1] = spans[n] /\ spans[n] \in Nat
          /\ n >= 2 => spans'[new - 2] = spans[n - 1] /\ spans[n - 1] \in Nat
      <3>1. S \subseteq Nat
        BY <1>0
      <3>2. spans \in Seq(S) /\ Len(spans) <= 3
        BY <1>a
      <3>3. spans' = LastThree(Append(spans, lull + gap))
        BY <2>1
      <3>4. Keeps(S, spans, lull + gap, spans')
        BY ONLY <2>4, <3>1, <3>2, <3>3, NewestSpans, Zenon
      <3> QED BY <3>4 DEF Keeps
    <2>7. /\ n >= 1 => OnTime(1, spans[n])
          /\ n >= 2 => OnTime(2, spans[n] + spans[n - 1])
      BY <1>4, <2>2 DEF TimerInv
    <2> HIDE DEF n, new
    <2>8. /\ since \in Int /\ since' \in Int /\ cached \in Int /\ cached' = cached
          /\ lull \in Int /\ lull' = 0 /\ gap \in Int
      BY <1>0, <1>1, <1>2, <2>1, <2>2, <2>3
    <2>9. n >= 1 => /\ 0 <= since' + 2 * cached - (lull + gap + spans[n])
                    /\ since' + 2 * cached - (lull + gap + spans[n]) < cached
      <3> HAVE n >= 1
      <3>1. 0 <= since - lull + cached - spans[n] /\ since - lull + cached - spans[n] < cached
        BY <2>7, <2>8 DEF OnTime, Overdue
      <3>2. spans[n] \in Int
        BY <2>6
      <3> QED BY ONLY <2>3, <2>8, <3>1, <3>2
    <2>10. n >= 2 => /\ 0 <= since' + 3 * cached - (lull + gap + spans[n] + spans[n - 1])
                     /\ since' + 3 * cached - (lull + gap + spans[n] + spans[n - 1]) < cached
      <3> HAVE n >= 2
      <3>1. spans[n] \in Int /\ spans[n - 1] \in Int
        BY <2>5, <2>6
      <3>2. /\ 0 <= since - lull + 2 * cached - (spans[n] + spans[n - 1])
            /\ since - lull + 2 * cached - (spans[n] + spans[n - 1]) < cached
        BY <2>7, <2>8, <3>1 DEF OnTime, Overdue
      <3> QED BY ONLY <2>3, <2>8, <3>1, <3>2
    <2>11. OnTime(1, spans[Len(spans)])'
      BY <1>2, <2>2, <2>3, <2>6, <2>8 DEF OnTime, Overdue, new
    <2>12. new >= 2 => OnTime(2, spans[Len(spans)] + spans[Len(spans) - 1])'
      BY <2>5, <2>6, <2>8, <2>9 DEF OnTime, Overdue, new
    <2>13. new >= 3 => OnTime(3, spans[Len(spans)] + spans[Len(spans) - 1] + spans[Len(spans) - 2])'
      BY <2>5, <2>6, <2>8, <2>10 DEF OnTime, Overdue, new
    <2>14. lull' # Never /\ manual' = manual /\ since' # Never /\ lull' <= since' /\ since' < cached'
      BY <1>1, <2>1, <2>3, <2>8 DEF Never
    <2>15. TimerInv'
      BY <2>2, <2>11, <2>12, <2>13, <2>14 DEF TimerInv, new
    <2>16. lull' \in {Never} \cup 0 .. (Far + MaxGap)
      BY ONLY <1>0, <2>1
    <2>17. Len(spans') <= 3
      BY <2>5, <2>6 DEF new
    <2> QED BY <1>1, <1>2, <1>3, <2>6, <2>15, <2>16, <2>17 DEF ClockInv, ClockTypeOK, S
  <1> QED BY <1>8, <1>9, <1>10

(***************************************************************************)
(* The invariant of the timer gives the rate.                              *)
(***************************************************************************)
LEMMA ClockInvPaces == ClockInv => Paced
PROOF
  <1> SUFFICES ASSUME ClockInv PROVE Paced
    OBVIOUS
  <1>1. cached \in Nat /\ since \in Nat \cup {Never} /\ lull \in Nat \cup {Never} /\ TimerInv
    BY IntervalAssumption DEF ClockInv, ClockTypeOK, Far
  <1>2. ASSUME Len(spans) = 3
        PROVE  LET time == spans[1] + spans[2] + spans[3]
               IN  2 * cached < time /\ time < 4 * cached
    <2>1. spans[1] \in Nat /\ spans[2] \in Nat /\ spans[3] \in Nat
      <3>1. spans \in Seq(1 .. (Far + MaxGap)) /\ 1 .. (Far + MaxGap) \subseteq Nat
        BY DEF ClockInv, ClockTypeOK
      <3> DEFINE T == 1 .. (Far + MaxGap)
      <3>2. spans \in Seq(T)
        BY <3>1
      <3> HIDE DEF T
      <3>3. \A i \in 1 .. Len(spans) : spans[i] \in T
        BY <3>2
      <3> QED BY <1>2, <3>1, <3>3 DEF T
    <2>2. /\ lull # Never /\ since # Never /\ lull <= since /\ since < cached
          /\ OnTime(3, spans[3] + spans[2] + spans[1])
      <3>1. Len(spans) # 0 /\ spans # <<>>
        BY <1>1, <1>2
      <3> QED BY <1>1, <1>2, <3>1 DEF TimerInv
    <2> QED BY <1>1, <2>1, <2>2 DEF OnTime, Overdue, Never
  <1>3. lull # Never => lull < 2 * cached
    BY <1>1 DEF TimerInv, Never
  <1> QED BY <1>2, <1>3 DEF Paced

(***************************************************************************)
(* Every step but a change of what is registered or set, and a poll,       *)
(* leaves the timer alone, and each of those keeps its invariant.          *)
(***************************************************************************)
ClockAlone ==
    \/ \E a \in Names : \E v \in game.values[a] : Change(a, v)
    \/ FreeTarget \/ MarkSync \/ MarkNode \/ SendSnapshots
    \/ \E k \in DOMAIN held : AckArrives(k)
    \/ ClientEnters
    \/ \E k \in DOMAIN frames : Receive(k)
    \/ \E a \in Names : \E v \in game.values[a] : Predict(a, v)
    \/ UNCHANGED vars

\* Steps that do not touch the clock.
LEMMA ClockStays == ClockAlone => UNCHANGED clock
PROOF
  BY DEF ClockAlone, Change, FreeTarget, MarkSync, MarkNode, SendSnapshots, AckArrives,
         ClientEnters, Receive, Predict, vars

\* Every step keeps the invariant of the timer.
LEMMA ClockStep == ClockInv /\ [Next]_vars => ClockInv'
PROOF
  <1> SUFFICES ASSUME ClockInv, [Next]_vars PROVE ClockInv'
    OBVIOUS
  <1>1. owned \subseteq Syncs /\ rate \in Rates \cup {0}
    BY DEF ClockInv, ClockTypeOK
  <1>2. ASSUME NEW s \in Syncs, Enter(s) PROVE ClockInv'
    <2>1. /\ Refresh(owned \cup {s}, rate) /\ Unfollowed
          /\ UNCHANGED <<manual, since>>
      BY <1>2 DEF Enter, Registers
    <2>2. owned \cup {s} \subseteq Syncs
      BY <1>1
    <2> QED BY <1>1, <2>1, <2>2, RefreshHolds
  <1>3. ASSUME NEW s \in Syncs, Exit(s) PROVE ClockInv'
    <2>1. Refresh(owned \ {s}, rate) /\ Unfollowed /\ UNCHANGED <<manual, since>>
      BY <1>3 DEF Exit, Unregisters
    <2>2. owned \ {s} \subseteq Syncs
      BY <1>1
    <2> QED BY <1>1, <2>1, <2>2, RefreshHolds
  <1>4. ASSUME NEW r \in Rates \cup {0}, SetRate(r) PROVE ClockInv'
    BY <1>1, <1>4, RefreshHolds DEF SetRate, SetSnapshotRate
  <1>5. ASSUME NEW b \in BOOLEAN, SetManual(b) PROVE ClockInv'
    <2>1. /\ manual' = b /\ lull' = Never /\ spans' = <<>>
          /\ UNCHANGED <<interval, owned, rate, cached, since>>
      BY <1>5 DEF SetManual, SetManualSend, Unfollowed
    <2>2. spans' \in Seq(1 .. (Far + MaxGap)) /\ Len(spans') <= 3
      BY <2>1
    <2>3. ClockTypeOK'
      BY <2>1, <2>2 DEF ClockInv, ClockTypeOK
    <2> QED BY <2>1, <2>3 DEF ClockInv, TimerInv
  <1>6. ASSUME NEW gap \in 0 .. MaxGap, Poll(gap) PROVE ClockInv'
    BY <1>6, PollHolds DEF Poll
  <1>8. ASSUME NEW s \in Syncs, NEW n \in Intervals, SetInterval(s, n) PROVE ClockInv'
    <2>1. /\ interval' = [interval EXCEPT ![s] = n]
          /\ UNCHANGED <<owned, rate, cached, manual, since, lull, spans>>
      BY <1>8 DEF SetInterval, SetReplicationInterval
    <2>2. interval' \in [Syncs -> Intervals \cup {0}]
      BY <2>1 DEF ClockInv, ClockTypeOK
    <2>3. ClockTypeOK'
      BY <2>1, <2>2 DEF ClockInv, ClockTypeOK
    <2>4. TimerInv'
      BY <2>1 DEF ClockInv, TimerInv, OnTime, Overdue
    <2> QED BY <2>3, <2>4 DEF ClockInv
  <1>7. ASSUME ClockAlone PROVE ClockInv'
    BY <1>7, ClockStays
       DEF clock, ClockInv, ClockTypeOK, TimerInv, OnTime, Overdue
  <1> QED BY <1>2, <1>3, <1>4, <1>5, <1>6, <1>7, <1>8 DEF Next, ClockAlone

LEMMA InitClock == Init => ClockInv
PROOF
  <1> SUFFICES ASSUME Init PROVE ClockInv
    OBVIOUS
  <1>1. /\ interval = [s \in Syncs |-> 0]
        /\ owned = {} /\ rate = 0 /\ cached = MinInterval({}, 0)
        /\ manual = FALSE /\ since = Never /\ lull = Never /\ spans = <<>>
    BY DEF Init, ClockInit
  <1>2. cached \in 1 .. Longest
    BY <1>1, IntervalBounds
  <1>3. spans \in Seq(1 .. (Far + MaxGap)) /\ Len(spans) <= 3
    BY <1>1
  <1>4. ClockTypeOK
    BY <1>1, <1>2, <1>3 DEF ClockTypeOK
  <1> QED BY <1>1, <1>4 DEF ClockInv, TimerInv

(***************************************************************************)
(* The timer's invariant, of any synchronizers, intervals, rates and       *)
(* polls.                                                                  *)
(***************************************************************************)
THEOREM ClockInvariantHolds == Spec => []ClockInv
PROOF
  <1> QED BY InitClock, ClockStep, PTL DEF Spec

(***************************************************************************)
(* Paced: _poll keeps the rate of the interval in use, whatever that is    *)
(* and however uneven the polls are.                                       *)
(***************************************************************************)
THEOREM TicksArePaced == Spec => []Paced
PROOF
  <1> QED BY ClockInvPaces, ClockInvariantHolds, PTL

-----------------------------------------------------------------------------
\* Numbers.

(***************************************************************************)
(* Quotient and remainder.                                                 *)
(***************************************************************************)
LEMMA DivFacts ==
    ASSUME NEW n \in Int, NEW d \in Nat \ {0}
    PROVE  /\ n \div d \in Int /\ n % d \in Int /\ 0 <= n % d /\ n % d < d
           /\ n = d * (n \div d) + (n % d)
PROOF
  OBVIOUS

(***************************************************************************)
(* There is one quotient and one remainder.                                *)
(***************************************************************************)
LEMMA DivUnique ==
    ASSUME NEW d \in Nat \ {0}, NEW k \in Int, NEW j \in Int, NEW r \in Int, NEW s \in Int,
           d * k + r = d * j + s, 0 <= r, r < d, 0 <= s, s < d
    PROVE  k = j /\ r = s
PROOF
  <1>1. d * (k - j) = s - r
    OBVIOUS
  <1>2. CASE k - j >= 1
    <2>1. d * (k - j) >= d
      BY <1>2
    <2> QED BY <1>1, <2>1
  <1>3. CASE k - j <= -1
    <2>1. d * (k - j) <= -d
      BY <1>3
    <2> QED BY <1>1, <2>1
  <1> QED BY <1>1, <1>2, <1>3

(***************************************************************************)
(* What is composed of them has them.                                      *)
(***************************************************************************)
LEMMA DivIs ==
    ASSUME NEW d \in Nat \ {0}, NEW j \in Int, NEW s \in Int, 0 <= s, s < d
    PROVE  (d * j + s) \div d = j /\ (d * j + s) % d = s
PROOF
  <1> DEFINE n == d * j + s
  <1>1. n \in Int
    OBVIOUS
  <1>2. n = d * j + s
    OBVIOUS
  <1> HIDE DEF n
  <1>3. /\ n \div d \in Int /\ n % d \in Int /\ 0 <= n % d /\ n % d < d
        /\ d * (n \div d) + (n % d) = d * j + s
    BY <1>1, <1>2, DivFacts
  <1>4. n \div d = j /\ n % d = s
    BY ONLY <1>3, DivUnique, d \in Nat \ {0}, j \in Int, s \in Int, 0 <= s, s < d
  <1> QED BY <1>4 DEF n

(***************************************************************************)
(* A whole number of ranges does not change a remainder.                   *)
(***************************************************************************)
LEMMA ModShift ==
    ASSUME NEW d \in Nat \ {0}, NEW n \in Int, NEW t \in Int
    PROVE  (n + d * t) % d = n % d /\ (n + d * t) \div d = n \div d + t
PROOF
  <1>1. /\ n \div d \in Int /\ n % d \in Int /\ 0 <= n % d /\ n % d < d
        /\ n = d * (n \div d) + (n % d)
    BY DivFacts
  <1>2. /\ n \div d + t \in Int
        /\ n + d * t = d * (n \div d + t) + (n % d)
    BY <1>1
  <1> DEFINE j == n \div d + t
             r == n % d
  <1>3. j \in Int /\ r \in Int /\ 0 <= r /\ r < d /\ n + d * t = d * j + r
    BY <1>1, <1>2
  <1> HIDE DEF j, r
  <1>4. (d * j + r) \div d = j /\ (d * j + r) % d = r
    BY <1>3, DivIs
  <1> QED BY <1>3, <1>4 DEF j, r

(***************************************************************************)
(* Rounding to steps is off by half a step at most.                        *)
(***************************************************************************)
LEMMA NearestFacts ==
    ASSUME NEW n \in Int, NEW g \in Nat \ {0}
    PROVE  /\ Nearest(n, g) \in Int
           /\ -g <= 2 * (n - g * Nearest(n, g)) /\ 2 * (n - g * Nearest(n, g)) <= g
PROOF
  <1> DEFINE p == 2 * n + g
             m == g - 2 * n
             d == 2 * g
  <1>1. p \in Int /\ m \in Int /\ d \in Nat \ {0}
    OBVIOUS
  <1>2. CASE n >= 0
    <2>1. /\ p \div d \in Int /\ p % d \in Int /\ 0 <= p % d /\ p % d < d
          /\ p = d * (p \div d) + (p % d)
      <3> HIDE DEF p, d
      <3> QED BY <1>1, DivFacts
    <2>2. Nearest(n, g) = p \div d
      BY <1>2 DEF Nearest
    <2>3. d * (p \div d) = 2 * (g * (p \div d))
      <3> DEFINE x == p \div d
      <3>1. x \in Int
        BY <2>1
      <3> HIDE DEF x
      <3>2. d * x = 2 * (g * x)
        BY <3>1
      <3> QED BY <3>2 DEF x
    <2> DEFINE y == g * (p \div d)
    <2>4. y \in Int /\ 2 * y = p - (p % d)
      <3> HIDE DEF p, d
      <3> QED BY <2>1, <2>3, <1>1
    <2> HIDE DEF y
    <2>5. g * Nearest(n, g) = y
      BY <2>2 DEF y
    <2> QED BY <2>1, <2>2, <2>4, <2>5
  <1>3. CASE n < 0
    <2>1. /\ m \div d \in Int /\ m % d \in Int /\ 0 <= m % d /\ m % d < d
          /\ m = d * (m \div d) + (m % d)
      <3> HIDE DEF m, d
      <3> QED BY <1>1, DivFacts
    <2> DEFINE x == m \div d
    <2>2. Nearest(n, g) = -x
      BY <1>3 DEF Nearest
    <2>3. x \in Int /\ 2 * (g * x) = m - (m % d)
      <3>1. x \in Int
        BY <2>1
      <3> HIDE DEF x
      <3>2. d * x = 2 * (g * x)
        BY <3>1
      <3>3. m = d * x + (m % d)
        BY <2>1 DEF x
      <3>4. m % d \in Int
        BY <2>1
      <3> HIDE DEF m, d
      <3> QED BY <3>1, <3>2, <3>3, <1>1, <3>4
    <2> HIDE DEF x
    <2>4. g * (-x) = -(g * x)
      BY <2>3
    <2> DEFINE y == g * x
    <2>5. y \in Int
      BY <2>3
    <2>6. g * Nearest(n, g) = -y
      BY <2>2, <2>4
    <2>7. 2 * y = m - (m % d)
      BY <2>3
    <2> HIDE DEF y
    <2> QED BY <2>1, <2>2, <2>3, <2>5, <2>6, <2>7
  <1> QED BY <1>2, <1>3

(***************************************************************************)
(* A multiple of the step is not rounded.                                  *)
(***************************************************************************)
LEMMA NearestAgain ==
    ASSUME NEW k \in Int, NEW g \in Nat \ {0}
    PROVE  Nearest(k * g, g) = k
PROOF
  <1> DEFINE d == 2 * g
  <1>1. d \in Nat \ {0} /\ k * g \in Int /\ g < d
    OBVIOUS
  <1>2. CASE k >= 0
    <2>1. k * g >= 0
      BY <1>2
    <2>2. 2 * (k * g) + g = d * k + g
      OBVIOUS
    <2> HIDE DEF d
    <2>3. (d * k + g) \div d = k
      BY <1>1, DivIs
    <2> QED BY <2>1, <2>2, <2>3 DEF Nearest, d
  <1>3. CASE k < 0
    <2>1. k * g < 0
      BY <1>3
    <2>2. g - 2 * (k * g) = d * (-k) + g
      OBVIOUS
    <2> HIDE DEF d
    <2>3. (d * (-k) + g) \div d = -k
      BY <1>1, DivIs
    <2>4. (g - 2 * (k * g)) \div d = -k
      BY <2>2, <2>3
    <2>5. Nearest(k * g, g) = -((g - 2 * (k * g)) \div d)
      BY <2>1, <1>1 DEF Nearest, d
    <2> QED BY <2>4, <2>5
  <1> QED BY <1>2, <1>3

(***************************************************************************)
(* A step of an int may wrap: added to the value it was taken from, with   *)
(* the same width, it gives the new value.                                 *)
(***************************************************************************)
LEMMA WrappedAgain ==
    ASSUME NEW v \in Int, NEW b \in Int,
           -(IntRange \div 2) <= v, v < IntRange \div 2
    PROVE  Wrapped(b + Wrapped(v - b)) = v
PROOF
  <1> DEFINE h == IntRange \div 2
  <1>1. h \in Int /\ IntRange \in Nat \ {0} /\ IntRange = 2 * h
    <2>1. IntRange \in Nat \ {0} /\ IntRange % 2 = 0
      BY WidthsAssumption
    <2> QED BY <2>1
  <1> HIDE DEF h
  <1> DEFINE x == v - b + h
             t == x \div IntRange
  <1>2. x \in Int /\ t \in Int /\ x % IntRange = x - IntRange * t
    <2>1. x \in Int
      BY <1>1
    <2> DEFINE d == IntRange
    <2>2. d \in Nat \ {0}
      BY <1>1
    <2> HIDE DEF x, d
    <2>3. /\ x \div d \in Int /\ x % d \in Int /\ x = d * (x \div d) + (x % d)
      BY <2>1, <2>2, DivFacts
    <2>4. d * (x \div d) \in Int
      BY <2>2, <2>3
    <2>5. x % d = x - d * (x \div d)
      BY <2>1, <2>3, <2>4
    <2> QED BY <2>1, <2>3, <2>5 DEF d
  <1> HIDE DEF t
  <1>3. Wrapped(v - b) = v - b - IntRange * t
    <2>1. Wrapped(v - b) = (x % IntRange) - h
      BY DEF Wrapped, h
    <2> QED BY <2>1, <1>1, <1>2
  <1> HIDE DEF x
  <1> DEFINE w == v + h
  <1>4. w \in Int /\ 0 <= w /\ w < IntRange
    BY <1>1 DEF h
  <1> DEFINE s == b + Wrapped(v - b) + h
  <1>5. s = IntRange * (-t) + w
    BY <1>1, <1>2, <1>3
  <1>6. -t \in Int
    BY <1>2
  <1> HIDE DEF w
  <1>7. (IntRange * (-t) + w) % IntRange = w
    BY <1>1, <1>4, <1>6, DivIs
  <1>8. Wrapped(b + Wrapped(v - b)) = (s % IntRange) - h
    BY DEF Wrapped, h
  <1>9. s % IntRange = w
    BY <1>5, <1>7
  <1> HIDE DEF s
  <1> QED BY <1>1, <1>8, <1>9 DEF w

-----------------------------------------------------------------------------
\* Angles.

(***************************************************************************)
(* angle_step differs from the way asked for by whole turns, and no way    *)
(* round is shorter.                                                       *)
(***************************************************************************)
LEMMA StepFacts ==
    ASSUME NEW d \in Nat \ {0}, NEW to \in Int, NEW from \in Int
    PROVE  /\ AngleStep(to, from, d) \in Int
           /\ \E t \in Int : AngleStep(to, from, d) = to - from - d * t
           /\ 0 <= to /\ to < d => (from + AngleStep(to, from, d)) % d = to
           /\ \A t \in Int : LET far == to - from - d * t
                                 step == AngleStep(to, from, d)
                             IN  (far >= 0 => step <= far /\ -far <= step)
                                 /\ (far <= 0 => step <= -far /\ far <= step)
PROOF
  <1> DEFINE h == d \div 2
             x == to - from + h
             t == x \div d
  <1>1. h \in Int /\ (d = 2 * h \/ d = 2 * h + 1)
    OBVIOUS
  <1>2. x \in Int
    BY <1>1
  <1>3. t \in Int /\ x % d \in Int /\ x = d * t + (x % d) /\ 0 <= x % d /\ x % d < d
    <2> HIDE DEF x
    <2> QED BY <1>2, DivFacts
  <1> DEFINE step == AngleStep(to, from, d)
  <1>4. step = (x % d) - h
    BY DEF AngleStep
  <1> HIDE DEF h, t
  <1> DEFINE a == d * t
  <1>5. a \in Int /\ step \in Int /\ step = to - from - a
    <2>1. a \in Int
      BY <1>3
    <2> HIDE DEF a
    <2>2. x = a + (x % d)
      BY <1>3 DEF a
    <2>3. x % d \in Int
      BY <1>3
    <2> DEFINE r == x % d
    <2>4. to - from + h = a + r /\ r \in Int /\ step = r - h
      BY <1>4, <2>2, <2>3
    <2> HIDE DEF r, step
    <2> QED BY <2>1, <2>4, <1>1
  <1>6. -h <= step /\ step < d - h
    <2> HIDE DEF x, step
    <2> QED BY <1>1, <1>3, <1>4
  <1>7. ASSUME 0 <= to, to < d PROVE (from + step) % d = to
    <2>1. from + step = d * (-t) + to
      BY <1>3, <1>5
    <2>2. -t \in Int
      BY <1>3
    <2>3. (d * (-t) + to) % d = to
      BY <1>7, <2>2, DivIs
    <2> QED BY <2>1, <2>3
  <1>8. ASSUME NEW u \in Int
        PROVE  LET far == to - from - d * u
               IN  (far >= 0 => step <= far /\ -far <= step)
                   /\ (far <= 0 => step <= -far /\ far <= step)
    <2> DEFINE far == to - from - d * u
    <2>1. far \in Int /\ far - step = d * (t - u)
      BY <1>3, <1>5
    <2> HIDE DEF far, step
    <2>2. CASE t - u = 0
      BY <2>1, <2>2, <1>5 DEF far
    <2>3. CASE t - u >= 1
      <3>1. far - step >= d
        BY <2>1, <2>3, <1>3
      <3> QED BY <3>1, <2>1, <1>1, <1>5, <1>6 DEF far
    <2>4. CASE t - u <= -1
      <3>1. far - step <= -d
        BY <2>1, <2>4, <1>3
      <3> QED BY <3>1, <2>1, <1>1, <1>5, <1>6 DEF far
    <2> QED BY <1>3, <2>2, <2>3, <2>4
  <1> QED BY <1>3, <1>5, <1>7, <1>8

Widths == {Steps16, Steps8}

(***************************************************************************)
(* A whole turn in steps of an angle.                                      *)
(***************************************************************************)
LEMMA TurnFacts ==
    ASSUME NEW n \in Widths
    PROVE  LET u == Turn \div n
           IN  /\ n \in Nat \ {0} /\ u \in Nat \ {0} /\ Turn = n * u /\ Single \in Nat \ {0}
               /\ Single <= u
PROOF
  <1> DEFINE u == Turn \div n
  <1>1. /\ n \in Nat \ {0} /\ Turn \in Nat \ {0} /\ Single \in Nat \ {0}
        /\ Turn % n = 0 /\ Single <= u
    BY WidthsAssumption DEF Widths
  <1>2. u \in Int /\ Turn = n * u
    BY <1>1, DivFacts
  <1> HIDE DEF u
  <1>3. u > 0
    <2>1. CASE u <= 0
      <3>1. n * u <= 0
        BY <2>1, <1>1, <1>2
      <3> QED BY <3>1, <1>1, <1>2
    <2> QED BY <2>1, <1>2
  <1> QED BY <1>1, <1>2, <1>3 DEF u

(***************************************************************************)
(* An f32 is off by half of what it keeps at most.                         *)
(***************************************************************************)
LEMMA F32Facts ==
    ASSUME NEW n \in Int
    PROVE  F32(n) \in Int /\ -Single <= 2 * (n - F32(n)) /\ 2 * (n - F32(n)) <= Single
PROOF
  <1>1. Single \in Nat \ {0}
    BY WidthsAssumption
  <1>2. Single * Nearest(n, Single) \in Int
    BY <1>1, NearestFacts
  <1> QED BY <1>1, <1>2, NearestFacts DEF F32

(***************************************************************************)
(* gn_put_payload of an angle is one of its steps.                         *)
(***************************************************************************)
LEMMA QuantaFacts ==
    ASSUME NEW n \in Widths, NEW v \in Int
    PROVE  AngleQuanta(v, n) \in Int /\ 0 <= AngleQuanta(v, n) /\ AngleQuanta(v, n) < n
PROOF
  <1> DEFINE u == Turn \div n
  <1>1. n \in Nat \ {0} /\ u \in Nat \ {0}
    BY TurnFacts
  <1>2. F32(v) \in Int
    BY F32Facts
  <1> HIDE DEF u
  <1>3. F32(v) \div u \in Int
    BY <1>1, <1>2, DivFacts
  <1> QED BY <1>1, <1>3, DivFacts DEF AngleQuanta, u

(***************************************************************************)
(* What an f32 keeps it keeps.                                             *)
(***************************************************************************)
LEMMA F32Again ==
    ASSUME NEW n \in Int
    PROVE  F32(F32(n)) = F32(n)
PROOF
  <1> DEFINE j == Nearest(n, Single)
  <1>1. Single \in Nat \ {0} /\ j \in Int
    BY WidthsAssumption, NearestFacts
  <1>2. F32(n) = j * Single
    BY <1>1 DEF F32
  <1> HIDE DEF j
  <1>3. Nearest(j * Single, Single) = j
    BY <1>1, NearestAgain
  <1>4. F32(j * Single) = j * Single
    BY <1>1, <1>3 DEF F32
  <1> QED BY <1>2, <1>4

(***************************************************************************)
(* An angle that was read is cut to the step it was, or to the one before: *)
(* an f32 may be short of a multiple of a step, which then is cut off.     *)
(***************************************************************************)
LEMMA QuantaAgain ==
    ASSUME NEW n \in Widths, NEW q \in Int, 0 <= q, q < n
    PROVE  AngleQuanta(AngleOf(q, n), n) \in {q, (q - 1) % n}
PROOF
  <1> DEFINE u == Turn \div n
             m == q * u
             f == F32(m)
             r == f - m
  <1>1. n \in Nat \ {0} /\ u \in Nat \ {0} /\ Single \in Nat \ {0} /\ Single <= u
    BY TurnFacts
  <1> HIDE DEF u
  <1>2. m \in Int
    BY <1>1
  <1>3. f \in Int /\ -Single <= 2 * (m - f) /\ 2 * (m - f) <= Single /\ F32(f) = f
    <2> HIDE DEF m
    <2> QED BY <1>2, F32Facts, F32Again
  <1>4. AngleQuanta(AngleOf(q, n), n) = (f \div u) % n
    BY <1>3 DEF AngleQuanta, AngleOf, u
  <1>5. r \in Int /\ -u < r /\ r < u /\ f = m + r
    <2> HIDE DEF m, f
    <2> QED BY <1>1, <1>2, <1>3
  <1> HIDE DEF f, r
  <1>6. q % n = q
    <2>1. (n * 0 + q) % n = q
      BY <1>1, DivIs
    <2>2. n * 0 + q = q
      BY <1>1
    <2> QED BY <2>1, <2>2
  <1>7. CASE r >= 0
    <2>1. (u * q + r) \div u = q
      BY <1>1, <1>5, <1>7, DivIs
    <2>2. u * q + r = f
      BY <1>1, <1>5
    <2> QED BY <1>4, <1>6, <2>1, <2>2
  <1>8. CASE r < 0
    <2> DEFINE k == q - 1
               t == r + u
    <2>1. k \in Int /\ t \in Int /\ 0 <= t /\ t < u
      BY <1>1, <1>5, <1>8
    <2>2. u * k + t = f
      <3>1. u * k = u * q - u
        BY <1>1
      <3>2. u * q = m /\ u * q \in Int
        BY <1>1
      <3> DEFINE x == u * q
                 y == u * k
      <3>3. y = x - u /\ x = m /\ x \in Int
        BY <3>1, <3>2
      <3> HIDE DEF x, y, m, k
      <3>4. y + t = f
        BY <1>1, <1>5, <3>3
      <3> QED BY <3>4 DEF y
    <2> HIDE DEF k, t
    <2>3. (u * k + t) \div u = k
      BY <1>1, <2>1, DivIs
    <2> QED BY <1>4, <2>2, <2>3 DEF k
  <1> QED BY <1>5, <1>7, <1>8

(***************************************************************************)
(* Numbers of steps around a turn: what is behind by i and goes a step on  *)
(* is behind by i, and what is behind by i and loses one by i + 1.         *)
(***************************************************************************)
LEMMA StepBehind ==
    ASSUME NEW d \in Nat \ {0}, NEW to \in Int, NEW from \in Int, NEW i \in Int
    PROVE  (((from - i) % d) + AngleStep(to, from, d)) % d = (to - i) % d
PROOF
  <1> DEFINE x == from - i
             r == x % d
             k == x \div d
             step == AngleStep(to, from, d)
  <1>1. x \in Int
    OBVIOUS
  <1>2. k \in Int /\ r \in Int /\ x = d * k + r
    <2> HIDE DEF x
    <2> QED BY <1>1, DivFacts
  <1>3. PICK t \in Int : step = to - from - d * t
    BY StepFacts
  <1>4. step \in Int
    BY StepFacts
  <1> DEFINE z == -(k + t)
             a == d * k
             b == d * t
  <1>5. z \in Int /\ a \in Int /\ b \in Int /\ d * z = -a - b
    BY <1>2
  <1> HIDE DEF step, r, k
  <1>6. r + step = (to - i) + d * z
    <2>1. from - i = a + r /\ step = to - from - b
      BY <1>2, <1>3
    <2> DEFINE w == d * z
    <2>2. w = -a - b /\ w \in Int
      BY <1>5
    <2> HIDE DEF a, b, w, z
    <2>3. r + step = (to - i) + w
      BY <1>2, <1>4, <1>5, <2>1, <2>2
    <2> QED BY <2>3 DEF w
  <1>7. ((to - i) + d * z) % d = (to - i) % d
    <2> DEFINE y == to - i
    <2>1. y \in Int
      OBVIOUS
    <2> HIDE DEF y, z
    <2>2. (y + d * z) % d = y % d
      BY <1>5, <2>1, ModShift
    <2> QED BY <2>2 DEF y
  <1> QED BY <1>6, <1>7 DEF r, step, x

LEMMA OneMoreBehind ==
    ASSUME NEW d \in Nat \ {0}, NEW q \in Int, NEW i \in Int
    PROVE  (((q - i) % d) - 1) % d = (q - (i + 1)) % d
PROOF
  <1> DEFINE x == q - i
             y == q - (i + 1)
             k == x \div d
             r == x % d
             z == -k
  <1>1. x \in Int /\ y \in Int /\ y = x - 1
    OBVIOUS
  <1>2. k \in Int /\ r \in Int /\ x = d * k + r
    <2> HIDE DEF x
    <2> QED BY <1>1, DivFacts
  <1>3. z \in Int /\ d * z = -(d * k) /\ d * k \in Int
    BY <1>2
  <1> DEFINE a == d * k
             w == d * z
  <1>4. a \in Int /\ w = -a /\ x = a + r
    BY <1>2, <1>3
  <1>5. r - 1 = y + w
    <2> HIDE DEF a, w, x, y, r, z
    <2> QED BY <1>1, <1>2, <1>4
  <1> HIDE DEF x, y, r, z
  <1>6. (y + d * z) % d = y % d
    BY <1>1, <1>3, ModShift
  <1> QED BY <1>5, <1>6 DEF r, x, y, w

(***************************************************************************)
(* The less of two numbers.                                                *)
(***************************************************************************)
LEMMA MinOfTwo ==
    ASSUME NEW x \in Int, NEW y \in Int
    PROVE  Min({x, y}) = IF x <= y THEN x ELSE y
PROOF
  BY DEF Min

(***************************************************************************)
(* How far two angles are apart: no further than any way from one to the   *)
(* other.                                                                  *)
(***************************************************************************)
LEMMA TurnApartFacts ==
    ASSUME NEW n \in Int, NEW m \in Int
    PROVE  /\ TurnApart(n, m) \in Int
           /\ \A d \in Nat, t \in Int :
                n - m = d + Turn * t \/ n - m = Turn * t - d => TurnApart(n, m) <= 2 * d
           /\ \E c \in Nat, t \in Int : /\ n - m = c + Turn * t \/ n - m = Turn * t - c
                                        /\ TurnApart(n, m) = 2 * c
PROOF
  <1>1. Turn \in Nat \ {0}
    BY WidthsAssumption
  <1> DEFINE x == n - m
             y == m - n
  <1>2. x \in Int /\ y \in Int /\ y = -x
    OBVIOUS
  <1> HIDE DEF x, y
  <1>3. /\ x % Turn \in Int /\ 0 <= x % Turn /\ x % Turn < Turn
        /\ y % Turn \in Int /\ 0 <= y % Turn /\ y % Turn < Turn
        /\ x \div Turn \in Int /\ y \div Turn \in Int
        /\ x = Turn * (x \div Turn) + (x % Turn)
        /\ y = Turn * (y \div Turn) + (y % Turn)
    BY <1>1, <1>2, DivFacts
  <1>4. TurnApart(n, m) = 2 * (IF x % Turn <= y % Turn THEN x % Turn ELSE y % Turn)
    BY <1>3, MinOfTwo DEF TurnApart, x, y
  <1>5. \E c \in Nat, t \in Int : /\ x = c + Turn * t \/ x = Turn * t - c
                                  /\ TurnApart(n, m) = 2 * c
    <2>1. CASE x % Turn <= y % Turn
      <3> DEFINE t == x \div Turn
                 c == x % Turn
      <3>1. t \in Int /\ c \in Nat /\ x = c + Turn * t /\ TurnApart(n, m) = 2 * c
        BY <1>1, <1>2, <1>3, <1>4, <2>1
      <3> HIDE DEF t, c
      <3> QED BY <3>1
    <2>2. CASE ~(x % Turn <= y % Turn)
      <3> DEFINE t == -(y \div Turn)
      <3>1. t \in Int /\ x = Turn * t - (y % Turn)
        BY <1>1, <1>2, <1>3
      <3> QED BY <1>3, <1>4, <2>2, <3>1
    <2> QED BY <2>1, <2>2
  <1>6. ASSUME NEW d \in Nat, NEW t \in Int, x = d + Turn * t
        PROVE  x % Turn <= d
    <2>1. CASE d < Turn
      <3>1. (Turn * t + d) % Turn = d
        BY <1>1, <2>1, DivIs
      <3> QED BY <1>1, <1>6, <3>1
    <2> QED BY <1>1, <1>3, <2>1
  <1>7. ASSUME NEW d \in Nat, NEW t \in Int, x = Turn * t - d
        PROVE  y % Turn <= d
    <2>1. CASE d < Turn
      <3>1. (Turn * (-t) + d) % Turn = d
        BY <1>1, <2>1, DivIs
      <3>2. y = Turn * (-t) + d
        BY <1>1, <1>2, <1>7
      <3> QED BY <3>1, <3>2
    <2> QED BY <1>1, <1>3, <2>1
  <1>8. \A d \in Nat, t \in Int :
          x = d + Turn * t \/ x = Turn * t - d => TurnApart(n, m) <= 2 * d
    <2> SUFFICES ASSUME NEW d \in Nat, NEW t \in Int,
                        x = d + Turn * t \/ x = Turn * t - d
                 PROVE  TurnApart(n, m) <= 2 * d
      OBVIOUS
    <2>1. x % Turn <= d \/ y % Turn <= d
      BY <1>6, <1>7
    <2> QED BY <1>3, <1>4, <2>1
  <1>9. TurnApart(n, m) \in Int
    BY <1>3, <1>4
  <1> QED BY <1>5, <1>8, <1>9 DEF x

(***************************************************************************)
(* An angle cut to a step, and j steps behind that, is less than j + 1 off *)
(* but for two roundings to an f32.                                        *)
(***************************************************************************)
LEMMA AngleClose ==
    ASSUME NEW n \in Widths, NEW v \in Int, NEW j \in Nat
    PROVE  TurnApart(v, AngleOf((AngleQuanta(v, n) - j) % n, n))
             <= 2 * Single + 2 * (j + 1) * (Turn \div n)
PROOF
  <1> DEFINE u == Turn \div n
             f == F32(v)
             k == f \div u
             r == f % u
             q == k % n
             p == (q - j) % n
             m == p * u
             g == F32(m)
  <1>1. n \in Nat \ {0} /\ u \in Nat \ {0} /\ Turn = n * u /\ Single \in Nat \ {0}
    BY TurnFacts
  <1>2. f \in Int /\ -Single <= 2 * (v - f) /\ 2 * (v - f) <= Single
    BY F32Facts
  <1>3. AngleOf((AngleQuanta(v, n) - j) % n, n) = g
    BY DEF AngleOf, AngleQuanta
  <1> HIDE DEF u, f
  <1>4. k \in Int /\ r \in Int /\ 0 <= r /\ r < u /\ f = u * k + r
    BY <1>1, <1>2, DivFacts
  <1> HIDE DEF k, r
  <1>5. q \in Int /\ k \div n \in Int /\ k = n * (k \div n) + q
    BY <1>1, <1>4, DivFacts
  <1> HIDE DEF q
  <1> DEFINE y == q - j
  <1>6. p \in Int /\ y \div n \in Int /\ q - j = n * (y \div n) + p
    <2>1. y \in Int
      BY <1>5
    <2> HIDE DEF y
    <2>2. y = n * (y \div n) + (y % n) /\ y \div n \in Int /\ y % n \in Int
      BY <1>1, <2>1, DivFacts
    <2> QED BY <2>2 DEF y
  <1> HIDE DEF p
  <1> DEFINE t == (k \div n) + (y \div n)
             b == j * u
             a == Turn * t
  <1>7. t \in Int /\ m \in Int /\ b \in Int /\ a \in Int
    BY <1>1, <1>5, <1>6
  <1>8. u * k = a + b + m
    <2>1. k = n * t + j + p
      <3> DEFINE x == n * (k \div n)
                 z == n * (y \div n)
      <3>1. x \in Int /\ z \in Int /\ n * t = x + z
        BY <1>1, <1>5, <1>6
      <3>2. k = x + q /\ q - j = z + p
        BY <1>5, <1>6
      <3> DEFINE w == n * t
      <3> HIDE DEF x, z, w
      <3>3. k = w + j + p
        BY <1>5, <1>6, <3>1, <3>2 DEF w
      <3> QED BY <3>3 DEF w
    <2> HIDE DEF t
    <2>2. u * (n * t + j + p) = (n * u) * t + j * u + p * u
      BY <1>1, <1>6, <1>7
    <2> QED BY <1>1, <2>1, <2>2
  <1>9. g \in Int /\ -Single <= 2 * (m - g) /\ 2 * (m - g) <= Single
    <2> HIDE DEF m
    <2> QED BY <1>7, F32Facts
  <1>10. b >= 0 /\ 2 * (j + 1) * u = 2 * b + 2 * u
    BY <1>1
  <1> HIDE DEF m, t, g, b
  <1> DEFINE d == (v - f) + r + b + (m - g)
             most == 2 * Single + 2 * b + 2 * u
  <1>11. d \in Int /\ v - g = d + a
    <2> DEFINE x == u * k
    <2>1. x = a + b + m /\ f = x + r
      BY <1>4, <1>8
    <2> HIDE DEF x, a
    <2> QED BY <1>2, <1>4, <1>7, <1>9, <2>1
  <1>12. 2 * d <= most /\ -(2 * d) <= most /\ most \in Int
    BY <1>1, <1>2, <1>4, <1>7, <1>9, <1>10
  <1> HIDE DEF most
  <1>13. \E e \in Nat : 2 * e <= most /\ (v - g = e + Turn * t \/ v - g = Turn * t - e)
    <2>1. CASE d >= 0
      <3>1. d \in Nat /\ v - g = d + Turn * t
        BY <1>11, <2>1
      <3> HIDE DEF d
      <3> QED BY <1>12, <3>1
    <2>2. CASE d < 0
      <3> DEFINE e == -d
      <3>1. e \in Nat /\ v - g = Turn * t - e /\ 2 * e <= most
        BY <1>7, <1>11, <1>12, <2>2
      <3> HIDE DEF d, e
      <3> QED BY <3>1
    <2> HIDE DEF d
    <2> QED BY <1>11, <2>1, <2>2
  <1>14. PICK e \in Nat : 2 * e <= most /\ (v - g = e + Turn * t \/ v - g = Turn * t - e)
    BY <1>13
  <1>15. TurnApart(v, g) <= 2 * e /\ TurnApart(v, g) \in Int
    BY <1>7, <1>9, <1>14, TurnApartFacts
  <1>16. TurnApart(v, g) <= most
    BY <1>12, <1>14, <1>15
  <1>17. most = 2 * Single + 2 * (j + 1) * u
    BY <1>1, <1>7, <1>10 DEF most
  <1> QED BY <1>3, <1>16, <1>17 DEF u

(***************************************************************************)
(* A step of an angle is no longer than the turn it stands for, but for    *)
(* the rounding of both ends of it.                                        *)
(***************************************************************************)
LEMMA StepShort ==
    ASSUME NEW n \in Widths, NEW v \in Int, NEW w \in Int
    PROVE  2 * (Turn \div n) * Abs(AngleStep(AngleQuanta(v, n), AngleQuanta(w, n), n))
             <= TurnApart(v, w) + 2 * ((Turn \div n) + Single)
PROOF
  <1> DEFINE u == Turn \div n
             f == F32(v)
             g == F32(w)
             i == f \div u
             j == g \div u
             s == AngleStep(AngleQuanta(v, n), AngleQuanta(w, n), n)
  <1>1. n \in Nat \ {0} /\ u \in Nat \ {0} /\ Turn = n * u /\ Single \in Nat \ {0}
    BY TurnFacts
  <1>2. /\ f \in Int /\ -Single <= 2 * (v - f) /\ 2 * (v - f) <= Single
        /\ g \in Int /\ -Single <= 2 * (w - g) /\ 2 * (w - g) <= Single
    BY F32Facts
  <1>3. AngleQuanta(v, n) = i % n /\ AngleQuanta(w, n) = j % n
    BY DEF AngleQuanta
  <1> HIDE DEF u, f, g
  <1>4. /\ i \in Int /\ f % u \in Int /\ 0 <= f % u /\ f % u < u /\ f = u * i + (f % u)
        /\ j \in Int /\ g % u \in Int /\ 0 <= g % u /\ g % u < u /\ g = u * j + (g % u)
    BY <1>1, <1>2, DivFacts
  <1> HIDE DEF i, j
  <1>5. PICK c \in Nat, t \in Int : /\ v - w = c + Turn * t \/ v - w = Turn * t - c
                                    /\ TurnApart(v, w) = 2 * c
    BY TurnApartFacts
  <1> DEFINE d == i - j - n * t
  <1>6. d \in Int /\ u * d < c + Single + u /\ -(u * d) < c + Single + u
    <2>1. d \in Int
      BY <1>1, <1>4, <1>5
    <2> DEFINE a == Turn * t
               e == u * d
               x == u * i
               y == u * j
    <2>2. a \in Int /\ e \in Int /\ x \in Int /\ y \in Int
      BY <1>1, <1>4, <1>5, <2>1
    <2>3. e = x - y - a
      <3>1. u * (n * t) = (n * u) * t
        BY <1>1, <1>5
      <3>2. n * t \in Int
        BY <1>1, <1>5
      <3> DEFINE z == n * t
      <3>3. z \in Int /\ u * z = a /\ d = i - j - z
        BY <1>1, <3>1, <3>2
      <3> HIDE DEF z, a, d
      <3> QED BY <1>1, <1>4, <3>3
    <2>4. /\ f = x + (f % u) /\ g = y + (g % u)
          /\ v - w = c + a \/ v - w = a - c
      BY <1>4, <1>5
    <2> DEFINE p == f % u
               q == g % u
    <2>5. p \in Int /\ 0 <= p /\ p < u /\ q \in Int /\ 0 <= q /\ q < u /\ f = x + p /\ g = y + q
      BY <1>4, <2>4
    <2> HIDE DEF p, q, x, y, a, e, d
    <2>6. e < c + Single + u /\ -e < c + Single + u
      BY <1>1, <1>2, <1>5, <2>2, <2>3, <2>4, <2>5
    <2> QED BY <2>1, <2>6 DEF e
  <1> HIDE DEF d
  <1>7. /\ s \in Int
        /\ s <= d \/ s <= -d
        /\ -d <= s \/ d <= s
        /\ Abs(s) <= Abs(d)
    <2>1. /\ i % n \in Int /\ i \div n \in Int /\ i = n * (i \div n) + (i % n)
          /\ j % n \in Int /\ j \div n \in Int /\ j = n * (j \div n) + (j % n)
      BY <1>1, <1>4, DivFacts
    <2> DEFINE x == i % n
               y == j % n
               k == i \div n
               l == j \div n
               z == t - k + l
    <2>2. x \in Int /\ y \in Int /\ z \in Int /\ d = x - y - n * z
      <3>1. x \in Int /\ y \in Int /\ k \in Int /\ l \in Int /\ i = n * k + x /\ j = n * l + y
        BY <2>1
      <3> HIDE DEF x, y, k, l
      <3> QED BY <1>1, <1>5, <3>1 DEF d
    <2> HIDE DEF x, y, z
    <2>3. s = AngleStep(x, y, n)
      BY <1>3 DEF x, y
    <2> HIDE DEF s
    <2>4. /\ s \in Int
          /\ LET far == x - y - n * z
             IN  (far >= 0 => s <= far /\ -far <= s) /\ (far <= 0 => s <= -far /\ far <= s)
      BY <1>1, <2>2, <2>3, StepFacts
    <2>5. (d >= 0 => s <= d /\ -d <= s) /\ (d <= 0 => s <= -d /\ d <= s)
      BY <2>2, <2>4
    <2> QED BY <1>6, <2>4, <2>5 DEF Abs
  <1> HIDE DEF s
  <1>8. Abs(s) \in Nat /\ Abs(d) \in Nat
    BY <1>6, <1>7 DEF Abs
  <1>9. u * Abs(s) <= u * Abs(d)
    BY <1>1, <1>7, <1>8
  <1>10. u * Abs(d) < c + Single + u
    BY <1>1, <1>6 DEF Abs
  <1>11. u * Abs(s) < c + Single + u /\ u * Abs(s) \in Int
    <2>1. u * Abs(s) \in Int /\ u * Abs(d) \in Int
      BY <1>1, <1>8
    <2> QED BY <1>1, <1>5, <1>9, <1>10, <2>1
  <1>12. 2 * u * Abs(s) = 2 * (u * Abs(s))
    BY <1>1, <1>8
  <1> QED BY <1>1, <1>5, <1>11, <1>12 DEF u, s

-----------------------------------------------------------------------------
\* Slots.

\* A value after one rounding by a tag, or by its slot's coding.
RoundedAs(tag, v) == GetTagged(tag, PutPayload(tag, v, 0), 0)

Rounded(c, v) ==
    CASE c.kind = "int_step" -> Integer(AsInt(v))
      [] c.kind = "float_grid" -> Float(GridQ(AsFloat(v), c.grid) * c.grid)
      [] c.kind = "vec3_grid"  -> Vec3([a \in Axes |-> GridQ(AsVec3(v)[a], c.grid) * c.grid])
      [] c.kind = "tagged"     -> RoundedAs(TagFor(v, c.quant), v)
      [] OTHER                 -> RoundedAs(c.kind, v)

\* What a client has of a value, after one rounding, or of an angle that goes
\* in steps some of these behind; and what it has if that is no more than most.
StepsBehind(v, n, lost) == Float(AngleOf((AngleQuanta(AsFloat(v), n) - lost) % n, n))

Had(c, v, lost) ==
    IF c.kind \in AngleSteps THEN StepsBehind(v, Steps(c.kind), lost) ELSE Rounded(c, v)

Has(c, v, w, most) == \E j \in 0 .. most : w = Had(c, v, j)

\* As _make_slot_coding makes them: a grid is one.
IsCoding(c) == c.kind \in {"float_grid", "vec3_grid"} => c.grid \in Nat \ {0}

(***************************************************************************)
(* A tagged value is read as the same whatever the packet's header says:   *)
(* it is the header of both ends.                                          *)
(***************************************************************************)
LEMMA TagsTimeless ==
    ASSUME NEW tag, NEW v, AsInt(v) \in Int, NEW now \in Int
    PROVE  GetTagged(tag, PutPayload(tag, v, now), now) = RoundedAs(tag, v)
PROOF
  <1>1. CASE tag = "time_delta"
    <2>1. now + (AsInt(v) - now) = 0 + (AsInt(v) - 0)
      OBVIOUS
    <2> QED BY <1>1, <2>1 DEF RoundedAs, GetTagged, PutPayload
  <1>2. CASE tag # "time_delta"
    BY <1>2 DEF RoundedAs, GetTagged, PutPayload
  <1> QED BY <1>1, <1>2

(***************************************************************************)
(* put_slot and get_slot: whatever the base, what is read is what was      *)
(* written after one rounding, if both ends have the base itself or the    *)
(* client has one rounding of it.  Rounding a second time changes nothing, *)
(* which is why errors do not add up from baseline to baseline, but for    *)
(* those of angles that go in steps.                                       *)
(***************************************************************************)
LEMMA SlotRoundTrip ==
    ASSUME NEW c, IsCoding(c), c.kind \notin AngleSteps, NEW v, InWidth(v), NEW now \in Int,
           NEW base, NEW other,
           \/ base = NoBase /\ other = NoBase
           \/ InWidth(base) /\ other = Rounded(c, base)
    PROVE  GetSlot(c.kind, c.grid, PutSlot(c.kind, c.grid, c.quant, v, base, now), other, now)
             = Rounded(c, v)
PROOF
  <1>0. AsInt(NoBase) = 0 /\ AsFloat(NoBase) = 0 /\ AsVec3(NoBase) = Zero
    BY DEF NoBase, AsInt, AsFloat, AsVec3
  <1>1. CASE c.kind = "int_step"
    <2>1. AsInt(other) = AsInt(base) /\ AsInt(base) \in Int
      BY <1>0, <1>1 DEF Rounded, Integer, AsInt, InWidth, AngleSteps
    <2>2. Wrapped(AsInt(base) + Wrapped(AsInt(v) - AsInt(base))) = AsInt(v)
      <3>1. AsInt(v) \in Int /\ -(IntRange \div 2) <= AsInt(v) /\ AsInt(v) < IntRange \div 2
        BY DEF InWidth
      <3> DEFINE x == AsInt(v)
                 y == AsInt(base)
      <3>2. x \in Int /\ y \in Int /\ -(IntRange \div 2) <= x /\ x < IntRange \div 2
        BY <2>1, <3>1
      <3> HIDE DEF x, y
      <3>3. Wrapped(y + Wrapped(x - y)) = x
        BY <3>2, WrappedAgain
      <3> QED BY <3>3 DEF x, y
    <2> QED BY <1>1, <2>1, <2>2 DEF GetSlot, PutSlot, Rounded, AngleSteps
  <1>3. CASE c.kind = "float_grid"
    <2> DEFINE g == c.grid
               q == GridQ(AsFloat(v), g)
               b == GridQ(AsFloat(base), g)
    <2>1. g \in Nat \ {0} /\ AsFloat(base) \in Int /\ AsFloat(v) \in Int
      BY <1>0, <1>3 DEF IsCoding, InWidth
    <2>2. q \in Int /\ b \in Int
      BY <2>1, NearestFacts DEF GridQ
    <2>3. GridQ(AsFloat(other), g) = b
      <3>1. CASE base = NoBase /\ other = NoBase
        BY <3>1
      <3>2. CASE InWidth(base) /\ other = Rounded(c, base)
        <4>1. AsFloat(other) = b * g
          BY <1>3, <3>2 DEF Rounded, Float, AsFloat, AngleSteps
        <4> HIDE DEF b, g
        <4> QED BY <2>1, <2>2, <4>1, NearestAgain DEF GridQ
      <3> QED BY <3>1, <3>2
    <2>4. PutSlot(c.kind, g, c.quant, v, base, now) = q - b
      BY <1>3 DEF PutSlot, AngleSteps
    <2>5. GetSlot(c.kind, g, q - b, other, now) = Float((GridQ(AsFloat(other), g) + (q - b)) * g)
      BY <1>3 DEF GetSlot, AngleSteps
    <2>6. Rounded(c, v) = Float(q * g)
      BY <1>3 DEF Rounded, AngleSteps
    <2> HIDE DEF q, b
    <2>7. b + (q - b) = q
      BY <2>2
    <2> QED BY <2>3, <2>4, <2>5, <2>6, <2>7
  <1>4. CASE c.kind = "vec3_grid"
    <2> DEFINE g == c.grid
               q(a) == GridQ(AsVec3(v)[a], g)
               b(a) == GridQ(AsVec3(base)[a], g)
               p == [a \in Axes |-> q(a) - b(a)]
    <2>1. g \in Nat \ {0} /\ \A a \in Axes : AsVec3(base)[a] \in Int /\ AsVec3(v)[a] \in Int
      BY <1>0, <1>4 DEF IsCoding, InWidth, Zero
    <2>2. \A a \in Axes : q(a) \in Int /\ b(a) \in Int
      BY <2>1, NearestFacts DEF GridQ
    <2>3. \A a \in Axes : GridQ(AsVec3(other)[a], g) = b(a)
      <3>1. CASE base = NoBase /\ other = NoBase
        BY <3>1
      <3>2. CASE InWidth(base) /\ other = Rounded(c, base)
        <4>1. AsVec3(other) = [a \in Axes |-> b(a) * g]
          BY <1>4, <3>2 DEF Rounded, Vec3, AsVec3, AngleSteps
        <4>2. ASSUME NEW a \in Axes PROVE GridQ(b(a) * g, g) = b(a)
          <5>1. b(a) \in Int
            BY <2>2
          <5> DEFINE x == b(a)
          <5> HIDE DEF b, g, x
          <5> QED BY <2>1, <5>1, NearestAgain DEF GridQ, x
        <4> QED BY <4>1, <4>2
      <3> QED BY <3>1, <3>2
    <2>4. PutSlot(c.kind, g, c.quant, v, base, now) = p
      BY <1>4 DEF PutSlot, AngleSteps
    <2>5. GetSlot(c.kind, g, p, other, now)
            = Vec3([a \in Axes |-> (GridQ(AsVec3(other)[a], g) + p[a]) * g])
      BY <1>4 DEF GetSlot, AngleSteps
    <2>6. Rounded(c, v) = Vec3([a \in Axes |-> q(a) * g])
      BY <1>4 DEF Rounded, AngleSteps
    <2>7. \A a \in Axes : (GridQ(AsVec3(other)[a], g) + p[a]) * g = q(a) * g
      <3> SUFFICES ASSUME NEW a \in Axes
                   PROVE  (GridQ(AsVec3(other)[a], g) + p[a]) * g = q(a) * g
        OBVIOUS
      <3>1. p[a] = q(a) - b(a) /\ GridQ(AsVec3(other)[a], g) = b(a)
        BY <2>3
      <3> DEFINE x == q(a)
                 y == b(a)
      <3>2. x \in Int /\ y \in Int
        BY <2>2
      <3> HIDE DEF x, y
      <3>3. y + (x - y) = x
        BY <3>2
      <3> QED BY <3>1, <3>3 DEF x, y
    <2> HIDE DEF p, q, g
    <2> QED BY <2>4, <2>5, <2>6, <2>7 DEF g
  <1>5. CASE c.kind = "tagged"
    <2>1. GetSlot(c.kind, c.grid, PutSlot(c.kind, c.grid, c.quant, v, base, now), other, now)
            = GetTagged(TagFor(v, c.quant), PutPayload(TagFor(v, c.quant), v, now), now)
      BY <1>5 DEF GetSlot, PutSlot, GetValue, PutValue, AngleSteps
    <2> QED BY <1>5, <2>1, TagsTimeless DEF Rounded, InWidth, AngleSteps
  <1>6. CASE c.kind \notin {"int_step", "float_grid", "vec3_grid", "tagged"} \cup AngleSteps
    <2>1. GetSlot(c.kind, c.grid, PutSlot(c.kind, c.grid, c.quant, v, base, now), other, now)
            = GetTagged(c.kind, PutPayload(c.kind, v, now), now)
      BY <1>6 DEF GetSlot, PutSlot
    <2> QED BY <1>6, <2>1, TagsTimeless DEF Rounded, InWidth
  <1> QED BY <1>1, <1>3, <1>4, <1>5, <1>6

(***************************************************************************)
(* An angle goes as the step between what it and the base are cut to.  The *)
(* client puts the step on what it cuts its own copy of the base to, which *)
(* is as far behind as that copy is, or by one more.                       *)
(***************************************************************************)
LEMMA AngleRoundTrip ==
    ASSUME NEW c, c.kind \in AngleSteps, NEW v, InWidth(v), NEW now \in Int, NEW most \in Nat,
           NEW base, NEW other,
           \/ base = NoBase /\ other = NoBase
           \/ InWidth(base) /\ \E j \in Nat : j + 1 <= most /\ other = Had(c, base, j)
    PROVE  Has(c, v, GetSlot(c.kind, c.grid, PutSlot(c.kind, c.grid, c.quant, v, base, now),
                             other, now), most)
PROOF
  <1> DEFINE n == Steps(c.kind)
             q == AngleQuanta(AsFloat(v), n)
             got == GetSlot(c.kind, c.grid, PutSlot(c.kind, c.grid, c.quant, v, base, now),
                            other, now)
  <1>1. n \in Widths /\ n \in Nat \ {0}
    BY TurnFacts DEF Steps, Widths, AngleSteps
  <1>2. q \in Int /\ 0 <= q /\ q < n
    BY <1>1, QuantaFacts DEF InWidth
  <1>3. \A j : Had(c, v, j) = Float(AngleOf((q - j) % n, n))
    BY DEF Had, StepsBehind
  <1>4. ASSUME NEW j \in Nat, j <= most, got = Float(AngleOf((q - j) % n, n))
        PROVE  Has(c, v, got, most)
    <2>1. j \in 0 .. most
      BY <1>4
    <2> QED BY <1>3, <1>4, <2>1 DEF Has
  <1>5. CASE base = NoBase /\ other = NoBase
    <2>1. got = Float(AngleOf(q, n))
      BY <1>5 DEF GetSlot, PutSlot, GetTagged, PutPayload, AngleTag, Steps, AngleSteps
    <2> HIDE DEF got, n, q
    <2>2. (q - 0) % n = q
      <3>1. (n * 0 + q) % n = q
        BY <1>1, <1>2, DivIs
      <3>2. n * 0 + q = q - 0
        BY <1>1, <1>2
      <3> QED BY <3>1, <3>2
    <2>3. 0 \in Nat /\ 0 <= most
      OBVIOUS
    <2>4. Has(c, v, got, most)
      BY <1>4, <2>1, <2>2, <2>3
    <2> QED BY <2>4 DEF got
  <1>6. CASE InWidth(base) /\ \E j \in Nat : j + 1 <= most /\ other = Had(c, base, j)
    <2> DEFINE b == AngleQuanta(AsFloat(base), n)
    <2>1. PICK j \in Nat : j + 1 <= most /\ other = Had(c, base, j)
      BY <1>6
    <2> DEFINE p == (b - j) % n
    <2>2. b \in Int /\ 0 <= b /\ b < n
      BY <1>1, <1>6, QuantaFacts DEF InWidth
    <2>3. other = Float(AngleOf(p, n))
      BY <2>1 DEF Had, StepsBehind
    <2>4. base # NoBase /\ other # NoBase
      <3> HIDE DEF p, n
      <3>1. other.type = "float"
        BY <2>3 DEF Float
      <3>2. NoBase.type = "none" /\ base.type # "none"
        BY <1>6 DEF NoBase, InWidth
      <3> QED BY <3>1, <3>2
    <2> DEFINE x == AngleQuanta(AsFloat(other), n)
    <2>5. got = Float(AngleOf((x + AngleStep(q, b, n)) % n, n))
      BY <2>4 DEF GetSlot, PutSlot, AngleSteps
    <2> HIDE DEF got, n, q, b
    <2>6. p \in Int /\ 0 <= p /\ p < n
      <3> DEFINE y == b - j
      <3>1. y \in Int
        BY <2>2
      <3> HIDE DEF y
      <3>2. y % n \in Int /\ 0 <= y % n /\ y % n < n
        BY <1>1, <3>1, DivFacts
      <3> QED BY <3>2 DEF y
    <2>7. x \in {p, (p - 1) % n}
      <3>1. AsFloat(other) = AngleOf(p, n)
        BY <2>3 DEF Float, AsFloat
      <3> HIDE DEF p
      <3> QED BY <1>1, <2>6, <3>1, QuantaAgain
    <2> HIDE DEF x
    <2>8. PICK i \in {j, j + 1} : x = (b - i) % n
      <3>1. n \in Nat \ {0} /\ b \in Int /\ j \in Int
        BY <1>1, <2>2
      <3>2. (p - 1) % n = (b - (j + 1)) % n
        BY <3>1, OneMoreBehind
      <3>3. x = p \/ x = (p - 1) % n
        BY <2>7
      <3>4. CASE x = p
        BY <3>4
      <3>5. CASE x = (p - 1) % n
        BY ONLY <3>2, <3>5, Zenon
      <3> QED BY <3>3, <3>4, <3>5
    <2>9. i \in Nat /\ i <= most
      BY <2>1
    <2> HIDE DEF p
    <2>10. (((b - i) % n) + AngleStep(q, b, n)) % n = (q - i) % n
      <3>1. n \in Nat \ {0} /\ q \in Int /\ b \in Int /\ i \in Int
        BY <1>1, <1>2, <2>2, <2>9
      <3> QED BY ONLY <3>1, StepBehind, Zenon
    <2>11. got = Float(AngleOf((q - i) % n, n))
      BY ONLY <2>5, <2>8, <2>10, Zenon
    <2>12. Has(c, v, got, most)
      BY <1>4, <2>9, <2>11
    <2> QED BY <2>12 DEF got
  <1> QED BY <1>5, <1>6

(***************************************************************************)
(* Either way: what is read is had, within one more step behind than what  *)
(* the client had of the base.                                             *)
(***************************************************************************)
LEMMA SlotTaken ==
    ASSUME NEW c, IsCoding(c), NEW v, InWidth(v), NEW now \in Int, NEW most \in Nat,
           NEW base, NEW other,
           \/ base = NoBase /\ other = NoBase
           \/ InWidth(base) /\ \E j \in Nat : j + 1 <= most /\ other = Had(c, base, j)
    PROVE  Has(c, v, GetSlot(c.kind, c.grid, PutSlot(c.kind, c.grid, c.quant, v, base, now),
                             other, now), most)
PROOF
  <1>1. CASE c.kind \in AngleSteps
    BY <1>1, AngleRoundTrip
  <1>2. CASE c.kind \notin AngleSteps
    <2>1. \A w, j : Had(c, w, j) = Rounded(c, w)
      BY <1>2 DEF Had
    <2>2. \/ base = NoBase /\ other = NoBase
          \/ InWidth(base) /\ other = Rounded(c, base)
      BY <2>1
    <2>3. GetSlot(c.kind, c.grid, PutSlot(c.kind, c.grid, c.quant, v, base, now), other, now)
            = Rounded(c, v)
      BY <1>2, <2>2, SlotRoundTrip
    <2>4. 0 \in 0 .. most
      OBVIOUS
    <2> QED BY <2>1, <2>3, <2>4 DEF Has
  <1> QED BY <1>1, <1>2

(***************************************************************************)
(* One rounding by a tag is no more than its loss.                         *)
(***************************************************************************)
LEMMA TagClose ==
    ASSUME NEW tag, NEW grid, NEW v, InWidth(v),
           tag \notin {"int_step", "float_grid", "vec3_grid"} \cup AngleSteps
    PROVE  CloseAs(tag, grid, v, RoundedAs(tag, v), 0)
PROOF
  <1>0. AsFloat(v) \in Int /\ AsInt(v) \in Int /\ AsVec3(v) \in [Axes -> Int]
    BY DEF InWidth
  <1>1. \A n \in Int : \A g \in {Single, Half} : Apart(n, g * Nearest(n, g)) <= g
    <2> SUFFICES ASSUME NEW n \in Int, NEW g \in {Single, Half}
                 PROVE  Apart(n, g * Nearest(n, g)) <= g
      OBVIOUS
    <2>1. g \in Nat \ {0}
      BY WidthsAssumption
    <2> DEFINE m == g * Nearest(n, g)
    <2>2. m \in Int /\ -g <= 2 * (n - m) /\ 2 * (n - m) <= g
      BY <2>1, NearestFacts
    <2> HIDE DEF m
    <2>3. Apart(n, m) <= g
      BY <2>1, <2>2 DEF Apart, Abs
    <2> QED BY <2>3 DEF m
  <1>2. CASE tag \in {"angle16", "angle8"}
    <2> DEFINE n == IF tag = "angle16" THEN Steps16 ELSE Steps8
    <2>1. n \in Widths
      BY DEF Widths
    <2>2. RoundedAs(tag, v) = Float(AngleOf(AngleQuanta(AsFloat(v), n), n))
      BY <1>2 DEF RoundedAs, GetTagged, PutPayload
    <2>3. AsFloat(RoundedAs(tag, v)) = AngleOf(AngleQuanta(AsFloat(v), n), n)
      BY <2>2 DEF Float, AsFloat
    <2>4. Loss(tag, grid, 0) = 2 * Single + 2 * (0 + 1) * (Turn \div n)
      BY <1>2 DEF Loss
    <2> HIDE DEF n
    <2> DEFINE q == AngleQuanta(AsFloat(v), n)
    <2>5. q \in Int /\ (q - 0) % n = q
      <3>1. q \in Int /\ 0 <= q /\ q < n /\ n \in Nat \ {0}
        BY <1>0, <2>1, QuantaFacts, TurnFacts
      <3> HIDE DEF q
      <3>2. (n * 0 + q) % n = q
        BY <3>1, DivIs
      <3>3. n * 0 + q = q - 0
        BY <3>1
      <3> QED BY <3>1, <3>2, <3>3
    <2>6. TurnApart(AsFloat(v), AngleOf((q - 0) % n, n))
            <= 2 * Single + 2 * (0 + 1) * (Turn \div n)
      BY <1>0, <2>1, AngleClose
    <2>7. AsFloat(RoundedAs(tag, v)) = AngleOf((q - 0) % n, n)
      BY <2>3, <2>5
    <2> HIDE DEF q
    <2>8. TurnApart(AsFloat(v), AsFloat(RoundedAs(tag, v))) <= Loss(tag, grid, 0)
      BY <2>4, <2>6, <2>7
    <2> QED BY <1>2, <2>8 DEF CloseAs
  <1>3. CASE tag \in {"half", "float"}
    <2> DEFINE g == IF tag = "half" THEN Half ELSE Single
    <2>1. AsFloat(RoundedAs(tag, v)) = g * Nearest(AsFloat(v), g) /\ Loss(tag, grid, 0) = g
      <3>1. PutPayload(tag, v, 0) = g * Nearest(AsFloat(v), g)
        BY <1>3 DEF PutPayload, F16, F32
      <3>2. RoundedAs(tag, v) = Float(PutPayload(tag, v, 0))
        BY <1>3 DEF RoundedAs, GetTagged
      <3>3. AsFloat(RoundedAs(tag, v)) = PutPayload(tag, v, 0)
        BY <3>2 DEF Float, AsFloat
      <3>4. Loss(tag, grid, 0) = g
        BY <1>3 DEF Loss
      <3> QED BY <3>1, <3>3, <3>4
    <2>2. CloseAs(tag, grid, v, RoundedAs(tag, v), 0)
            = (Apart(AsFloat(v), AsFloat(RoundedAs(tag, v))) <= Loss(tag, grid, 0))
      BY <1>3 DEF CloseAs, AngleSteps
    <2> QED BY <1>0, <1>1, <2>1, <2>2
  <1>4. CASE tag \in {"vec3_half", "vec3"}
    <2> DEFINE g == IF tag = "vec3_half" THEN Half ELSE Single
    <2>1. /\ \A a \in Axes : AsVec3(RoundedAs(tag, v))[a] = g * Nearest(AsVec3(v)[a], g)
          /\ Loss(tag, grid, 0) = g
      BY <1>4 DEF RoundedAs, GetTagged, PutPayload, Vec3, AsVec3, Loss, F16, F32
    <2>2. CloseAs(tag, grid, v, RoundedAs(tag, v), 0)
            = \A a \in Axes : Apart(AsVec3(v)[a], AsVec3(RoundedAs(tag, v))[a]) <= Loss(tag, grid, 0)
      BY <1>4 DEF CloseAs
    <2> QED BY <1>0, <1>1, <2>1, <2>2
  <1>5. CASE tag = "bool"
    <2>1. RoundedAs(tag, v) = Bool(AsBool(v))
      BY <1>5 DEF RoundedAs, GetTagged, PutPayload
    <2>2. AsBool(v) \in {0, 1}
      BY DEF AsBool
    <2>3. AsBool(RoundedAs(tag, v)) = AsBool(v)
      BY <2>1, <2>2 DEF Bool, AsBool
    <2> QED BY <1>5, <2>3 DEF CloseAs, AngleSteps
  <1>6. CASE tag \in {"int", "time_delta"}
    <2>1. AsInt(RoundedAs(tag, v)) = AsInt(v)
      <3>1. RoundedAs(tag, v) = Integer(AsInt(v))
        <4>1. 0 + (AsInt(v) - 0) = AsInt(v)
          BY <1>0
        <4> QED BY <1>6, <4>1 DEF RoundedAs, GetTagged, PutPayload
      <3> QED BY <3>1 DEF Integer, AsInt
    <2> QED BY <1>6, <2>1 DEF CloseAs, AngleSteps
  <1>7. CASE tag \notin {"angle16", "angle8", "half", "float", "vec3_half", "vec3", "bool",
                         "int", "time_delta"}
    <2>1. RoundedAs(tag, v) = v
      BY <1>7 DEF RoundedAs, GetTagged, PutPayload
    <2> QED BY <1>7, <2>1 DEF CloseAs
  <1> QED BY <1>2, <1>3, <1>4, <1>5, <1>6, <1>7

(***************************************************************************)
(* One rounding by a slot's coding is no more than its loss.               *)
(***************************************************************************)
LEMMA RoundedClose ==
    ASSUME NEW c, IsCoding(c), c.kind \notin AngleSteps, NEW v, InWidth(v), NEW chain
    PROVE  Close(c, v, Rounded(c, v), chain)
PROOF
  <1>0. AsFloat(v) \in Int /\ AsInt(v) \in Int /\ AsVec3(v) \in [Axes -> Int]
    BY DEF InWidth
  <1>1. CASE c.kind = "tagged"
    <2>1. TagFor(v, c.quant) \notin {"int_step", "float_grid", "vec3_grid"} \cup AngleSteps
      BY DEF TagFor, Hints, AngleSteps
    <2>2. CloseAs(TagFor(v, c.quant), c.grid, v, RoundedAs(TagFor(v, c.quant), v), 0)
      BY <2>1, TagClose
    <2>3. Rounded(c, v) = RoundedAs(TagFor(v, c.quant), v)
      BY <1>1 DEF Rounded, AngleSteps
    <2> QED BY <1>1, <2>2, <2>3 DEF Close
  <1>2. CASE c.kind = "int_step"
    BY <1>0, <1>2 DEF Close, CloseAs, Rounded, Integer, AsInt, AngleSteps
  <1>4. ASSUME c.kind \in {"float_grid", "vec3_grid"}, NEW n \in Int
        PROVE  Apart(n, GridQ(n, c.grid) * c.grid) <= c.grid
    <2> DEFINE g == c.grid
               k == Nearest(n, g)
               m == g * k
    <2>1. g \in Nat \ {0}
      BY <1>4 DEF IsCoding
    <2>2. k \in Int /\ m \in Int /\ -g <= 2 * (n - m) /\ 2 * (n - m) <= g
      <3> HIDE DEF g
      <3> QED BY <1>4, <2>1, NearestFacts
    <2>3. GridQ(n, g) * g = m
      BY <2>1, <2>2 DEF GridQ
    <2> HIDE DEF m, g, k
    <2>4. Apart(n, m) <= g
      BY <1>4, <2>1, <2>2 DEF Apart, Abs
    <2> QED BY <2>3, <2>4 DEF g
  <1>5. CASE c.kind = "float_grid"
    <2>1. AsFloat(Rounded(c, v)) = GridQ(AsFloat(v), c.grid) * c.grid
      BY <1>5 DEF Rounded, Float, AsFloat, AngleSteps
    <2>2. Close(c, v, Rounded(c, v), chain) = (Apart(AsFloat(v), AsFloat(Rounded(c, v))) <= c.grid)
      BY <1>5 DEF Close, CloseAs, Loss, AngleSteps
    <2> QED BY <1>0, <1>4, <1>5, <2>1, <2>2
  <1>6. CASE c.kind = "vec3_grid"
    <2>1. \A a \in Axes : AsVec3(Rounded(c, v))[a] = GridQ(AsVec3(v)[a], c.grid) * c.grid
      BY <1>6 DEF Rounded, Vec3, AsVec3, AngleSteps
    <2>2. Close(c, v, Rounded(c, v), chain)
            = \A a \in Axes : Apart(AsVec3(v)[a], AsVec3(Rounded(c, v))[a]) <= c.grid
      BY <1>6 DEF Close, CloseAs, Loss, AngleSteps
    <2> QED BY <1>0, <1>4, <1>6, <2>1, <2>2
  <1>7. CASE c.kind \notin {"int_step", "float_grid", "vec3_grid", "tagged"} \cup AngleSteps
    <2>1. Rounded(c, v) = RoundedAs(c.kind, v)
      BY <1>7 DEF Rounded
    <2>2. CloseAs(c.kind, c.grid, v, RoundedAs(c.kind, v), 0)
      BY <1>7, TagClose
    <2> QED BY <1>7, <2>1, <2>2 DEF Close
  <1> QED BY <1>1, <1>2, <1>5, <1>6, <1>7

(***************************************************************************)
(* And what is had of a value is no further off than the steps behind say. *)
(***************************************************************************)
LEMMA HasClose ==
    ASSUME NEW c, IsCoding(c), NEW v, InWidth(v), NEW w, NEW most \in Nat, Has(c, v, w, most)
    PROVE  Close(c, v, w, most)
PROOF
  <1>1. PICK j \in 0 .. most : w = Had(c, v, j)
    BY DEF Has
  <1>2. CASE c.kind \notin AngleSteps
    BY <1>1, <1>2, RoundedClose DEF Had
  <1>3. CASE c.kind \in AngleSteps
    <2> DEFINE n == Steps(c.kind)
               x == AsFloat(v)
               y == AngleOf((AngleQuanta(x, n) - j) % n, n)
               u == Turn \div n
    <2>1. n \in Widths /\ x \in Int /\ u \in Nat /\ Single \in Nat
      BY <1>3, TurnFacts DEF Steps, Widths, AngleSteps, InWidth
    <2>2. AsFloat(w) = y
      BY <1>1, <1>3 DEF Had, StepsBehind, Float, AsFloat
    <2>3. Close(c, v, w, most) = (TurnApart(x, y) <= 2 * Single + 2 * (most + 1) * u)
      BY <1>3, <2>2 DEF Close, CloseAs, Loss, Steps, AngleSteps
    <2> HIDE DEF n, x
    <2>4. TurnApart(x, y) <= 2 * Single + 2 * (j + 1) * u
      BY <2>1, AngleClose
    <2>5. TurnApart(x, y) \in Int
      <3>1. AngleQuanta(x, n) \in Int /\ n \in Nat \ {0}
        BY <2>1, QuantaFacts, TurnFacts
      <3> DEFINE z == AngleQuanta(x, n) - j
      <3>2. z \in Int
        BY <3>1
      <3> HIDE DEF z
      <3>3. z % n \in Int
        BY <3>1, <3>2, DivFacts
      <3> DEFINE k == z % n
                 m == k * u
      <3>4. m \in Int
        BY <2>1, <3>3
      <3> HIDE DEF k, m, u
      <3>5. F32(m) \in Int
        BY <3>4, F32Facts
      <3>6. y = F32(m)
        BY DEF AngleOf, m, k, z, u
      <3> QED BY <2>1, <3>5, <3>6, TurnApartFacts
    <2> HIDE DEF y, u
    <2>6. (j + 1) * u <= (most + 1) * u
      BY <2>1
    <2>7. 2 * (j + 1) * u = 2 * ((j + 1) * u) /\ 2 * (most + 1) * u = 2 * ((most + 1) * u)
      BY <2>1
    <2>8. (j + 1) * u \in Int /\ (most + 1) * u \in Int
      BY <2>1
    <2>9. TurnApart(x, y) <= 2 * Single + 2 * (most + 1) * u
      BY <2>1, <2>4, <2>5, <2>6, <2>7, <2>8
    <2> QED BY <2>3, <2>9
  <1> QED BY <1>2, <1>3

-----------------------------------------------------------------------------
\* The entity.

(***************************************************************************)
(* What else holds of what was read and sent: they are values of the       *)
(* properties, and a snapshot is coded against one the client took.        *)
(***************************************************************************)
Values == {Nil} \cup UNION {game.values[a] : a \in Names}
Stamps == [DOMAIN ServerSlots -> Values]
SentOnes == [is : Stamps, base : Nat, chain : Nat]

FramesOK ==
    /\ stamped \in Stamps
    /\ frames \in Seq(SentOnes)
    /\ \A k \in DOMAIN frames : frames[k].base # 0 => frames[k].base \in DOMAIN held
    /\ DOMAIN shown = Names

(***************************************************************************)
(* A client coded otherwise took nothing, so no later snapshot, coded      *)
(* against one of those, is of use to it either.                           *)
(***************************************************************************)
CodingsDiffer == Check(ServerCoding) # Check(MakeSlotCoding(game.client))

NothingTaken == CodingsDiffer =>
    /\ \A k \in DOMAIN held : held[k] = <<>>
    /\ \A a \in Names \ written : shown[a] = Nil

(***************************************************************************)
(* What HeldIsClose and ShownInPlace need, which are about the values only *)
(* and so not inductive: a slot that is not coded keeps what it was at the *)
(* baseline, so the client must have, of every snapshot, what was read     *)
(* after one rounding, not merely something close to it, or the errors of  *)
(* a chain of baselines would add up; an angle that goes in steps is that  *)
(* many of these behind, each baseline of the chain being worth one at     *)
(* most; chains must not get shorter from snapshot to snapshot, for what   *)
(* is shown may be an earlier one's; what is shown must be that of the     *)
(* last snapshot; and what is read must be of the slot's own property.     *)
(***************************************************************************)
IsOf(s, v) ==
    ServerSlots[s].at \in Names => v \in game.values[ServerSlots[s].at] \/ Does("frees")

ReadInv ==
    /\ Names = DOMAIN game.values
    /\ \A a \in Names : prop[a] \in game.values[a] \/ Does("frees")
    /\ entity = "added" => \A s \in DOMAIN ServerSlots : IsOf(s, stamped[s])
    /\ entity # "added" => frames = <<>>
    /\ \A k \in DOMAIN frames :
          /\ frames[k].base < k
          /\ \A s \in DOMAIN ServerSlots : IsOf(s, frames[k].is[s])

ChainInv ==
    \A k \in DOMAIN frames :
       /\ \A j \in 1 .. k : frames[j].chain <= frames[k].chain
       /\ frames[k].base # 0 => frames[frames[k].base].chain + 1 <= frames[k].chain
       /\ frames[k].chain <= IF acked = 0 THEN 0 ELSE frames[acked].chain + 1

HasAll(is, fr) ==
    /\ DOMAIN is = DOMAIN ServerSlots
    /\ \A s \in DOMAIN ServerSlots : Has(ServerCoding[s], fr.is[s], is[s], fr.chain)

HeldInv == ~CodingsDiffer => \A k \in DOMAIN held : HasAll(held[k], frames[k])

ShownInv == ~CodingsDiffer /\ Latest # 0 =>
    \A s \in DOMAIN ServerSlots, i \in DOMAIN ClientSlots :
        ServerSlots[s].at = ClientSlots[i].at /\ ServerSlots[s].at \in Names \ written
          => Has(ServerCoding[s], frames[Latest].is[s], shown[ServerSlots[s].at],
                 frames[Latest].chain)

StreamInv ==
    /\ TypeOK /\ FramesOK /\ NothingTaken /\ MarkedIsRead
    /\ ReadInv /\ ChainInv /\ HeldInv /\ ShownInv

(***************************************************************************)
(* The games stay as they are, and with them what follows from the scenes. *)
(***************************************************************************)
LEMMA SceneStays ==
    ASSUME [Next]_vars
    PROVE  /\ game' = game /\ Names' = Names
           /\ ServerSlots' = ServerSlots /\ ClientSlots' = ClientSlots
           /\ ServerCoding' = ServerCoding
           /\ Values' = Values /\ Stamps' = Stamps
           /\ CodingsDiffer' = CodingsDiffer
PROOF
  <1>1. game' = game
    BY DEF Next, vars, Change, FreeTarget, Enter, Exit, MarkSync, MarkNode, Poll, Tick,
           SendSnapshots, SetRate, SetInterval, SetManual, AckArrives, ClientEnters, Receive, Predict
  <1>2. DOMAIN prop' = DOMAIN prop
    <2>1. ASSUME NEW a \in Names, NEW v \in game.values[a], Change(a, v) PROVE DOMAIN prop' = DOMAIN prop
      BY <2>1 DEF Change
    <2>2. ASSUME FreeTarget PROVE DOMAIN prop' = DOMAIN prop
      BY <2>2 DEF FreeTarget, Names
    <2>3. CASE prop' = prop
      BY <2>3
    <2> QED BY <2>1, <2>2, <2>3
         DEF Next, vars, Enter, Exit, MarkSync, MarkNode, Poll, Tick,
             SendSnapshots, SetRate, SetInterval, SetManual, AckArrives, ClientEnters, Receive, Predict
  <1>3. Names' = Names
    BY <1>2 DEF Names
  <1>4. Values' = Values
    BY <1>1, <1>3 DEF Values
  <1> QED BY <1>1, <1>3, <1>4 DEF ServerSlots, ClientSlots, ServerCoding, Stamps, CodingsDiffer

(***************************************************************************)
(* Who was marked is read by the next tick.                                *)
(***************************************************************************)
LEMMA MarkedStep == TypeOK /\ MarkedIsRead /\ [Next]_vars => MarkedIsRead'
PROOF
  <1> SUFFICES ASSUME TypeOK, MarkedIsRead, [Next]_vars PROVE MarkedIsRead'
    OBVIOUS
  <1>1. game' = game /\ Names' = Names /\ ServerSlots' = ServerSlots
    BY SceneStays
  <1> DEFINE AllRead == \A s \in DOMAIN ServerSlots :
                           Pushed(game.server)[s] => stamped[s] = Property(s)
  <1>2. ASSUME NEW a, NEW v, Change(a, v) PROVE MarkedIsRead'
    BY <1>2 DEF Change, MarkedIsRead
  <1>3. ASSUME FreeTarget PROVE MarkedIsRead'
    BY <1>3 DEF FreeTarget, MarkedIsRead
  <1>4. ASSUME prop' = prop, stamped' = stamped PROVE AllRead' = AllRead
    BY <1>1, <1>4 DEF Property
  <1> HIDE DEF AllRead
  <1>5. MarkedIsRead = (entity = "added" /\ (told = "sync" \/ (told = "node" /\ route = Followed))
                          => dirty \/ AllRead)
    BY DEF MarkedIsRead, AllRead
  <1>6. MarkedIsRead' = (entity' = "added" /\ (told' = "sync" \/ (told' = "node" /\ route' = Followed))
                          => dirty' \/ AllRead')
    BY DEF MarkedIsRead, AllRead
  <1>7. entity \in {"none", "waiting", "added"} /\ (entity = "none" <=> Followed \notin owned)
        /\ dirty \in BOOLEAN
    BY DEF TypeOK
  <1>8. ASSUME NEW s \in Syncs, Enter(s) PROVE MarkedIsRead'
    BY <1>4, <1>5, <1>6, <1>8 DEF Enter, stream
  <1>9. ASSUME NEW s \in Syncs, Exit(s) PROVE MarkedIsRead'
    BY <1>4, <1>5, <1>6, <1>9 DEF Exit, stream
  <1>10. ASSUME MarkSync PROVE MarkedIsRead'
    BY <1>7, <1>10 DEF MarkSync, CoreMarks, MarkedIsRead
  <1>11. ASSUME MarkNode PROVE MarkedIsRead'
    BY <1>7, <1>11 DEF MarkNode, CoreMarks, MarkedIsRead
  <1>12. ASSUME Tick PROVE MarkedIsRead'
    <2>1. CASE entity = "none"
      BY <1>12, <2>1 DEF Tick, MarkedIsRead
    <2>2. CASE entity # "none"
      <3>1. stamped' = ReadSlots /\ prop' = prop /\ told' = told /\ route' = route
        BY <1>12, <2>2 DEF Tick
      <3>2. ASSUME NEW s \in DOMAIN ServerSlots PROVE Property(s)' = Property(s)
        BY <1>1, <3>1 DEF Property
      <3>3. CASE PolledOnly /\ (told = "sync" \/ (told = "node" /\ route = Followed))
        <4>1. AllRead
          BY <1>5, <3>3 DEF PolledOnly
        <4>2. ASSUME NEW s \in DOMAIN ServerSlots, Pushed(game.server)[s]
              PROVE  stamped'[s] = Property(s)
          BY <3>1, <4>1, <4>2 DEF ReadSlots, AllRead
        <4>3. AllRead'
          BY <1>1, <3>2, <4>2 DEF AllRead
        <4> QED BY <1>6, <4>3
      <3>4. CASE ~PolledOnly
        <4>1. ASSUME NEW s \in DOMAIN ServerSlots PROVE stamped'[s] = Property(s)
          BY <3>1, <3>4 DEF ReadSlots
        <4>2. AllRead'
          BY <1>1, <3>2, <4>1 DEF AllRead
        <4> QED BY <1>6, <4>2
      <3> QED BY <1>6, <3>1, <3>3, <3>4
    <2> QED BY <2>1, <2>2
  <1>13. CASE UNCHANGED <<prop, entity, dirty, route, stamped, told>>
    BY <1>4, <1>5, <1>6, <1>13
  <1> QED BY <1>2, <1>3, <1>8, <1>9, <1>10, <1>11, <1>12, <1>13
       DEF Next, vars, stream, Poll, SendSnapshots, SetRate, SetInterval, SetManual, AckArrives,
           ClientEnters, Receive, Predict

(***************************************************************************)
(* An entity coded otherwise is refused whole, and what is coded against   *)
(* one that was refused is passed over.                                    *)
(***************************************************************************)
LEMMA NothingTakenStep ==
    TypeOK /\ FramesOK /\ NothingTaken /\ [Next]_vars => NothingTaken'
PROOF
  <1> SUFFICES ASSUME TypeOK, FramesOK, NothingTaken, [Next]_vars, CodingsDiffer
               PROVE  /\ \A k \in DOMAIN held' : held'[k] = <<>>
                      /\ \A a \in Names \ written' : shown'[a] = Nil
    BY SceneStays DEF NothingTaken
  <1>1. /\ \A k \in DOMAIN held : held[k] = <<>>
        /\ \A a \in Names \ written : shown[a] = Nil
        /\ DOMAIN shown = Names
    BY DEF NothingTaken, FramesOK
  <1>2. ASSUME UNCHANGED <<shown, written>>, held' = held \/ held' = <<>>
        PROVE  /\ \A k \in DOMAIN held' : held'[k] = <<>>
               /\ \A a \in Names \ written' : shown'[a] = Nil
    BY <1>1, <1>2
  <1>3. ASSUME NEW k \in DOMAIN frames, Receive(k)
        PROVE  /\ \A j \in DOMAIN held' : held'[j] = <<>>
               /\ \A a \in Names \ written' : shown'[a] = Nil
    <2>1. coding' = MakeSlotCoding(game.client)
      BY <1>3 DEF Receive
    <2>2. Refused(k)
      <3>1. CASE Whole(k)
        BY <2>1, <3>1 DEF Refused, CodingsDiffer
      <3>2. CASE ~Whole(k)
        <4>1. frames[k].base \in DOMAIN held
          BY <3>2 DEF Whole, FramesOK
        <4> QED BY <1>1, <3>2, <4>1 DEF Refused
      <3> QED BY <3>1, <3>2
    <2>3. Takes(k, <<>>) /\ UNCHANGED <<shown, written>>
      BY <1>3, <2>2 DEF Receive
    <2> QED BY <1>1, <2>3 DEF Takes
  <1>4. ASSUME NEW b \in Names, NEW v, Predict(b, v)
        PROVE  /\ \A j \in DOMAIN held' : held'[j] = <<>>
               /\ \A a \in Names \ written' : shown'[a] = Nil
    <2>1. shown' = [shown EXCEPT ![b] = v] /\ written' = written \cup {b} /\ held' = held
      BY <1>4 DEF Predict
    <2> QED BY <1>1, <2>1
  <1>5. ASSUME NEW s \in Syncs, Exit(s)
        PROVE  UNCHANGED <<shown, written>> /\ (held' = held \/ held' = <<>>)
    BY <1>5 DEF Exit
  <1> QED BY <1>2, <1>3, <1>4, <1>5
       DEF Next, vars, client, Change, FreeTarget, Enter, MarkSync, MarkNode, Poll, Tick,
           SendSnapshots, SetRate, SetInterval, SetManual, AckArrives, ClientEnters

(***************************************************************************)
(* Codings that differ at a slot have checks that differ.                  *)
(***************************************************************************)
LEMMA NothingTakenIgnores == NothingTaken => OtherCodingIgnored
PROOF
  <1> DEFINE here == MakeSlotCoding(game.client)
             grids == {"float_grid", "vec3_grid"}
  <1> SUFFICES ASSUME NothingTaken, NEW s \in DOMAIN ServerCoding,
                      \/ ServerCoding[s].kind # here[s].kind
                      \/ ServerCoding[s].kind \in grids /\ ServerCoding[s].grid # here[s].grid
               PROVE  \A a \in Names \ written : shown[a] = Nil
    BY DEF OtherCodingIgnored
  <1>1. CodingsDiffer
    <2> SUFFICES ASSUME Check(ServerCoding) = Check(here) PROVE FALSE
      BY DEF CodingsDiffer
    <2> HIDE DEF here
    <2>1. s \in DOMAIN here
      BY DEF Check
    <2>2. Check(ServerCoding)[s] = Check(here)[s]
      OBVIOUS
    <2>3. /\ ServerCoding[s].kind = here[s].kind
          /\ ServerCoding[s].kind \in grids => ServerCoding[s].grid = here[s].grid
      BY <2>1, <2>2 DEF Check
    <2> QED BY <2>3
  <1> QED BY <1>1 DEF NothingTaken

(***************************************************************************)
(* Types, one group of variables at a time.                                *)
(***************************************************************************)
LEMMA HostTypes ==
    ASSUME TypeOK, [Next]_vars
    PROVE  /\ game' \in Games
           /\ \A a \in Names' : prop'[a] \in game'.values[a] \cup {Nil}
           /\ entity' \in {"none", "waiting", "added"}
           /\ dirty' \in BOOLEAN /\ inside' \in BOOLEAN
           /\ route' \in Syncs \cup {Unset, Nobody}
           /\ (entity' = "none" <=> Followed \notin owned')
           /\ told' \in {"no", "node", "sync"}
PROOF
  <1>1. game' = game /\ Names' = Names
    BY SceneStays
  <1>2. /\ game \in Games
        /\ \A a \in Names : prop[a] \in game.values[a] \cup {Nil}
        /\ entity \in {"none", "waiting", "added"}
        /\ dirty \in BOOLEAN /\ inside \in BOOLEAN
        /\ route \in Syncs \cup {Unset, Nobody}
        /\ (entity = "none" <=> Followed \notin owned)
        /\ told \in {"no", "node", "sync"}
        /\ owned \subseteq Syncs
    BY DEF TypeOK, ClockTypeOK
  <1>3. \A a \in Names : prop'[a] \in game.values[a] \cup {Nil}
    <2>1. ASSUME NEW b \in Names, NEW v \in game.values[b], Change(b, v),
                 NEW a \in Names
          PROVE  prop'[a] \in game.values[a] \cup {Nil}
      BY <1>2, <2>1 DEF Change, Names
    <2>2. ASSUME FreeTarget, NEW a \in Names PROVE prop'[a] \in game.values[a] \cup {Nil}
      BY <2>2 DEF FreeTarget
    <2>3. ASSUME prop' = prop, NEW a \in Names PROVE prop'[a] \in game.values[a] \cup {Nil}
      BY <1>2, <2>3
    <2> QED BY <2>1, <2>2, <2>3
         DEF Next, vars, Enter, Exit, MarkSync, MarkNode, Poll, Tick,
             SendSnapshots, SetRate, SetInterval, SetManual, AckArrives, ClientEnters, Receive, Predict
  <1>4. /\ entity' \in {"none", "waiting", "added"}
        /\ (entity' = "none" <=> Followed \notin owned')
    <2>1. ASSUME NEW s \in Syncs, Enter(s)
          PROVE  /\ entity' \in {"none", "waiting", "added"}
                 /\ (entity' = "none" <=> Followed \notin owned')
      BY <1>2, <2>1 DEF Enter, Registers, Refresh
    <2>2. ASSUME NEW s \in Syncs, Exit(s)
          PROVE  /\ entity' \in {"none", "waiting", "added"}
                 /\ (entity' = "none" <=> Followed \notin owned')
      BY <1>2, <2>2 DEF Exit, Unregisters, Refresh
    <2>3. ASSUME Tick, owned' = owned
          PROVE  /\ entity' \in {"none", "waiting", "added"}
                 /\ (entity' = "none" <=> Followed \notin owned')
      BY <1>2, <2>3 DEF Tick
    <2>4. CASE entity' = entity /\ owned' = owned
      BY <1>2, <2>4
    <2>5. ASSUME NEW gap \in 0 .. MaxGap, Poll(gap)
          PROVE  /\ entity' \in {"none", "waiting", "added"}
                 /\ (entity' = "none" <=> Followed \notin owned')
      BY <2>3, <2>4, <2>5 DEF Poll, PollTimer
    <2>6. ASSUME SendSnapshots
          PROVE  /\ entity' \in {"none", "waiting", "added"}
                 /\ (entity' = "none" <=> Followed \notin owned')
      BY <2>3, <2>6 DEF SendSnapshots, clock
    <2> QED BY <2>1, <2>2, <2>4, <2>5, <2>6
         DEF Next, vars, clock, Change, FreeTarget, MarkSync, MarkNode, SetRate, SetInterval, SetManual,
             SetSnapshotRate, SetManualSend, SetReplicationInterval, Refresh, AckArrives,
             ClientEnters, Receive, Predict
  <1>5. dirty' \in BOOLEAN
    BY <1>2 DEF Next, vars, Change, FreeTarget, Enter, Exit, MarkSync, MarkNode, CoreMarks,
                Poll, Tick, SendSnapshots, SetRate, SetInterval, SetManual, AckArrives, ClientEnters,
                Receive, Predict
  <1>6. inside' \in BOOLEAN
    BY <1>2 DEF Next, vars, client, Change, FreeTarget, Enter, Exit, MarkSync, MarkNode,
                Poll, Tick, SendSnapshots, SetRate, SetInterval, SetManual, AckArrives, ClientEnters,
                Receive, Predict
  <1>7. route' \in Syncs \cup {Unset, Nobody}
    <2>1. Scan \in Syncs \cup {Unset, Nobody}
      <3>1. CASE owned # {} /\ Followed \notin owned
        <4>1. (CHOOSE s \in owned : TRUE) \in owned
          BY <3>1
        <4> QED BY <1>2, <3>1, <4>1 DEF Scan
      <3> QED BY <1>2, <3>1 DEF Scan
    <2>2. ASSUME MarkNode PROVE route' \in Syncs \cup {Unset, Nobody}
      BY <1>2, <2>1, <2>2 DEF MarkNode
    <2>3. CASE route' = route
      BY <1>2, <2>3
    <2> QED BY <2>2, <2>3
         DEF Next, vars, Change, FreeTarget, Enter, Exit, MarkSync,
             Poll, Tick, SendSnapshots, SetRate, SetInterval, SetManual, AckArrives, ClientEnters,
             Receive, Predict
  <1>8. told' \in {"no", "node", "sync"}
    BY <1>2 DEF Next, vars, Change, FreeTarget, Enter, Exit, MarkSync, MarkNode,
                Poll, Tick, SendSnapshots, SetRate, SetInterval, SetManual, AckArrives, ClientEnters,
                Receive, Predict
  <1> QED BY <1>1, <1>2, <1>3, <1>4, <1>5, <1>6, <1>7, <1>8

\* The client's.
LEMMA ClientTypes ==
    ASSUME TypeOK, DOMAIN shown = Names, [Next]_vars
    PROVE  /\ coding' \in {NoCoding, MakeSlotCoding(game'.client)}
           /\ written' \subseteq Names'
           /\ DOMAIN shown' = Names'
PROOF
  <1>1. game' = game /\ Names' = Names
    BY SceneStays
  <1>2. coding \in {NoCoding, MakeSlotCoding(game.client)} /\ written \subseteq Names
    BY DEF TypeOK
  <1>3. ASSUME NEW k, Receive(k)
        PROVE  /\ coding' \in {NoCoding, MakeSlotCoding(game.client)}
               /\ written' \subseteq Names /\ DOMAIN shown' = Names
    <2>1. coding' = MakeSlotCoding(game.client)
      BY <1>3 DEF Receive
    <2>2. CASE Refused(k)
      BY <1>2, <1>3, <2>1, <2>2 DEF Receive
    <2>3. CASE ~Refused(k)
      <3> DEFINE set == {SlotPlan(game.client)[s] : s \in Changed(k)} \ {Hole}
      <3>1. written' = written \ set
        BY <1>3, <2>3 DEF Receive
      <3>2. DOMAIN shown' = Names
        BY <1>3, <2>3 DEF Receive
      <3> QED BY <1>2, <2>1, <3>1, <3>2
    <2> QED BY <2>2, <2>3
  <1>4. ASSUME NEW a \in Names, NEW v, Predict(a, v)
        PROVE  coding' = coding /\ written' \subseteq Names /\ DOMAIN shown' = Names
    BY <1>2, <1>4 DEF Predict
  <1>5. CASE UNCHANGED <<coding, written, shown>>
    BY <1>1, <1>2, <1>5
  <1> QED BY <1>1, <1>2, <1>3, <1>4, <1>5
       DEF Next, vars, client, Change, FreeTarget, Enter, Exit, MarkSync, MarkNode,
           Poll, Tick, SendSnapshots, SetRate, SetInterval, SetManual, AckArrives, ClientEnters

(***************************************************************************)
(* What a tick reads are values of the properties.                         *)
(***************************************************************************)
LEMMA ReadTypes ==
    ASSUME TypeOK, FramesOK
    PROVE  ReadSlots \in Stamps
PROOF
  <1>1. ASSUME NEW s \in DOMAIN ServerSlots PROVE Property(s) \in Values
    <2> DEFINE a == SlotPlan(game.server)[s]
    <2>1. Property(s) = IF a \in Names THEN prop[a] ELSE Nil
      BY DEF Property
    <2> HIDE DEF a
    <2>2. a \in Names => prop[a] \in game.values[a] \cup {Nil}
      BY DEF TypeOK
    <2> QED BY <2>1, <2>2 DEF Values
  <1>2. ASSUME NEW s \in DOMAIN ServerSlots PROVE stamped[s] \in Values
    BY DEF FramesOK, Stamps
  <1> QED BY <1>1, <1>2 DEF ReadSlots, Stamps

(***************************************************************************)
(* What is sent and taken.                                                 *)
(***************************************************************************)
StreamOK(st, fr, ak, h) ==
    /\ st \in Stamps
    /\ fr \in Seq(SentOnes) /\ Len(fr) <= game.frames
    /\ ak \in 0 .. Len(fr)
    /\ DOMAIN h \subseteq DOMAIN fr
    /\ ak # 0 => ak \in DOMAIN h
    /\ \A k \in DOMAIN fr : fr[k].base # 0 => fr[k].base \in DOMAIN h

\* What is sent, acknowledged and taken goes on to fit.
LEMMA StreamStep ==
    ASSUME TypeOK, FramesOK, [Next]_vars
    PROVE  StreamOK(stamped', frames', acked', held')
PROOF
  <1>1. StreamOK(stamped, frames, acked, held)
    <2>1. DOMAIN stamped = DOMAIN ServerSlots /\ stamped \in Stamps
      BY DEF TypeOK, FramesOK
    <2> QED BY <2>1 DEF TypeOK, FramesOK, StreamOK
  <1>2. game.frames \in Nat
    BY GamesAssumption DEF TypeOK
  <1>3. StreamOK([s \in DOMAIN ServerSlots |-> Nil], <<>>, 0, <<>>)
    <2>1. [s \in DOMAIN ServerSlots |-> Nil] \in Stamps
      BY DEF Stamps, Values
    <2>2. <<>> \in Seq(SentOnes) /\ Len(<<>>) = 0 /\ DOMAIN <<>> = {}
      OBVIOUS
    <2> QED BY <1>2, <2>1, <2>2 DEF StreamOK
  <1>4. ASSUME NEW s \in Syncs, Exit(s) PROVE StreamOK(stamped', frames', acked', held')
    BY <1>1, <1>3, <1>4 DEF Exit, NewStream, stream
  <1>5. ASSUME Tick PROVE StreamOK(stamped', frames', acked', held')
    <2>1. CASE UNCHANGED <<stamped, frames, acked, held>>
      BY <1>1, <2>1
    <2>2. CASE stamped' = ReadSlots /\ UNCHANGED <<frames, acked, held>>
      BY <1>1, <2>2, ReadTypes DEF StreamOK
    <2>3. CASE /\ stamped' = ReadSlots /\ UNCHANGED <<acked, held>>
               /\ Len(frames) < game.frames
               /\ frames' = Append(frames, Snapshot)
      <3> DEFINE new == Snapshot
      <3>1. /\ frames \in Seq(SentOnes) /\ Len(frames) \in Nat
            /\ acked \in Nat /\ acked <= Len(frames)
        BY <1>1 DEF StreamOK
      <3>2. new \in SentOnes
        <4>1. acked # 0 => frames[acked] \in SentOnes
          BY <3>1
        <4>2. stamped' \in Stamps
          BY <2>3, ReadTypes
        <4> QED BY <3>1, <4>1, <4>2 DEF Snapshot, SentOnes
      <3>7. new.base = acked
        BY DEF Snapshot
      <3> HIDE DEF new
      <3>3. /\ frames' \in Seq(SentOnes) /\ Len(frames') = Len(frames) + 1
            /\ DOMAIN frames' = 1 .. Len(frames) + 1
            /\ DOMAIN frames = 1 .. Len(frames)
            /\ frames'[Len(frames) + 1] = new
            /\ \A k \in 1 .. Len(frames) : frames'[k] = frames[k]
        BY <2>3, <3>1, <3>2 DEF new
      <3>4. \A k \in DOMAIN frames' : frames'[k].base # 0 => frames'[k].base \in DOMAIN held'
        <4> SUFFICES ASSUME NEW k \in DOMAIN frames', frames'[k].base # 0
                     PROVE  frames'[k].base \in DOMAIN held
          BY <2>3
        <4>1. CASE k = Len(frames) + 1
          BY <1>1, <3>3, <3>7, <4>1 DEF StreamOK
        <4>2. CASE k # Len(frames) + 1
          <5>1. k \in 1 .. Len(frames)
            BY <3>1, <3>3, <4>2
          <5> QED BY <1>1, <3>3, <5>1 DEF StreamOK
        <4> QED BY <4>1, <4>2
      <3>5. acked' \in 0 .. Len(frames') /\ DOMAIN held' \subseteq DOMAIN frames'
            /\ Len(frames') <= game.frames
        BY <1>1, <1>2, <2>3, <3>1, <3>3 DEF StreamOK
      <3>6. stamped' \in Stamps /\ (acked' # 0 => acked' \in DOMAIN held')
        BY <1>1, <2>3, ReadTypes DEF StreamOK
      <3> QED BY <3>3, <3>4, <3>5, <3>6 DEF StreamOK
    <2> QED BY <1>5, <2>1, <2>2, <2>3 DEF Tick, stream, client
  <1>6. ASSUME NEW k \in DOMAIN held, AckArrives(k)
        PROVE  StreamOK(stamped', frames', acked', held')
    <2>1. k \in DOMAIN frames /\ DOMAIN frames = 1 .. Len(frames) /\ Len(frames) \in Nat
      BY <1>1 DEF StreamOK
    <2>2. UNCHANGED <<stamped, frames, held>> /\ acked' = k
      BY <1>6 DEF AckArrives, client
    <2>3. acked' \in 0 .. Len(frames)
      BY <2>1, <2>2
    <2> QED BY <1>1, <2>2, <2>3 DEF StreamOK
  <1>7. ASSUME NEW k \in DOMAIN frames, Receive(k)
        PROVE  StreamOK(stamped', frames', acked', held')
    <2>1. UNCHANGED <<stamped, frames, acked>> /\ DOMAIN held' = DOMAIN held \cup {k}
      <3>1. \E is : Takes(k, is)
        BY <1>7 DEF Receive
      <3> QED BY <1>7, <3>1 DEF Receive, Takes, stream
    <2> QED BY <1>1, <2>1 DEF StreamOK
  <1>8. CASE UNCHANGED <<stamped, frames, acked, held>>
    BY <1>1, <1>8
  <1> QED BY <1>4, <1>5, <1>6, <1>7, <1>8
       DEF Next, vars, stream, client, Change, FreeTarget, Enter, MarkSync, MarkNode,
           Poll, SendSnapshots, SetRate, SetInterval, SetManual, ClientEnters, Predict

-----------------------------------------------------------------------------
\* From what is read to what is shown.

(***************************************************************************)
(* What the scenes give: values fit, a grid is one, and a property is at   *)
(* one place.                                                              *)
(***************************************************************************)
LEMMA SceneFacts ==
    ASSUME TypeOK, ReadInv
    PROVE  /\ \A v \in Values : InWidth(v) /\ v # NoBase
           /\ DOMAIN ServerCoding = DOMAIN ServerSlots
           /\ \A s \in DOMAIN ServerSlots : IsCoding(ServerCoding[s])
           /\ Hole \notin Names
           /\ \A s \in DOMAIN ServerSlots, i \in DOMAIN ClientSlots :
                ServerSlots[s].at = ClientSlots[i].at /\ ServerSlots[s].at # Hole => s = i
           /\ \A i, j \in DOMAIN ClientSlots :
                ClientSlots[i].at = ClientSlots[j].at /\ ClientSlots[i].at # Hole => i = j
PROOF
  <1>1. game \in Games
    BY DEF TypeOK
  <1>2. /\ Hole \notin DOMAIN game.values
        /\ \A a \in DOMAIN game.values : \A v \in game.values[a] : InWidth(v)
        /\ \A p, q \in {ServerSlots, ClientSlots} : \A s \in DOMAIN p :
              /\ p[s].grid \in Int
              /\ \A i \in DOMAIN q : p[s].at = q[i].at /\ p[s].at # Hole => s = i
    BY <1>1, GamesAssumption DEF ServerSlots, ClientSlots
  <1>3. InWidth(Nil)
    <2>1. IntRange \in Nat \ {0} /\ IntRange % 2 = 0
      BY WidthsAssumption
    <2>2. 0 < IntRange \div 2 /\ -(IntRange \div 2) <= 0
      BY <2>1
    <2>3. Nil.type = "nil" /\ AsInt(Nil) = 0 /\ AsFloat(Nil) = 0 /\ AsVec3(Nil) \in [Axes -> Int]
      BY DEF Nil, AsInt, AsFloat, AsVec3, Zero
    <2> QED BY <2>2, <2>3 DEF InWidth
  <1>4. \A v \in Values : InWidth(v)
    BY <1>2, <1>3 DEF Values, ReadInv
  <1>5. \A v : InWidth(v) => v # NoBase
    BY DEF InWidth, NoBase
  <1>6. DOMAIN ServerCoding = DOMAIN ServerSlots
    BY DEF ServerCoding, ServerSlots, MakeSlotCoding
  <1>7. ASSUME NEW s \in DOMAIN ServerSlots PROVE IsCoding(ServerCoding[s])
    <2> DEFINE e == ServerSlots[s]
    <2>1. /\ ServerCoding[s].kind = Kind(e) /\ ServerCoding[s].grid = e.grid
          /\ e.grid \in Int
      BY <1>2 DEF ServerCoding, ServerSlots, MakeSlotCoding
    <2> HIDE DEF e
    <2>2. Kind(e) \in {"float_grid", "vec3_grid"} => e.grid > 0
      <3>1. QuantFromName(e.hint) \notin {"float_grid", "vec3_grid"}
        BY DEF QuantFromName, Hints
      <3> QED BY <3>1 DEF Kind, FloatKind, Vec3Kind
    <2> QED BY <2>1, <2>2 DEF IsCoding
  <1>8. Hole \notin Names
    BY <1>2 DEF ReadInv
  <1>9. /\ \A s \in DOMAIN ServerSlots, i \in DOMAIN ClientSlots :
             ServerSlots[s].at = ClientSlots[i].at /\ ServerSlots[s].at # Hole => s = i
        /\ \A i, j \in DOMAIN ClientSlots :
             ClientSlots[i].at = ClientSlots[j].at /\ ClientSlots[i].at # Hole => i = j
    <2> DEFINE One_(p, q) == \A s \in DOMAIN p : \A i \in DOMAIN q :
                              p[s].at = q[i].at /\ p[s].at # Hole => s = i
    <2>1. One_(ServerSlots, ClientSlots)
      BY <1>2
    <2>2. One_(ClientSlots, ClientSlots)
      BY <1>2
    <2> QED BY ONLY <2>1, <2>2
  <1> QED BY <1>4, <1>5, <1>6, <1>7, <1>8, <1>9

(***************************************************************************)
(* The greatest of some numbers.                                           *)
(***************************************************************************)
LEMMA LatestFacts ==
    ASSUME NEW n \in Nat, NEW S \in SUBSET (1 .. n), S # {}
    PROVE  Max(S) \in S /\ \A k \in S : k <= Max(S)
PROOF
  <1> DEFINE R == {n - k : k \in S}
  <1>1. R \subseteq Nat /\ R # {}
    <2>1. \A k \in S : k \in Nat /\ k <= n /\ n - k \in Nat
      OBVIOUS
    <2>2. PICK k \in S : TRUE
      OBVIOUS
    <2>3. n - k \in R
      OBVIOUS
    <2> QED BY <2>1, <2>3
  <1> HIDE DEF R
  <1>2. PICK r \in R : \A m \in R : r <= m
    BY <1>1, LeastExists
  <1>3. PICK k \in S : r = n - k
    BY <1>2 DEF R
  <1>4. \A j \in S : k >= j
    <2> SUFFICES ASSUME NEW j \in S PROVE k >= j
      OBVIOUS
    <2>1. n - j \in R
      BY DEF R
    <2>2. n - k <= n - j
      BY <1>2, <1>3, <2>1
    <2>3. j \in 1 .. n /\ k \in 1 .. n
      OBVIOUS
    <2> QED BY <2>2, <2>3
  <1>5. Max(S) \in S /\ \A j \in S : Max(S) >= j
    BY <1>4 DEF Max
  <1> QED BY <1>5

(***************************************************************************)
(* The greatest is the one all others are below.                           *)
(***************************************************************************)
LEMMA LatestSame ==
    ASSUME NEW n \in Nat, NEW S \in SUBSET (1 .. n), NEW k \in S, \A j \in S : j <= k
    PROVE  Max(S) = k
PROOF
  <1>1. Max(S) \in S /\ k <= Max(S)
    BY LatestFacts
  <1>2. PICK m \in S : m = Max(S) /\ k <= m
    BY <1>1
  <1>3. m <= k /\ m \in Int /\ k \in Int
    OBVIOUS
  <1> QED BY <1>2, <1>3

(***************************************************************************)
(* The client's last snapshot is the newest it has.                        *)
(***************************************************************************)
LEMMA LatestIs ==
    ASSUME TypeOK, FramesOK
    PROVE  /\ Latest \in Nat /\ \A k \in DOMAIN held : k <= Latest
           /\ Latest # 0 <=> DOMAIN held # {}
           /\ Latest # 0 => Latest \in DOMAIN held
           /\ DOMAIN held \subseteq DOMAIN frames /\ DOMAIN frames = 1 .. Len(frames)
           /\ Len(frames) \in Nat
PROOF
  <1>1. DOMAIN held \subseteq DOMAIN frames /\ Len(frames) \in Nat /\ DOMAIN frames = 1 .. Len(frames)
    BY DEF TypeOK, FramesOK
  <1> DEFINE n == Len(frames)
             S == DOMAIN held
  <1>2. n \in Nat /\ S \in SUBSET (1 .. n)
    BY <1>1
  <1>3. CASE S = {}
    BY <1>1, <1>3 DEF Latest
  <1>4. CASE S # {}
    <2>1. Latest = Max(S)
      BY <1>4 DEF Latest
    <2> HIDE DEF n, S
    <2>2. Max(S) \in S /\ \A k \in S : k <= Max(S)
      BY <1>2, <1>4, LatestFacts
    <2>3. Max(S) \in 1 .. n
      BY <1>2, <2>2
    <2>4. Max(S) \in Nat /\ Max(S) # 0
      BY <1>2, <2>3
    <2> QED BY <1>1, <1>4, <2>1, <2>2, <2>4 DEF S
  <1> QED BY <1>3, <1>4

(***************************************************************************)
(* What a tick has of a slot is a value of its property.                   *)
(***************************************************************************)
LEMMA ReadIs ==
    ASSUME TypeOK, ReadInv, entity # "none", NEW s \in DOMAIN ServerSlots
    PROVE  IsOf(s, ReadSlots[s])
PROOF
  <1>1. ReadSlots[s] = IF PolledOnly /\ Pushed(game.server)[s] THEN stamped[s] ELSE Property(s)
    BY DEF ReadSlots
  <1>2. PolledOnly => IsOf(s, stamped[s])
    BY DEF PolledOnly, ReadInv
  <1>3. IsOf(s, Property(s))
    <2>1. SlotPlan(game.server)[s] = ServerSlots[s].at
      BY DEF SlotPlan, ServerSlots
    <2>2. Property(s) = IF ServerSlots[s].at \in Names THEN prop[ServerSlots[s].at] ELSE Nil
      BY <2>1 DEF Property
    <2> QED BY <2>2 DEF IsOf, ReadInv
  <1> QED BY <1>1, <1>2, <1>3

(***************************************************************************)
(* A snapshot more leaves the others.                                      *)
(***************************************************************************)
LEMMA FrameAdded ==
    ASSUME TypeOK, FramesOK, NEW new, frames' = Append(frames, new)
    PROVE  /\ Len(frames) \in Nat /\ DOMAIN frames = 1 .. Len(frames)
           /\ DOMAIN frames' = 1 .. Len(frames) + 1
           /\ frames'[Len(frames) + 1] = new
           /\ \A k \in DOMAIN frames : frames'[k] = frames[k]
PROOF
  <1> DEFINE n == Len(frames)
  <1>1. PICK S : frames \in Seq(S)
    BY DEF FramesOK
  <1>2. frames \in Seq(S \cup {new}) /\ new \in S \cup {new}
    BY <1>1
  <1> QED BY <1>2

(***************************************************************************)
(* What is read and sent are values of the slots' properties, and a        *)
(* baseline is older than the snapshot.                                    *)
(***************************************************************************)
LEMMA ReadStep ==
    ASSUME TypeOK, FramesOK, ReadInv, [Next]_vars
    PROVE  ReadInv'
PROOF
  <1>1. game' = game /\ Names' = Names /\ ServerSlots' = ServerSlots
    BY SceneStays
  <1>2. \A s, v : IsOf(s, v)' = IsOf(s, v)
    BY <1>1 DEF IsOf, Does
  <1>3. Names' = DOMAIN game'.values
    BY <1>1 DEF ReadInv
  <1>4. ASSUME NEW a \in Names PROVE prop'[a] \in game.values[a] \/ Does("frees")
    <2>1. ASSUME NEW b \in Names, NEW v \in game.values[b], Change(b, v)
          PROVE  prop'[a] \in game.values[a] \/ Does("frees")
      <3>1. prop' = [prop EXCEPT ![b] = v] /\ a \in DOMAIN prop
        BY <2>1 DEF Change, Names
      <3> QED BY <3>1 DEF ReadInv
    <2>2. ASSUME FreeTarget PROVE Does("frees")
      BY <2>2 DEF FreeTarget
    <2>3. CASE prop' = prop
      BY <2>3 DEF ReadInv
    <2> QED BY <2>1, <2>2, <2>3
         DEF Next, vars, Enter, Exit, MarkSync, MarkNode, Poll, Tick,
             SendSnapshots, SetRate, SetInterval, SetManual, AckArrives, ClientEnters, Receive, Predict
  <1> DEFINE Rest == /\ entity' = "added" => \A s \in DOMAIN ServerSlots : IsOf(s, stamped'[s])
                     /\ entity' # "added" => frames' = <<>>
                     /\ \A k \in DOMAIN frames' :
                           /\ frames'[k].base < k
                           /\ \A s \in DOMAIN ServerSlots : IsOf(s, frames'[k].is[s])
  <1>5. Rest
    <2>1. CASE UNCHANGED <<entity, stamped, frames>>
      BY <2>1 DEF ReadInv
    <2>2. ASSUME NEW s \in Syncs, Enter(s) PROVE Rest
      <3>1. entity = "none" <=> Followed \notin owned
        BY DEF TypeOK
      <3>2. entity' = IF s = Followed THEN "waiting" ELSE entity
        BY <2>2 DEF Enter
      <3>3. s \notin owned /\ UNCHANGED <<stamped, frames>>
        BY <2>2 DEF Enter, stream
      <3>4. CASE s = Followed
        BY <3>1, <3>2, <3>3, <3>4 DEF ReadInv
      <3>5. CASE s # Followed
        BY <2>1, <3>2, <3>3, <3>5
      <3> QED BY <3>4, <3>5
    <2>3. ASSUME NEW s \in Syncs, Exit(s) PROVE Rest
      <3>1. CASE s = Followed
        <4>1. entity' = "none" /\ frames' = <<>>
          BY <2>3, <3>1 DEF Exit, NewStream
        <4> QED BY <4>1
      <3>2. CASE s # Followed
        BY <2>1, <2>3, <3>2 DEF Exit, stream
      <3> QED BY <3>1, <3>2
    <2>4. ASSUME Tick PROVE Rest
      <3>1. CASE entity = "none"
        BY <2>1, <2>4, <3>1 DEF Tick, stream
      <3>2. CASE entity # "none"
        <4>1. /\ entity' = "added" /\ stamped' = ReadSlots
              /\ frames' = frames \/ frames' = Append(frames, Snapshot)
          BY <2>4, <3>2 DEF Tick
        <4>2. \A s \in DOMAIN ServerSlots : IsOf(s, stamped'[s])
          BY <3>2, <4>1, ReadIs
        <4>3. CASE frames' = frames
          BY <4>1, <4>2, <4>3 DEF ReadInv
        <4>4. CASE frames' = Append(frames, Snapshot)
          <5> DEFINE new == Snapshot
                     n == Len(frames)
          <5>1. /\ n \in Nat /\ DOMAIN frames = 1 .. n
                /\ DOMAIN frames' = 1 .. n + 1
                /\ frames'[n + 1] = new
                /\ \A k \in DOMAIN frames : frames'[k] = frames[k]
            BY <4>4, FrameAdded
          <5>2. acked \in 0 .. n
            BY DEF TypeOK
          <5>3. ASSUME NEW k \in DOMAIN frames'
                PROVE  /\ frames'[k].base < k
                       /\ \A s \in DOMAIN ServerSlots : IsOf(s, frames'[k].is[s])
            <6>1. CASE k = n + 1
              <7>1. frames'[k].base = acked /\ frames'[k].is = stamped' /\ acked < k
                BY <5>1, <5>2, <6>1 DEF Snapshot
              <7> QED BY <4>2, <7>1
            <6>2. CASE k # n + 1
              <7>1. k \in DOMAIN frames
                BY <5>1, <6>2
              <7> QED BY <5>1, <7>1 DEF ReadInv
            <6> QED BY <6>1, <6>2
          <5> QED BY <4>1, <4>2, <5>3
        <4> QED BY <4>1, <4>3, <4>4
      <3> QED BY <3>1, <3>2
    <2> QED BY <2>1, <2>2, <2>3, <2>4
         DEF Next, vars, stream, Change, FreeTarget, MarkSync, MarkNode, Poll,
             SendSnapshots, SetRate, SetInterval, SetManual, AckArrives, ClientEnters, Receive, Predict
  <1>6. entity' = "added" => \A s \in DOMAIN ServerSlots' : IsOf(s, stamped[s])'
    BY <1>1, <1>5 DEF IsOf, Does
  <1>7. \A k \in DOMAIN frames' :
           /\ frames'[k].base < k
           /\ \A s \in DOMAIN ServerSlots' : IsOf(s, frames[k].is[s])'
    BY <1>1, <1>5 DEF IsOf, Does
  <1>8. \A a \in Names' : prop'[a] \in game'.values[a] \/ Does("frees")'
    BY <1>1, <1>4 DEF Does
  <1>9. entity' # "added" => frames' = <<>>
    BY <1>5
  <1> QED BY <1>3, <1>6, <1>7, <1>8, <1>9 DEF ReadInv

(***************************************************************************)
(* What a snapshot has: values, and a baseline the client took before.     *)
(***************************************************************************)
LEMMA SentFacts ==
    ASSUME TypeOK, FramesOK, ReadInv, NEW k \in DOMAIN frames
    PROVE  /\ \A s \in DOMAIN ServerSlots : frames[k].is[s] \in Values
           /\ frames[k].base \in Nat /\ frames[k].base < k /\ k \in Nat
           /\ frames[k].chain \in Nat
           /\ frames[k].base # 0 => frames[k].base \in DOMAIN held
           /\ \A j \in DOMAIN held : j \in DOMAIN frames
PROOF
  <1>0. frames \in Seq(SentOnes)
    BY DEF FramesOK
  <1>1. frames[k] \in SentOnes /\ k \in Nat
    BY <1>0
  <1>2. \A j \in DOMAIN held : j \in DOMAIN frames
    BY DEF TypeOK
  <1>3. frames[k].is \in Stamps /\ frames[k].base \in Nat /\ frames[k].chain \in Nat
    BY <1>1 DEF SentOnes
  <1>4. \A s \in DOMAIN ServerSlots : frames[k].is[s] \in Values
    BY <1>3 DEF Stamps
  <1>5. /\ frames[k].base < k
        /\ frames[k].base # 0 => frames[k].base \in DOMAIN held
    BY DEF FramesOK, ReadInv
  <1> QED BY <1>1, <1>2, <1>3, <1>4, <1>5

(***************************************************************************)
(* Chains do not get shorter: a snapshot is coded against the newest one   *)
(* acknowledged, and its chain is one longer than that.                    *)
(***************************************************************************)
LEMMA ChainStep ==
    ASSUME TypeOK, FramesOK, ReadInv, ChainInv, [Next]_vars
    PROVE  ChainInv'
PROOF
  <1>1. /\ DOMAIN frames = 1 .. Len(frames) /\ Len(frames) \in Nat
        /\ \A k \in DOMAIN frames : frames[k].chain \in Nat
    BY SentFacts DEF FramesOK
  <1>2. acked \in 0 .. Len(frames)
    BY DEF TypeOK
  <1>3. CASE UNCHANGED <<frames, acked>>
    BY <1>3 DEF ChainInv
  <1>4. ASSUME Tick PROVE ChainInv'
    <2>1. CASE frames' = Append(frames, Snapshot) /\ acked' = acked
      <3> DEFINE n == Len(frames)
                 top == IF acked = 0 THEN 0 ELSE frames[acked].chain + 1
      <3>1. /\ DOMAIN frames' = 1 .. n + 1 /\ frames'[n + 1] = Snapshot
            /\ \A k \in 1 .. n : frames'[k] = frames[k]
        BY <1>1, <2>1, FrameAdded
      <3>2. Snapshot.chain = top /\ Snapshot.base = acked /\ top \in Nat
        BY <1>1, <1>2 DEF Snapshot
      <3>3. \A k \in 1 .. n : frames[k].chain <= top
        BY <1>1 DEF ChainInv
      <3>4. (IF acked' = 0 THEN 0 ELSE frames'[acked'].chain + 1) = top
        BY <1>1, <1>2, <2>1, <3>1
      <3> HIDE DEF top, n
      <3>5. ASSUME NEW k \in 1 .. n + 1
            PROVE  /\ \A j \in 1 .. k : frames'[j].chain <= frames'[k].chain
                   /\ frames'[k].base # 0
                        => frames'[frames'[k].base].chain + 1 <= frames'[k].chain
                   /\ frames'[k].chain <= top
        <4>1. CASE k = n + 1
          <5>1. \A j \in 1 .. k : j # n + 1 => j \in 1 .. n
            BY <1>1, <4>1 DEF n
          <5>2. \A j \in 1 .. k : frames'[j].chain <= top
            BY <3>1, <3>2, <3>3, <5>1
          <5>3. frames'[k].chain = top /\ frames'[k].base = acked
            BY <3>1, <3>2, <4>1
          <5>4. acked # 0 => frames'[acked].chain + 1 = top
            BY <1>1, <1>2, <3>1 DEF top, n
          <5> QED BY <3>2, <5>2, <5>3, <5>4
        <4>2. CASE k # n + 1
          <5>1. k \in 1 .. n /\ k \in DOMAIN frames /\ \A j \in 1 .. k : j \in 1 .. n
            BY <1>1, <4>2 DEF n
          <5>2. frames[k].base # 0 => frames[k].base \in 1 .. n
            <6>1. frames[k].base \in Nat /\ frames[k].base < k
              BY <5>1, SentFacts
            <6> QED BY <1>1, <5>1, <6>1 DEF n
          <5> QED BY <3>1, <3>3, <5>1, <5>2 DEF ChainInv
        <4> QED BY <4>1, <4>2
      <3> QED BY <3>1, <3>4, <3>5 DEF ChainInv
    <2> QED BY <1>3, <1>4, <2>1 DEF Tick, stream
  <1>5. ASSUME NEW s \in Syncs, Exit(s) PROVE ChainInv'
    <2>1. CASE frames' = <<>>
      BY <2>1 DEF ChainInv
    <2> QED BY <1>3, <1>5, <2>1 DEF Exit, NewStream, stream
  <1>6. ASSUME NEW k \in DOMAIN held, AckArrives(k) PROVE ChainInv'
    <2>1. frames' = frames /\ acked' = k /\ k > acked /\ k \in DOMAIN frames
      BY <1>6 DEF AckArrives, TypeOK
    <2>2. k # 0 /\ frames[k].chain \in Nat
      BY <1>1, <2>1
    <2>3. (IF acked = 0 THEN 0 ELSE frames[acked].chain + 1) <= frames[k].chain + 1
      <3>1. CASE acked = 0
        BY <2>2, <3>1
      <3>2. CASE acked # 0
        <4>1. acked \in 1 .. k /\ acked \in DOMAIN frames
          BY <1>1, <1>2, <2>1, <3>2
        <4>2. frames[acked].chain <= frames[k].chain /\ frames[acked].chain \in Nat
          BY <1>1, <2>1, <4>1 DEF ChainInv
        <4> QED BY <2>2, <3>2, <4>2
      <3> QED BY <3>1, <3>2
    <2>4. ASSUME NEW i \in DOMAIN frames PROVE frames[i].chain <= frames[k].chain + 1
      <3> DEFINE top == IF acked = 0 THEN 0 ELSE frames[acked].chain + 1
      <3>1. frames[i].chain <= top /\ top \in Nat
        BY <1>1, <1>2 DEF ChainInv
      <3> HIDE DEF top
      <3> QED BY <1>1, <2>2, <2>3, <3>1 DEF top
    <2> QED BY <2>1, <2>2, <2>4 DEF ChainInv
  <1> QED BY <1>3, <1>4, <1>5, <1>6
       DEF Next, vars, stream, Change, FreeTarget, Enter, MarkSync, MarkNode, Poll,
           SendSnapshots, SetRate, SetInterval, SetManual, ClientEnters, Receive, Predict

(***************************************************************************)
(* A client whose check is the host's has its kinds, and its grids where   *)
(* they matter.                                                            *)
(***************************************************************************)
LEMMA AlikeFacts ==
    ASSUME ~CodingsDiffer
    PROVE  LET here == MakeSlotCoding(game.client)
           IN  /\ DOMAIN here = DOMAIN ServerCoding
               /\ DOMAIN ClientSlots = DOMAIN ServerSlots
               /\ \A s \in DOMAIN ServerSlots :
                     /\ here[s].kind = ServerCoding[s].kind
                     /\ here[s].kind \in {"float_grid", "vec3_grid"}
                           => here[s].grid = ServerCoding[s].grid
PROOF
  <1> DEFINE here == MakeSlotCoding(game.client)
             there == ServerCoding
  <1>1. Check(there) = Check(here)
    BY DEF CodingsDiffer
  <1>2. DOMAIN here = DOMAIN ClientSlots /\ DOMAIN there = DOMAIN ServerSlots
    BY DEF ClientSlots, MakeSlotCoding, ServerSlots, ServerCoding
  <1> HIDE DEF here, there
  <1>3. DOMAIN Check(here) = DOMAIN here /\ DOMAIN Check(there) = DOMAIN there
    BY DEF Check
  <1>4. DOMAIN here = DOMAIN there
    BY <1>1, <1>3
  <1>5. ASSUME NEW s \in DOMAIN here
        PROVE  /\ here[s].kind = there[s].kind
               /\ here[s].kind \in {"float_grid", "vec3_grid"} => here[s].grid = there[s].grid
    <2>1. Check(here)[s] = Check(there)[s]
      BY <1>1
    <2> QED BY <1>4, <2>1 DEF Check
  <1> QED BY <1>2, <1>4, <1>5 DEF here, there

(***************************************************************************)
(* Elsewhere the grid is not looked at.                                    *)
(***************************************************************************)
LEMMA GridOnly ==
    ASSUME NEW kind, NEW g, NEW h, kind \in {"float_grid", "vec3_grid"} => g = h,
           NEW p, NEW base, NEW ref
    PROVE  GetSlot(kind, g, p, base, ref) = GetSlot(kind, h, p, base, ref)
PROOF
  <1>1. CASE kind \in {"float_grid", "vec3_grid"}
    BY <1>1
  <1>2. CASE kind \notin {"float_grid", "vec3_grid"}
    BY <1>2 DEF GetSlot, AngleSteps
  <1> QED BY <1>1, <1>2

(***************************************************************************)
(* What the client has at the baseline of a snapshot is had of what the    *)
(* host has there, within a chain that is shorter by one.                  *)
(***************************************************************************)
LEMMA BaseFacts ==
    ASSUME TypeOK, FramesOK, ReadInv, ChainInv, HeldInv, ~CodingsDiffer, NEW k \in DOMAIN frames,
           NEW s \in DOMAIN ServerSlots
    PROVE  \/ ServerBase(k, s) = NoBase /\ ClientBase(k, s) = NoBase /\ Whole(k)
           \/ /\ ServerBase(k, s) \in Values /\ ~Whole(k)
              /\ \E j \in Nat : /\ j + 1 <= frames[k].chain
                                /\ ClientBase(k, s) = Had(ServerCoding[s], ServerBase(k, s), j)
PROOF
  <1>1. CASE Whole(k)
    BY <1>1 DEF ServerBase, ClientBase
  <1>2. CASE ~Whole(k)
    <2> DEFINE b == frames[k].base
    <2>1. b \in DOMAIN held /\ b \in DOMAIN frames
      BY <1>2, SentFacts DEF Whole
    <2>2. frames[b].is[s] \in Values
      BY <2>1, SentFacts
    <2>3. PICK j \in 0 .. frames[b].chain : held[b][s] = Had(ServerCoding[s], frames[b].is[s], j)
      BY <2>1 DEF HeldInv, HasAll, Has
    <2>4. /\ frames[b].chain + 1 <= frames[k].chain
          /\ frames[b].chain \in Nat /\ frames[k].chain \in Nat
      BY <1>2, <2>1, SentFacts DEF ChainInv, Whole
    <2>5. j \in Nat /\ j + 1 <= frames[k].chain
      BY <2>4
    <2>6. ClientBase(k, s) = held[b][s] /\ ServerBase(k, s) = frames[b].is[s]
      BY <1>2 DEF ServerBase, ClientBase
    <2> QED BY <1>2, <2>2, <2>3, <2>5, <2>6
  <1> QED BY <1>1, <1>2

(***************************************************************************)
(* A slot is decoded to what is had of what was read.                      *)
(***************************************************************************)
LEMMA DecodedIs ==
    ASSUME TypeOK, FramesOK, ReadInv, ChainInv, HeldInv, ~CodingsDiffer, NEW k \in DOMAIN frames,
           NEW s \in DOMAIN ServerSlots, coding' = MakeSlotCoding(game.client)
    PROVE  Has(ServerCoding[s], frames[k].is[s], Decoded(k, s), frames[k].chain)
PROOF
  <1> DEFINE c == ServerCoding[s]
             d == coding'[s]
             v == frames[k].is[s]
             base == ServerBase(k, s)
             other == ClientBase(k, s)
             now == ServerTime(k)
             most == frames[k].chain
  <1>1. d.kind = c.kind /\ (c.kind \in {"float_grid", "vec3_grid"} => d.grid = c.grid)
    BY AlikeFacts
  <1>2. v \in Values /\ k \in Nat /\ most \in Nat
    BY SentFacts
  <1>3. IsCoding(c) /\ InWidth(v)
    BY <1>2, SceneFacts
  <1>4. now \in Int
    BY <1>2 DEF ServerTime
  <1>5. \/ base = NoBase /\ other = NoBase
        \/ InWidth(base) /\ \E j \in Nat : j + 1 <= most /\ other = Had(c, base, j)
    BY BaseFacts, SceneFacts
  <1>6. Decoded(k, s) = GetSlot(d.kind, d.grid, PutSlot(c.kind, c.grid, c.quant, v, base, now),
                                other, now)
    BY DEF Decoded, Encoded
  <1> HIDE DEF c, d, v, base, other, now, most
  <1>7. Has(c, v, GetSlot(c.kind, c.grid, PutSlot(c.kind, c.grid, c.quant, v, base, now),
                          other, now), most)
    BY <1>2, <1>3, <1>4, <1>5, SlotTaken
  <1>8. \A p : GetSlot(d.kind, d.grid, p, other, now) = GetSlot(c.kind, c.grid, p, other, now)
    BY <1>1, GridOnly
  <1> QED BY <1>6, <1>7, <1>8 DEF c, v, most

(***************************************************************************)
(* A slot that was not coded has its value of the baseline, and of every   *)
(* snapshot since.                                                         *)
(***************************************************************************)
LEMMA UnchangedIs ==
    ASSUME TypeOK, FramesOK, ReadInv, ChainInv, HeldInv, ~CodingsDiffer, NEW k \in DOMAIN frames,
           NEW s \in DOMAIN ServerSlots, s \notin Changed(k)
    PROVE  /\ ~Whole(k)
           /\ Has(ServerCoding[s], frames[k].is[s], ClientBase(k, s), frames[k].chain)
           /\ \A j \in Nat : frames[k].base <= j /\ j <= k => frames[j].is[s] = frames[k].is[s]
PROOF
  <1> DEFINE b == frames[k].base
  <1>1. /\ b \in Nat /\ k \in Nat /\ b < k
        /\ frames[k].is[s] \in Values
    BY SentFacts
  <1>2. \A j \in (b + 1) .. k : frames[j].is[s] = ServerBase(k, s)
    BY DEF Changed
  <1> HIDE DEF b
  <1>3. k \in (b + 1) .. k
    BY <1>1
  <1>4. frames[k].is[s] = ServerBase(k, s)
    BY <1>2, <1>3
  <1>5. ~Whole(k)
    <2>1. \A v \in Values : v # NoBase
      BY SceneFacts
    <2> QED BY <1>1, <1>4, <2>1 DEF ServerBase
  <1>6. Has(ServerCoding[s], frames[k].is[s], ClientBase(k, s), frames[k].chain)
    <2>1. PICK j \in Nat : /\ j + 1 <= frames[k].chain
                           /\ ClientBase(k, s) = Had(ServerCoding[s], ServerBase(k, s), j)
      BY <1>5, BaseFacts
    <2>2. frames[k].chain \in Nat
      BY SentFacts
    <2>3. j \in 0 .. frames[k].chain
      BY <2>1, <2>2
    <2> QED BY <1>4, <2>1, <2>3 DEF Has
  <1>7. ASSUME NEW j \in Nat, b <= j, j <= k PROVE frames[j].is[s] = frames[k].is[s]
    <2>1. CASE j = b
      BY <1>4, <1>5, <2>1 DEF ServerBase, b
    <2>2. CASE j # b
      <3>1. j \in (b + 1) .. k
        BY <1>1, <1>7, <2>2
      <3> QED BY <1>2, <1>4, <3>1
    <2> QED BY <2>1, <2>2
  <1> QED BY <1>5, <1>6, <1>7 DEF b

(***************************************************************************)
(* Coded alike, nothing is refused but an entity with no slots.            *)
(***************************************************************************)
LEMMA AlikeTaken ==
    ASSUME TypeOK, FramesOK, ReadInv, ChainInv, HeldInv, ~CodingsDiffer, NEW k \in DOMAIN frames,
           coding' = MakeSlotCoding(game.client), Refused(k)
    PROVE  DOMAIN ServerSlots = {}
PROOF
  <1>1. Check(ServerCoding) = Check(coding')
    BY DEF CodingsDiffer
  <1>2. ~Whole(k) /\ held[frames[k].base] = <<>>
    BY <1>1 DEF Refused
  <1>3. frames[k].base \in DOMAIN held
    BY <1>2, SentFacts DEF Whole
  <1>4. DOMAIN held[frames[k].base] = DOMAIN ServerSlots
    BY <1>3 DEF HeldInv, HasAll
  <1> QED BY <1>2, <1>4

(***************************************************************************)
(* A snapshot taken by a client coded alike.                               *)
(***************************************************************************)
LEMMA TakenFacts ==
    ASSUME TypeOK, FramesOK, ReadInv, ChainInv, HeldInv, ~CodingsDiffer, NEW k \in DOMAIN frames,
           Receive(k)
    PROVE  /\ k > Latest /\ UNCHANGED frames
           /\ DOMAIN held' = DOMAIN held \cup {k}
           /\ \A j \in DOMAIN held : j # k => held'[j] = held[j]
           /\ HasAll(held'[k], frames[k])
PROOF
  <1>1. /\ coding' = MakeSlotCoding(game.client) /\ k > Latest
        /\ UNCHANGED frames
    BY DEF Receive, stream
  <1>2. CASE Refused(k)
    <2>1. Takes(k, <<>>)
      BY <1>2 DEF Receive
    <2>2. DOMAIN ServerSlots = {}
      BY <1>1, <1>2, AlikeTaken
    <2>3. HasAll(<<>>, frames[k])
      BY <2>2 DEF HasAll
    <2> QED BY <1>1, <2>1, <2>3 DEF Takes
  <1>3. CASE ~Refused(k)
    <2> DEFINE is == [s \in DOMAIN ServerSlots |->
                        IF s \in Changed(k) THEN Decoded(k, s) ELSE ClientBase(k, s)]
    <2>1. Takes(k, is)
      BY <1>3 DEF Receive
    <2>2. ASSUME NEW s \in DOMAIN ServerSlots
          PROVE  Has(ServerCoding[s], frames[k].is[s], is[s], frames[k].chain)
      <3>1. CASE s \in Changed(k)
        BY <1>1, <3>1, DecodedIs
      <3>2. CASE s \notin Changed(k)
        BY <3>2, UnchangedIs
      <3> QED BY <3>1, <3>2
    <2>3. HasAll(is, frames[k])
      BY <2>2 DEF HasAll
    <2> HIDE DEF is
    <2> QED BY <1>1, <2>1, <2>3 DEF Takes
  <1> QED BY <1>2, <1>3

(***************************************************************************)
(* Of each snapshot the client has what was read.                          *)
(***************************************************************************)
LEMMA HeldStep ==
    ASSUME TypeOK, FramesOK, ReadInv, ChainInv, HeldInv, [Next]_vars
    PROVE  HeldInv'
PROOF
  <1>1. /\ ServerSlots' = ServerSlots /\ ServerCoding' = ServerCoding
        /\ CodingsDiffer' = CodingsDiffer
    BY SceneStays
  <1> SUFFICES ASSUME ~CodingsDiffer
               PROVE  \A k \in DOMAIN held' : HasAll(held'[k], frames'[k])
    BY <1>1 DEF HeldInv, HasAll
  <1> DEFINE AllAs == \A k \in DOMAIN held' : HasAll(held'[k], frames'[k])
  <1>2. \A k \in DOMAIN held : k \in DOMAIN frames /\ HasAll(held[k], frames[k])
    BY DEF HeldInv, TypeOK
  <1>3. CASE held' = held /\ \A k \in DOMAIN frames : frames'[k] = frames[k]
    BY <1>2, <1>3
  <1>4. CASE held' = <<>>
    BY <1>4
  <1>5. ASSUME Tick PROVE AllAs
    <2>1. held' = held
      BY <1>5 DEF Tick, client
    <2>2. CASE frames' = frames
      BY <1>3, <2>1, <2>2
    <2>3. ASSUME NEW new, frames' = Append(frames, new) PROVE AllAs
      BY <1>3, <2>1, <2>3, FrameAdded
    <2> QED BY <1>5, <2>2, <2>3 DEF Tick, stream
  <1>6. ASSUME NEW s \in Syncs, Exit(s) PROVE AllAs
    BY <1>3, <1>4, <1>6 DEF Exit, stream
  <1>7. ASSUME NEW k \in DOMAIN frames, Receive(k) PROVE AllAs
    <2>1. /\ frames' = frames /\ DOMAIN held' = DOMAIN held \cup {k}
          /\ \A j \in DOMAIN held : j # k => held'[j] = held[j]
          /\ HasAll(held'[k], frames[k])
      BY <1>7, TakenFacts
    <2> SUFFICES ASSUME NEW j \in DOMAIN held' PROVE HasAll(held'[j], frames[j])
      BY <2>1
    <2>2. CASE j = k
      BY <2>1, <2>2
    <2>3. CASE j # k
      BY <1>2, <2>1, <2>3
    <2> QED BY <2>2, <2>3
  <1> QED BY <1>3, <1>5, <1>6, <1>7
       DEF Next, vars, stream, client, Change, FreeTarget, Enter, MarkSync, MarkNode, Poll,
           SendSnapshots, SetRate, SetInterval, SetManual, AckArrives, ClientEnters, Predict

(***************************************************************************)
(* What is shown of a snapshot taken: a slot that was coded is set at its  *)
(* own place, and one that was not has been shown since an earlier         *)
(* snapshot.                                                               *)
(***************************************************************************)
LEMMA SetFacts ==
    ASSUME TypeOK, FramesOK, ReadInv, ChainInv, HeldInv, ShownInv, ~CodingsDiffer,
           NEW k \in DOMAIN frames, Receive(k),
           NEW s \in DOMAIN ServerSlots, s \in DOMAIN ClientSlots,
           ServerSlots[s].at = ClientSlots[s].at, ServerSlots[s].at \in Names \ written'
    PROVE  Has(ServerCoding[s], frames[k].is[s], shown'[ServerSlots[s].at], frames[k].chain)
PROOF
  <1> DEFINE a == ServerSlots[s].at
             plan == SlotPlan(game.client)
             is == [t \in DOMAIN ServerSlots |->
                        IF t \in Changed(k) THEN Decoded(k, t) ELSE ClientBase(k, t)]
             set == {plan[t] : t \in Changed(k)} \ {Hole}
  <1>1. coding' = MakeSlotCoding(game.client) /\ ~Refused(k) /\ k > Latest
    BY AlikeTaken DEF Receive
  <1>2. /\ shown' = [b \in Names |->
              IF b \in set THEN is[CHOOSE t \in DOMAIN plan : plan[t] = b] ELSE shown[b]]
        /\ written' = written \ set
    BY <1>1 DEF Receive
  <1>3. /\ DOMAIN plan = DOMAIN ClientSlots
        /\ \A t \in DOMAIN ClientSlots : plan[t] = ClientSlots[t].at
    BY DEF SlotPlan, ClientSlots
  <1>4. a \in Names /\ a # Hole /\ a \notin written'
    BY SceneFacts
  <1>5. \A t \in DOMAIN plan : plan[t] = a => t = s
    BY <1>3, <1>4, SceneFacts
  <1>6. plan[s] = a /\ s \in DOMAIN plan
    BY <1>3
  <1>7. Changed(k) \subseteq DOMAIN plan
    BY <1>3, AlikeFacts DEF Changed
  <1>8. is[s] = IF s \in Changed(k) THEN Decoded(k, s) ELSE ClientBase(k, s)
    OBVIOUS
  <1> HIDE DEF plan, is, set, a
  <1>9. CASE s \in Changed(k)
    <2>1. a \in set
      BY <1>4, <1>6, <1>9 DEF set
    <2>2. (CHOOSE t \in DOMAIN plan : plan[t] = a) = s
      BY <1>5, <1>6
    <2>3. shown'[a] = is[s]
      BY <1>2, <1>4, <2>1, <2>2
    <2>4. Has(ServerCoding[s], frames[k].is[s], Decoded(k, s), frames[k].chain)
      BY <1>1, DecodedIs
    <2> QED BY <1>8, <1>9, <2>3, <2>4 DEF a
  <1>10. CASE s \notin Changed(k)
    <2>1. a \notin set
      BY <1>5, <1>7, <1>10 DEF set
    <2>2. shown'[a] = shown[a] /\ a \notin written
      BY <1>2, <1>4, <2>1
    <2>3. /\ ~Whole(k)
          /\ \A j \in Nat : frames[k].base <= j /\ j <= k => frames[j].is[s] = frames[k].is[s]
      BY <1>10, UnchangedIs
    <2>4. frames[k].base \in DOMAIN held /\ frames[k].base \in Nat /\ k \in Nat
      BY <2>3, SentFacts DEF Whole
    <2>5. /\ Latest \in Nat /\ Latest # 0 /\ frames[k].base <= Latest
      BY <2>4, LatestIs
    <2>6. frames[Latest].is[s] = frames[k].is[s]
      BY <1>1, <2>3, <2>4, <2>5
    <2>7. Has(ServerCoding[s], frames[Latest].is[s], shown[a], frames[Latest].chain)
      BY <1>4, <2>2, <2>5 DEF ShownInv, a
    <2>8. /\ frames[Latest].chain <= frames[k].chain
          /\ frames[Latest].chain \in Nat /\ frames[k].chain \in Nat
      <3>1. Latest \in 1 .. k /\ Latest \in DOMAIN frames
        BY <1>1, <2>4, <2>5, LatestIs
      <3> QED BY <3>1, SentFacts DEF ChainInv
    <2>9. \A j \in 0 .. frames[Latest].chain : j \in 0 .. frames[k].chain
      BY <2>8
    <2>10. Has(ServerCoding[s], frames[k].is[s], shown[a], frames[k].chain)
      BY <2>6, <2>7, <2>9 DEF Has
    <2> QED BY <2>2, <2>10 DEF a
  <1> QED BY <1>9, <1>10

(***************************************************************************)
(* A property not written since shows the last snapshot.                   *)
(***************************************************************************)
LEMMA ShownStep ==
    ASSUME TypeOK, FramesOK, ReadInv, ChainInv, HeldInv, ShownInv, [Next]_vars
    PROVE  ShownInv'
PROOF
  <1>1. /\ ServerSlots' = ServerSlots /\ ClientSlots' = ClientSlots
        /\ ServerCoding' = ServerCoding /\ CodingsDiffer' = CodingsDiffer /\ Names' = Names
    BY SceneStays
  <1> SUFFICES ASSUME ~CodingsDiffer, Latest' # 0,
                      NEW s \in DOMAIN ServerSlots, NEW i \in DOMAIN ClientSlots,
                      ServerSlots[s].at = ClientSlots[i].at,
                      ServerSlots[s].at \in Names \ written'
               PROVE  Has(ServerCoding[s], frames'[Latest'].is[s], shown'[ServerSlots[s].at],
                          frames'[Latest'].chain)
    BY <1>1 DEF ShownInv
  <1> DEFINE a == ServerSlots[s].at
             Goal == Has(ServerCoding[s], frames'[Latest'].is[s], shown'[a],
                         frames'[Latest'].chain)
  <1>2. Latest # 0 => Latest \in DOMAIN frames
    BY LatestIs
  <1>3. Latest # 0 /\ a \notin written =>
          Has(ServerCoding[s], frames[Latest].is[s], shown[a], frames[Latest].chain)
    BY DEF ShownInv
  <1>4. held' = held => Latest' = Latest
    BY DEF Latest
  <1>5. CASE /\ UNCHANGED <<held, shown, written>>
             /\ \A k \in DOMAIN frames : frames'[k] = frames[k]
    BY <1>2, <1>3, <1>4, <1>5
  <1>6. ASSUME Tick PROVE Goal
    <2>1. UNCHANGED <<held, shown, written>>
      BY <1>6 DEF Tick, client
    <2>2. CASE frames' = frames
      BY <1>5, <2>1, <2>2
    <2>3. ASSUME NEW new, frames' = Append(frames, new) PROVE Goal
      BY <1>5, <2>1, <2>3, FrameAdded
    <2> QED BY <1>6, <2>2, <2>3 DEF Tick, stream
  <1>7. ASSUME NEW t \in Syncs, Exit(t) PROVE Goal
    <2>1. CASE t = Followed
      <3>1. held' = <<>>
        BY <1>7, <2>1 DEF Exit
      <3>2. DOMAIN held' = {}
        BY <3>1
      <3> QED BY <3>2 DEF Latest
    <2>2. CASE t # Followed
      BY <1>5, <1>7, <2>2 DEF Exit, stream
    <2> QED BY <2>1, <2>2
  <1>8. ASSUME NEW k \in DOMAIN frames, Receive(k) PROVE Goal
    <2>1. /\ k > Latest /\ frames' = frames /\ DOMAIN held' = DOMAIN held \cup {k}
      BY <1>8, TakenFacts
    <2>2. /\ Latest \in Nat /\ \A j \in DOMAIN held : j <= Latest
          /\ DOMAIN held \subseteq DOMAIN frames /\ DOMAIN frames = 1 .. Len(frames)
          /\ Len(frames) \in Nat
      BY LatestIs
    <2>3. Latest' = k
      <3> DEFINE S == DOMAIN held \cup {k}
                 n == Len(frames)
      <3>1. S \in SUBSET (1 .. n) /\ S # {} /\ n \in Nat
        BY <2>2
      <3>2. Latest' = Max(S)
        BY <2>1 DEF Latest
      <3>3. \A j \in S : j <= k
        BY <2>1, <2>2
      <3>4. k \in S
        OBVIOUS
      <3> HIDE DEF S, n
      <3> QED BY <3>1, <3>2, <3>3, <3>4, LatestSame
    <2>4. s = i
      BY SceneFacts
    <2>5. Has(ServerCoding[s], frames[k].is[s], shown'[a], frames[k].chain)
      BY <1>8, <2>4, SetFacts
    <2> QED BY <2>1, <2>3, <2>5
  <1>9. ASSUME NEW b \in Names, NEW v, Predict(b, v) PROVE Goal
    <2>1. /\ shown' = [shown EXCEPT ![b] = v] /\ written' = written \cup {b}
          /\ held' = held /\ frames' = frames
      BY <1>9 DEF Predict, stream
    <2>2. a # b /\ a \notin written
      BY <2>1
    <2>3. shown'[a] = shown[a]
      BY <2>1, <2>2
    <2> QED BY <1>3, <1>4, <2>1, <2>2, <2>3
  <1> QED BY <1>5, <1>6, <1>7, <1>8, <1>9
       DEF Next, vars, stream, client, Change, FreeTarget, Enter, MarkSync, MarkNode, Poll,
           SendSnapshots, SetRate, SetInterval, SetManual, AckArrives, ClientEnters

-----------------------------------------------------------------------------
\* The inductive invariant.

(***************************************************************************)
(* Nothing is read, sent or taken at first.                                *)
(***************************************************************************)
LEMMA InitTaken == Init => ReadInv /\ ChainInv /\ HeldInv /\ ShownInv
PROOF
  <1> SUFFICES ASSUME Init PROVE ReadInv /\ ChainInv /\ HeldInv /\ ShownInv
    OBVIOUS
  <1>1. /\ entity = "none" /\ frames = <<>> /\ held = <<>>
        /\ DOMAIN prop = DOMAIN game.values
        /\ \A a \in DOMAIN prop : prop[a] \in game.values[a]
    BY DEF Init
  <1>2. DOMAIN held = {} /\ DOMAIN frames = {} /\ Latest = 0
    BY <1>1 DEF Latest
  <1> QED BY <1>1, <1>2 DEF ReadInv, ChainInv, HeldInv, ShownInv, Names

LEMMA InitHolds == Init => StreamInv
PROOF
  <1> SUFFICES ASSUME Init PROVE StreamInv
    OBVIOUS
  <1>1. ClockInv
    BY InitClock
  <1>2. /\ game \in Games /\ entity = "none" /\ dirty = FALSE /\ route = Unset
        /\ stamped = [s \in DOMAIN ServerSlots |-> Nil] /\ frames = <<>> /\ acked = 0
        /\ inside \in BOOLEAN /\ coding = NoCoding /\ held = <<>>
        /\ shown = [a \in Names |-> Nil]
        /\ told = "sync" /\ written = {} /\ owned = {}
    BY DEF Init, ClockInit
  <1>3. \A a \in Names : prop[a] \in game.values[a] \cup {Nil}
    BY DEF Init, Names
  <1>4. frames \in Seq(SentOnes) /\ Len(frames) = 0 /\ DOMAIN frames = {}
        /\ DOMAIN held = {}
    BY <1>2
  <1>5. game.frames \in Nat
    BY <1>2, GamesAssumption
  <1>6. TypeOK
    <2>1. ClockTypeOK
      BY <1>1 DEF ClockInv
    <2>2. 0 \in 0 .. 0 /\ 0 <= game.frames
      BY ONLY <1>5
    <2>3. acked \in 0 .. Len(frames) /\ Len(frames) <= game.frames
      BY <1>2, <1>4, <2>2
    <2>4. DOMAIN stamped = DOMAIN ServerSlots
      BY <1>2
    <2>5. route \in Syncs \cup {Unset, Nobody} /\ (entity = "none" <=> Followed \notin owned)
      BY <1>2
    <2> QED BY <1>2, <1>3, <1>4, <2>1, <2>3, <2>4, <2>5 DEF TypeOK
  <1>7. FramesOK
    BY <1>2, <1>4 DEF FramesOK, Stamps, Values
  <1>8. NothingTaken /\ MarkedIsRead
    BY <1>2, <1>4 DEF NothingTaken, MarkedIsRead
  <1> QED BY <1>6, <1>7, <1>8, InitTaken DEF StreamInv

\* Every step keeps the invariant.
LEMMA StreamInvStep == ClockInv /\ StreamInv /\ [Next]_vars => StreamInv'
PROOF
  <1> SUFFICES ASSUME ClockInv, StreamInv, [Next]_vars PROVE StreamInv'
    OBVIOUS
  <1>1. /\ TypeOK /\ FramesOK /\ NothingTaken /\ MarkedIsRead /\ DOMAIN shown = Names
        /\ ReadInv /\ ChainInv /\ HeldInv /\ ShownInv
    BY DEF StreamInv, FramesOK
  <1>2. ClockTypeOK'
    BY ClockStep DEF ClockInv
  <1>3. StreamOK(stamped', frames', acked', held')
    BY <1>1, StreamStep
  <1>4. game' = game /\ ServerSlots' = ServerSlots /\ Stamps' = Stamps
    BY SceneStays
  <1>5. TypeOK'
    <2>1. DOMAIN stamped' = DOMAIN ServerSlots'
      BY <1>3, <1>4 DEF StreamOK, Stamps
    <2>2. /\ Len(frames') <= game'.frames /\ acked' \in 0 .. Len(frames')
          /\ DOMAIN held' \subseteq DOMAIN frames'
          /\ acked' # 0 => acked' \in DOMAIN held'
      BY <1>3, <1>4 DEF StreamOK
    <2>3. /\ coding' \in {NoCoding, MakeSlotCoding(game'.client)}
          /\ written' \subseteq Names'
      BY <1>1, ClientTypes
    <2>4. /\ game' \in Games
          /\ \A a \in Names' : prop'[a] \in game'.values[a] \cup {Nil}
          /\ entity' \in {"none", "waiting", "added"}
          /\ dirty' \in BOOLEAN /\ inside' \in BOOLEAN
          /\ route' \in Syncs \cup {Unset, Nobody}
          /\ (entity' = "none" <=> Followed \notin owned')
          /\ told' \in {"no", "node", "sync"}
      BY <1>1, HostTypes
    <2> QED BY <1>2, <2>1, <2>2, <2>3, <2>4 DEF TypeOK
  <1>6. FramesOK'
    <2>1. SentOnes' = SentOnes
      BY <1>4 DEF SentOnes
    <2>2. DOMAIN shown' = Names'
      BY <1>1, ClientTypes
    <2> QED BY <1>3, <1>4, <2>1, <2>2 DEF FramesOK, StreamOK
  <1>7. NothingTaken' /\ MarkedIsRead'
    BY <1>1, NothingTakenStep, MarkedStep
  <1>8. ReadInv' /\ ChainInv' /\ HeldInv' /\ ShownInv'
    BY <1>1, ReadStep, ChainStep, HeldStep, ShownStep
  <1> QED BY <1>5, <1>6, <1>7, <1>8 DEF StreamInv

(***************************************************************************)
(* What is had is close.                                                   *)
(***************************************************************************)
LEMMA TakenInvClose ==
    ASSUME TypeOK, FramesOK, ReadInv, HeldInv, NothingTaken
    PROVE  HeldIsClose
PROOF
  <1> SUFFICES ASSUME NEW k \in DOMAIN held, NEW s \in DOMAIN held[k]
               PROVE  Close(ServerCoding[s], frames[k].is[s], held[k][s], frames[k].chain)
    BY DEF HeldIsClose
  <1>1. ~CodingsDiffer
    <2> SUFFICES ASSUME CodingsDiffer PROVE FALSE
      OBVIOUS
    <2>1. held[k] = <<>>
      BY DEF NothingTaken
    <2> QED BY <2>1
  <1>2. k \in DOMAIN frames
    BY DEF TypeOK
  <1>3. /\ s \in DOMAIN ServerSlots
        /\ Has(ServerCoding[s], frames[k].is[s], held[k][s], frames[k].chain)
    BY <1>1 DEF HeldInv, HasAll
  <1>4. /\ InWidth(frames[k].is[s]) /\ IsCoding(ServerCoding[s])
        /\ frames[k].chain \in Nat
    BY <1>2, <1>3, SentFacts, SceneFacts
  <1> QED BY <1>3, <1>4, HasClose

(***************************************************************************)
(* What is shown is close, and of the property of that name.               *)
(***************************************************************************)
LEMMA TakenInvShown ==
    ASSUME TypeOK, FramesOK, ReadInv, HeldInv, ShownInv, NothingTaken
    PROVE  ShownInPlace
PROOF
  <1> SUFFICES ASSUME Latest # 0, held[Latest] # <<>>,
                      NEW s \in DOMAIN ServerSlots, NEW a \in Names \ written,
                      ServerSlots[s].at = a,
                      NEW i \in DOMAIN ClientSlots, ClientSlots[i].at = a
               PROVE  /\ Close(ServerCoding[s], frames[Latest].is[s], shown[a],
                               frames[Latest].chain)
                      /\ frames[Latest].is[s] \in game.values[a] \/ Does("frees")
    BY DEF ShownInPlace
  <1>1. Latest \in DOMAIN held /\ Latest \in DOMAIN frames
    BY LatestIs
  <1>2. ~CodingsDiffer
    BY <1>1 DEF NothingTaken
  <1>3. Has(ServerCoding[s], frames[Latest].is[s], shown[a], frames[Latest].chain)
    BY <1>2 DEF ShownInv
  <1>4. IsOf(s, frames[Latest].is[s])
    BY <1>1 DEF ReadInv
  <1>5. /\ InWidth(frames[Latest].is[s]) /\ IsCoding(ServerCoding[s])
        /\ frames[Latest].chain \in Nat
    BY <1>1, SentFacts, SceneFacts
  <1> QED BY <1>3, <1>4, <1>5, HasClose DEF IsOf

(***************************************************************************)
(* Steps are taken between values that were read.                          *)
(***************************************************************************)
LEMMA TakenInvTurns ==
    ASSUME TypeOK, FramesOK, ReadInv
    PROVE  TurnsAreShort
PROOF
  <1> SUFFICES ASSUME NEW k \in DOMAIN frames, NEW s \in DOMAIN ServerSlots,
                      ServerCoding[s].kind \in AngleSteps, ~Whole(k)
               PROVE  LET step == Turn \div Steps(ServerCoding[s].kind)
                      IN  2 * step * Abs(Encoded(k, s)) <=
                            TurnApart(AsFloat(frames[k].is[s]), AsFloat(ServerBase(k, s)))
                              + 2 * (step + Single)
    BY DEF TurnsAreShort, Changed
  <1> DEFINE v == AsFloat(frames[k].is[s])
             w == AsFloat(ServerBase(k, s))
             n == Steps(ServerCoding[s].kind)
  <1>1. n \in Widths
    BY DEF Steps, AngleSteps, Widths
  <1>2. frames[k].base \in DOMAIN frames
    BY SentFacts DEF Whole
  <1>3. InWidth(frames[k].is[s]) /\ InWidth(ServerBase(k, s))
    BY <1>2, SentFacts, SceneFacts DEF ServerBase
  <1>4. v \in Int /\ w \in Int /\ ServerBase(k, s) # NoBase
    BY <1>3 DEF InWidth, NoBase
  <1>5. Encoded(k, s) = AngleStep(AngleQuanta(v, n), AngleQuanta(w, n), n)
    BY <1>4 DEF Encoded, PutSlot, AngleSteps
  <1> HIDE DEF v, w, n
  <1>6. 2 * (Turn \div n) * Abs(AngleStep(AngleQuanta(v, n), AngleQuanta(w, n), n))
          <= TurnApart(v, w) + 2 * (Turn \div n + Single)
    BY <1>1, <1>4, StepShort
  <1> QED BY <1>5, <1>6 DEF v, w, n

(***************************************************************************)
(* The inductive invariant, of any games and any synchronizers: what the   *)
(* client has of each snapshot is what GetSlot makes of PutSlot along its  *)
(* chain of baselines, a rounding off and for an angle in steps a step     *)
(* more for each of these.                                                 *)
(***************************************************************************)
THEOREM InvariantHolds == Spec => [](ClockInv /\ StreamInv)
PROOF
  <1>1. Init => ClockInv /\ StreamInv
    BY InitHolds, InitClock
  <1>2. (ClockInv /\ StreamInv) /\ [Next]_vars => (ClockInv /\ StreamInv)'
    BY ClockStep, StreamInvStep
  <1> QED BY <1>1, <1>2, PTL DEF Spec

(***************************************************************************)
(* TypeOK: what was read, sent, acknowledged and taken fit each other.     *)
(***************************************************************************)
THEOREM TypesHold == Spec => []TypeOK
PROOF
  <1>1. ClockInv /\ StreamInv => TypeOK
    BY DEF StreamInv
  <1> QED BY <1>1, InvariantHolds, PTL

(***************************************************************************)
(* MarkedIsRead: _server_tick reads what mark_dirty announced, whatever    *)
(* the layout, and whenever the synchronizer came and was marked.          *)
(***************************************************************************)
THEOREM MarkedIsAlwaysRead == Spec => []MarkedIsRead
PROOF
  <1>1. ClockInv /\ StreamInv => MarkedIsRead
    BY DEF StreamInv
  <1> QED BY <1>1, InvariantHolds, PTL

(***************************************************************************)
(* OtherCodingIgnored: ClientHost::entity sets nothing of an entity its    *)
(* scene types or hints otherwise, whatever the two scenes are.            *)
(***************************************************************************)
THEOREM OtherCodingAlwaysIgnored == Spec => []OtherCodingIgnored
PROOF
  <1>1. ClockInv /\ StreamInv => OtherCodingIgnored
    BY NothingTakenIgnores DEF StreamInv
  <1> QED BY <1>1, InvariantHolds, PTL

(***************************************************************************)
(* HeldIsClose: put_slot and get_slot, over any chain of baselines, any    *)
(* losses and any values that fit, leave the client one rounding off; for  *)
(* an angle that goes in steps, one rounding and one step a baseline.      *)
(***************************************************************************)
THEOREM HeldIsAlwaysClose == Spec => []HeldIsClose
PROOF
  <1>1. ClockInv /\ StreamInv => HeldIsClose
    BY TakenInvClose DEF StreamInv
  <1> QED BY <1>1, InvariantHolds, PTL

(***************************************************************************)
(* ShownInPlace: ClientHost::entity sets each slot where its own end has   *)
(* the property, whatever is not replicated or missing before it, and as   *)
(* close as HeldIsClose says.                                              *)
(***************************************************************************)
THEOREM ShownAlwaysInPlace == Spec => []ShownInPlace
PROOF
  <1>1. ClockInv /\ StreamInv => ShownInPlace
    BY TakenInvShown DEF StreamInv
  <1> QED BY <1>1, InvariantHolds, PTL

(***************************************************************************)
(* TurnsAreShort: angle_step, of any width and any two angles.             *)
(***************************************************************************)
THEOREM TurnsAlwaysShort == Spec => []TurnsAreShort
PROOF
  <1>1. ClockInv /\ StreamInv => TurnsAreShort
    BY TakenInvTurns DEF StreamInv
  <1> QED BY <1>1, InvariantHolds, PTL

-----------------------------------------------------------------------------
\* The clock's recursion is that of a function that exists.
EstimateStep(h, g, n) == IF n = 0 THEN NoClock ELSE Observe(g[n - 1], h[n], Local(n))

IsClocks(h, g, n) == g = [m \in 0 .. n |-> EstimateStep(h, g, m)]

\* The least length with no such function has one: what Clocks recurs over exists.
LEMMA ClocksRecursion ==
    ASSUME NEW h, Len(h) \in Nat
    PROVE  IsClocks(h, Clocks(h), Len(h))
PROOF
  <1>1. \E g : IsClocks(h, g, Len(h))
    <2> DEFINE None == {n \in 0 .. Len(h) : ~\E g : IsClocks(h, g, n)}
    <2> SUFFICES ASSUME Len(h) \in None PROVE FALSE
      OBVIOUS
    <2>1. PICK n \in None : \A m \in None : n <= m
      <3>1. None \subseteq Nat /\ None # {}
        OBVIOUS
      <3> HIDE DEF None
      <3> QED BY <3>1, LeastExists
    <2>2. n # 0
      <3> DEFINE g == [m \in 0 .. 0 |-> NoClock]
      <3>1. IsClocks(h, g, 0)
        BY DEF IsClocks, EstimateStep
      <3> HIDE DEF g
      <3> QED BY <3>1
    <2>3. n - 1 \in 0 .. Len(h) /\ n - 1 \notin None
      BY <2>1, <2>2
    <2>4. PICK g : IsClocks(h, g, n - 1)
      BY <2>3
    <2> DEFINE f == [m \in 0 .. n |-> EstimateStep(h, g, m)]
    <2>5. n \in Nat
      OBVIOUS
    <2>6. \A m \in 0 .. (n - 1) : g[m] = EstimateStep(h, g, m)
      BY <2>4 DEF IsClocks
    <2>7. \A m \in 0 .. (n - 1) : f[m] = g[m]
      BY <2>5, <2>6
    <2>8. ASSUME NEW m \in 0 .. n PROVE EstimateStep(h, f, m) = EstimateStep(h, g, m)
      <3>1. m = 0 \/ m - 1 \in 0 .. (n - 1)
        BY <2>5
      <3> HIDE DEF f
      <3> QED BY <2>7, <3>1 DEF EstimateStep
    <2>9. IsClocks(h, f, n)
      <3>1. f = [m \in 0 .. n |-> EstimateStep(h, f, m)]
        BY <2>8
      <3> QED BY <3>1 DEF IsClocks
    <2> HIDE DEF f
    <2> QED BY <2>1, <2>9
  <1> DEFINE g == CHOOSE g : IsClocks(h, g, Len(h))
  <1>2. IsClocks(h, g, Len(h))
    BY <1>1
  <1>3. Clocks(h) = g
    BY DEF Clocks, IsClocks, EstimateStep
  <1> HIDE DEF g
  <1> QED BY <1>2, <1>3

(***************************************************************************)
(* A history is a sequence of lags and frames without one; the clocks go   *)
(* from NoClock by one Observe a frame.                                    *)
(***************************************************************************)
LEMMA HistoryFacts ==
    ASSUME NEW h \in Histories
    PROVE  /\ Len(h) \in Nat \ {0} /\ DOMAIN h = 1 .. Len(h)
           /\ \A n \in 1 .. Len(h) : h[n] \in Lags \cup {Nothing}
           /\ Clocks(h)[0] = NoClock
           /\ \A n \in 1 .. Len(h) : Clocks(h)[n] = Observe(Clocks(h)[n - 1], h[n], Local(n))
PROOF
  <1>1. PICK n \in 1 .. Frames : h \in [1 .. n -> Lags \cup {Nothing}]
    BY DEF Histories
  <1>2. n \in Nat \ {0}
    BY ClockAssumption
  <1>3. h \in Seq(Lags \cup {Nothing}) /\ Len(h) = n /\ DOMAIN h = 1 .. n
    BY <1>1, <1>2
  <1>4. IsClocks(h, Clocks(h), n)
    BY <1>2, <1>3, ClocksRecursion
  <1>5. \A m \in 0 .. n : Clocks(h)[m] = EstimateStep(h, Clocks(h), m)
    BY <1>4 DEF IsClocks
  <1> QED BY <1>1, <1>2, <1>3, <1>5 DEF EstimateStep

-----------------------------------------------------------------------------
\* The clock.

\* The observations up to frame n that overtook all before them.
Seen(h, n) == {m \in InOrder(h) : m <= n}

(***************************************************************************)
(* What a clock has after frame n: it is synced by the first observation;  *)
(* its samples are of observations that overtook all before them, the last *)
(* server time is that of one of these; and the estimate lies between two. *)
(***************************************************************************)
ClockHas(h, n, c) ==
    /\ c \in [offset : Int, synced : BOOLEAN, last : Int, samples : SUBSET [at : Int, is : Int]]
    /\ c.synced <=> Seen(h, n) # {}
    /\ ~c.synced => c.last = -1 /\ c.samples = {}
    /\ c.synced => c.samples # {}
    /\ \A s \in c.samples : \E m \in Seen(h, n) : s.is = -h[m]
    /\ \A m \in Observed(h) : m <= n => Local(m) - h[m] <= c.last
    /\ c.synced => \E m \in Seen(h, n) : Local(m) - h[m] = c.last
    /\ c.synced => \E short, long \in Seen(h, n) :
                      -h[long] <= c.offset /\ c.offset <= -h[short]

(***************************************************************************)
(* What was seen was some time on its way.                                 *)
(***************************************************************************)
LEMMA SeenFacts ==
    ASSUME NEW h \in Histories, NEW n
    PROVE  \A m \in Seen(h, n) : h[m] \in Nat
PROOF
  <1>1. Lags \subseteq Nat
    <2>1. \A l \in 0 .. Start : l \in Nat
      OBVIOUS
    <2> QED BY <2>1, ClockAssumption
  <1>2. \A m \in Seen(h, n) : m \in 1 .. Len(h) /\ h[m] # Nothing
    BY HistoryFacts DEF Seen, InOrder, Observed
  <1> QED BY <1>1, <1>2, HistoryFacts

(***************************************************************************)
(* Local times go on, and are not less than any lag.                       *)
(***************************************************************************)
LEMMA LocalFacts ==
    ASSUME NEW n \in Nat \ {0}
    PROVE  /\ Local(n) \in Nat
           /\ \A l \in Lags : l \in Nat /\ Local(n) - l \in Nat
PROOF
  <1>1. Frame \in Nat \ {0} /\ Lags \subseteq 0 .. Start
    BY ClockAssumption
  <1>2. n * Frame \in Nat
    BY <1>1
  <1>3. 100 * Frame \in Nat
    BY <1>1
  <1> QED BY <1>1, <1>2, <1>3 DEF Local, Start

(***************************************************************************)
(* An observation that overtakes all before is kept, any other is not.     *)
(***************************************************************************)
LEMMA SampleHolds ==
    ASSUME NEW h \in Histories, NEW n \in 1 .. Len(h), h[n] # Nothing,
           NEW c, ClockHas(h, n - 1, c)
    PROVE  LET d == Sample(c, Local(n) - h[n], Local(n))
           IN  ClockHas(h, n, d) /\ (c.synced => d.synced /\ d.offset = c.offset)
PROOF
  <1> DEFINE server == Local(n) - h[n]
             new == [at |-> Local(n), is |-> server - Local(n)]
             d == Sample(c, server, Local(n))
  <1>1. /\ Len(h) \in Nat /\ DOMAIN h = 1 .. Len(h)
        /\ \A m \in 1 .. Len(h) : h[m] \in Lags \cup {Nothing}
    BY HistoryFacts
  <1>2. n \in Nat \ {0} /\ h[n] \in Lags
    BY <1>1
  <1>3. /\ Local(n) \in Nat /\ h[n] \in Nat /\ server \in Nat
        /\ server - Local(n) = -h[n]
    BY <1>2, LocalFacts
  <1>4. n \in Observed(h)
    BY <1>1 DEF Observed
  <1>5. Observed(h) \subseteq 1 .. Len(h) /\ InOrder(h) \subseteq Observed(h)
    BY <1>1 DEF Observed, InOrder
  <1>6. \A m \in Observed(h) : Local(m) - h[m] \in Nat
    <2> TAKE m \in Observed(h)
    <2>1. m \in Nat \ {0} /\ h[m] \in Lags
      BY <1>1 DEF Observed
    <2> QED BY <2>1, LocalFacts
  <1>7. CASE server <= c.last
    <2>1. d = c
      BY <1>7 DEF Sample
    <2>2. c.synced
      BY <1>3, <1>7 DEF ClockHas
    <2>3. PICK m \in Seen(h, n - 1) : Local(m) - h[m] = c.last
      BY <2>2 DEF ClockHas
    <2>4. m \in Observed(h) /\ m < n
      BY <1>1, <1>5 DEF Seen
    <2>5. n \notin InOrder(h)
      BY <1>3, <1>6, <1>7, <2>3, <2>4 DEF InOrder
    <2>6. Seen(h, n) = Seen(h, n - 1)
      BY <1>1, <1>5, <2>5 DEF Seen
    <2>7. \A k \in Observed(h) : k <= n => Local(k) - h[k] <= c.last
      <3> TAKE k \in Observed(h)
      <3>1. k = n \/ ~(k <= n) \/ k <= n - 1
        BY <1>1, <1>5
      <3> QED BY <1>7, <3>1 DEF ClockHas
    <2>8. ClockHas(h, n, c)
      BY <2>6, <2>7 DEF ClockHas
    <2> QED BY <2>1, <2>2, <2>8
  <1>8. CASE ~(server <= c.last)
    <2>1. d = Keep(c, server, Local(n))
      BY <1>8 DEF Sample
    <2>2. /\ d.offset = IF c.synced THEN c.offset ELSE server - Local(n)
          /\ d.synced = TRUE /\ d.last = server
          /\ d.samples = {s \in c.samples \cup {new} : s.at >= Local(n) - Window}
      BY <2>1 DEF Keep
    <2>3. new \in d.samples
      <3>1. new.at >= Local(n) - Window
        BY <1>3, ClockAssumption
      <3> QED BY <2>2, <3>1
    <2>4. \A m \in Observed(h) : m < n => Local(m) - h[m] < server
      <3> TAKE m \in Observed(h)
      <3> HAVE m < n
      <3>1. m <= n - 1
        BY <1>1, <1>5
      <3>2. Local(m) - h[m] <= c.last
        BY <3>1 DEF ClockHas
      <3> QED BY <1>3, <1>6, <1>8, <3>2 DEF ClockHas
    <2>5. n \in InOrder(h)
      BY <1>4, <2>4 DEF InOrder
    <2>6. n \in Seen(h, n) /\ Seen(h, n - 1) \subseteq Seen(h, n)
      BY <1>1, <1>5, <2>5 DEF Seen
    <2>7. \A s \in d.samples : \E m \in Seen(h, n) : s.is = -h[m]
      <3> TAKE s \in d.samples
      <3>1. CASE s = new
        <4>1. s.is = -h[n]
          BY <1>3, <3>1
        <4> QED BY <2>6, <4>1
      <3>2. CASE s # new
        <4>1. s \in c.samples
          BY <2>2, <3>2
        <4> QED BY <2>6, <4>1 DEF ClockHas
      <3> QED BY <3>1, <3>2
    <2>8. \A m \in Observed(h) : m <= n => Local(m) - h[m] <= d.last
      <3> TAKE m \in Observed(h)
      <3> HAVE m <= n
      <3>1. m = n \/ m < n
        BY <1>1, <1>5
      <3> QED BY <1>3, <1>6, <2>2, <2>4, <3>1
    <2>9. \E short, long \in Seen(h, n) : -h[long] <= d.offset /\ d.offset <= -h[short]
      <3>1. CASE c.synced
        <4>1. d.offset = c.offset
          BY <2>2, <3>1
        <4> QED BY <2>6, <3>1, <4>1 DEF ClockHas
      <3>2. CASE ~c.synced
        <4>1. d.offset = -h[n]
          BY <1>3, <2>2, <3>2
        <4> QED BY <1>3, <2>6, <4>1
      <3> QED BY <3>1, <3>2
    <2>10. d.offset \in Int
      BY <1>3, <2>2 DEF ClockHas
    <2>11. ClockHas(h, n, d)
      <3>0. d \in [offset : Int, synced : BOOLEAN, last : Int, samples : SUBSET [at : Int, is : Int]]
        <4>1. new \in [at : Int, is : Int] /\ c.samples \subseteq [at : Int, is : Int]
          BY <1>3 DEF ClockHas
        <4>2. d.samples \subseteq [at : Int, is : Int] /\ d.offset \in Int
          BY <2>2, <2>10, <4>1
        <4> DEFINE off == IF c.synced THEN c.offset ELSE server - Local(n)
                   sam == {s \in c.samples \cup {new} : s.at >= Local(n) - Window}
        <4>3. d = [offset |-> off, synced |-> TRUE, last |-> server, samples |-> sam]
          BY <2>1 DEF Keep
        <4>4. sam \in SUBSET [at : Int, is : Int] /\ off \in Int /\ server \in Int
          BY <1>3, <2>2, <4>2
        <4> HIDE DEF d, server, new, off, sam
        <4> QED BY <4>3, <4>4
      <3>1. d.synced /\ d.last \in Int /\ d.samples # {} /\ Seen(h, n) # {}
        BY <1>3, <2>2, <2>3, <2>6
      <3>2. \E m \in Seen(h, n) : Local(m) - h[m] = d.last
        BY <2>2, <2>6
      <3> HIDE DEF d
      <3> QED BY <2>7, <2>8, <2>9, <2>2, <3>0, <3>1, <3>2 DEF ClockHas
    <2>12. c.synced => d.offset = c.offset
      BY <2>2
    <2> HIDE DEF d
    <2> QED BY <2>2, <2>11, <2>12 DEF d
  <1> QED BY <1>7, <1>8

(***************************************************************************)
(* The target of a clock that has samples is the least lag among them.     *)
(***************************************************************************)
LEMMA TargetFacts ==
    ASSUME NEW h \in Histories, NEW n \in 1 .. Len(h), NEW c, ClockHas(h, n, c), c.synced
    PROVE  \E m \in Seen(h, n) : Target(c) = -h[m] /\ h[m] \in Nat
PROOF
  <1> DEFINE all == {s.is : s \in c.samples}
             lags == {-i : i \in all}
  <1>1. \A m \in Seen(h, n) : h[m] \in Nat
    BY SeenFacts
  <1>2. \A i \in all : \E m \in Seen(h, n) : i = -h[m]
    BY DEF ClockHas
  <1>3. all # {} /\ lags # {}
    BY DEF ClockHas
  <1>4. lags \subseteq Nat /\ all \subseteq Int
    <2>1. ASSUME NEW i \in all PROVE i \in Int /\ -i \in Nat
      <3>1. PICK m \in Seen(h, n) : i = -h[m]
        BY <1>2
      <3> HIDE DEF all
      <3> QED BY <1>1, <3>1
    <2> HIDE DEF all
    <2> QED BY <2>1
  <1>5. Target(c) = CHOOSE i \in all : \A j \in all : j <= i
    BY DEF Target
  <1> HIDE DEF all
  <1>6. \E i \in all : \A j \in all : j <= i
    <2>1. PICK l \in lags : \A k \in lags : l <= k
      <3> HIDE DEF lags
      <3> QED BY <1>3, <1>4, LeastExists
    <2>2. PICK i \in all : l = -i
      OBVIOUS
    <2>3. ASSUME NEW j \in all PROVE j <= i
      <3>1. l <= -j
        BY <2>1
      <3> QED BY <1>4, <2>2, <3>1
    <2> QED BY <2>3
  <1>7. Target(c) \in all
    BY <1>5, <1>6
  <1> QED BY <1>1, <1>2, <1>7

(***************************************************************************)
(* A correction goes towards the target, not past it, nor further than the *)
(* slew.                                                                   *)
(***************************************************************************)
LEMMA CorrectionFacts ==
    ASSUME NEW diff \in Int
    PROVE  /\ Correction(diff) \in Int
           /\ diff >= 0 => 0 <= Correction(diff) /\ Correction(diff) <= diff
           /\ diff <= 0 => diff <= Correction(diff) /\ Correction(diff) <= 0
           /\ Size(Correction(diff)) <= Slew
PROOF
  <1> DEFINE size == Size(diff)
             part == size \div Gain
  <1>1. Gain \in Nat \ {0} /\ Slew \in Nat /\ size \in Nat
    BY ClockAssumption DEF Size
  <1> HIDE DEF size
  <1>2. part \in Int /\ 0 <= part /\ part <= size
    <2>1. /\ part \in Int /\ size % Gain \in Int
          /\ 0 <= size % Gain /\ size % Gain < Gain
          /\ size = Gain * part + (size % Gain)
      BY <1>1, DivFacts
    <2>2. part >= 0
      <3>1. part <= -1 => Gain * part <= -Gain
        BY <1>1, <2>1
      <3> QED BY <1>1, <2>1, <3>1
    <2> HIDE DEF part
    <2>3. part <= Gain * part
      BY <1>1, <2>1, <2>2
    <2> QED BY <1>1, <2>1, <2>2, <2>3
  <1>3. Part(diff) = IF diff < 0 THEN -part ELSE part
    <2>1. -1 * part = -part /\ 1 * part = part
      BY <1>2
    <2>2. Part(diff) = (IF diff < 0 THEN -1 ELSE 1) * part
      BY DEF Part, size
    <2> HIDE DEF part
    <2>3. CASE diff < 0
      BY <1>2, <2>1, <2>2, <2>3
    <2>4. CASE ~(diff < 0)
      BY <1>2, <2>1, <2>2, <2>4
    <2> QED BY <2>3, <2>4
  <1> HIDE DEF part
  <1> QED BY <1>1, <1>2, <1>3 DEF Correction, Clamp, Size, size

(***************************************************************************)
(* An advance takes the estimate from where it was towards the target, and *)
(* not past it; to it, if it was further off than Snap.                    *)
(***************************************************************************)
Goes(was, target) ==
    IF Size(target - was) > Snap THEN target ELSE was + Correction(target - was)

LEMMA GoesFollows ==
    \A was, target \in Int :
        /\ Goes(was, target) \in Int
        /\ target >= was => was <= Goes(was, target) /\ Goes(was, target) <= target
        /\ target <= was => target <= Goes(was, target) /\ Goes(was, target) <= was
        /\ Size(target - Goes(was, target)) <= Snap
        /\ \/ Size(Goes(was, target) - was) <= Slew
           \/ Goes(was, target) = target /\ Size(Goes(was, target) - was) > Snap
PROOF
  <1> TAKE was, target \in Int
  <1> DEFINE diff == target - was
             step == Correction(diff)
             goes == Goes(was, target)
  <1>0. goes = IF Size(diff) > Snap THEN target ELSE was + step
    BY DEF Goes
  <1> HIDE DEF goes
  <1>1. diff \in Int /\ Snap \in Nat /\ Slew \in Nat
    BY ClockAssumption
  <1> HIDE DEF diff
  <1>2. /\ step \in Int /\ Size(step) <= Slew
        /\ diff >= 0 => 0 <= step /\ step <= diff
        /\ diff <= 0 => diff <= step /\ step <= 0
    BY <1>1, CorrectionFacts
  <1> HIDE DEF step
  <1>3. CASE Size(diff) > Snap
    <2>1. goes = target
      BY <1>0, <1>3
    <2> QED BY <1>1, <1>3, <2>1 DEF Size, diff, goes
  <1>4. CASE ~(Size(diff) > Snap)
    <2>1. goes = was + step /\ target = was + diff
      BY <1>0, <1>1, <1>4 DEF diff
    <2>2. goes - was = step /\ target - goes = diff - step /\ goes \in Int
      BY <1>1, <1>2, <2>1
    <2>3. Size(diff - step) <= Snap
      BY <1>1, <1>2, <1>4 DEF Size
    <2>4. /\ target >= was => was <= goes /\ goes <= target
          /\ target <= was => target <= goes /\ goes <= was
      BY <1>1, <1>2, <2>1
    <2> QED BY <1>2, <2>2, <2>3, <2>4 DEF goes
  <1> QED BY <1>3, <1>4

(***************************************************************************)
(* An advance keeps the estimate between two lags seen, and moves it as    *)
(* GoesOn and Follows say.                                                 *)
(***************************************************************************)
LEMMA AdvanceHolds ==
    ASSUME NEW h \in Histories, NEW n \in 1 .. Len(h), NEW c, ClockHas(h, n, c)
    PROVE  LET d == Advance(c)
           IN  /\ ClockHas(h, n, d)
               /\ d.synced = c.synced
               /\ c.synced =>
                    /\ Size(Target(d) - d.offset) <= Snap
                    /\ \/ Size(d.offset - c.offset) <= Slew
                       \/ d.offset = Target(d) /\ Size(d.offset - c.offset) > Snap
PROOF
  <1> DEFINE d == Advance(c)
  <1>1. CASE ~c.synced
    <2>1. d = c
      BY <1>1 DEF Advance
    <2> QED BY <1>1, <2>1
  <1>2. CASE c.synced
    <2> DEFINE target == Target(c)
               offset == Goes(c.offset, target)
    <2>1. PICK best \in Seen(h, n) : target = -h[best] /\ h[best] \in Nat
      BY <1>2, TargetFacts
    <2>2. target \in Int /\ c.offset \in Int
      BY <2>1 DEF ClockHas
    <2>3. d = [c EXCEPT !.offset = offset]
      BY <1>2 DEF Advance, Goes
    <2>4. d.synced = c.synced /\ d.last = c.last /\ d.samples = c.samples
      BY <2>3
    <2>5. Target(d) = target
      BY <2>4 DEF Target
    <2> HIDE DEF target
    <2>6. /\ offset \in Int
          /\ target >= c.offset => c.offset <= offset /\ offset <= target
          /\ target <= c.offset => target <= offset /\ offset <= c.offset
          /\ Size(target - offset) <= Snap
          /\ Size(offset - c.offset) <= Slew \/ (offset = target /\ Size(offset - c.offset) > Snap)
      BY <2>2, GoesFollows
    <2> HIDE DEF offset
    <2>7. /\ d \in [offset : Int, synced : BOOLEAN, last : Int, samples : SUBSET [at : Int, is : Int]]
          /\ d.offset = offset
      <3> HIDE DEF d
      <3> QED BY <2>3, <2>6 DEF ClockHas
    <2>8. PICK short \in Seen(h, n), long \in Seen(h, n) :
              -h[long] <= c.offset /\ c.offset <= -h[short]
      BY <1>2 DEF ClockHas
    <2>9. h[short] \in Nat /\ h[long] \in Nat
      BY SeenFacts
    <2>10. \E near, far \in Seen(h, n) : -h[far] <= offset /\ offset <= -h[near]
      <3>1. CASE target >= c.offset
        <4>1. -h[long] <= offset /\ offset <= -h[best]
          BY <2>1, <2>2, <2>6, <2>8, <2>9, <3>1
        <4> QED BY <4>1
      <3>2. CASE target <= c.offset
        <4>1. -h[best] <= offset /\ offset <= -h[short]
          BY <2>1, <2>2, <2>6, <2>8, <2>9, <3>2
        <4> QED BY <4>1
      <3> QED BY <2>2, <3>1, <3>2
    <2> HIDE DEF d
    <2>11. ClockHas(h, n, d)
      BY <1>2, <2>4, <2>7, <2>10 DEF ClockHas
    <2> QED BY <2>4, <2>5, <2>6, <2>7, <2>11 DEF d
  <1> QED BY <1>1, <1>2

(***************************************************************************)
(* The clock has it after every frame, and an advance goes on as it should *)
(* from the one before.                                                    *)
(***************************************************************************)
LEMMA FrameHolds ==
    ASSUME NEW h \in Histories, NEW n \in 1 .. Len(h),
           NEW c, n > 1 => ClockHas(h, n - 1, c), n = 1 => c = NoClock
    PROVE  LET d == Observe(c, h[n], Local(n))
           IN  /\ ClockHas(h, n, d)
               /\ d.synced => Size(Target(d) - d.offset) <= Snap
               /\ c.synced => \/ Size(d.offset - c.offset) <= Slew
                              \/ d.offset = Target(d) /\ Size(d.offset - c.offset) > Snap
PROOF
  <1> DEFINE e == IF h[n] = Nothing THEN c ELSE Sample(c, Local(n) - h[n], Local(n))
             d == Advance(e)
  <1>0. Len(h) \in Nat /\ DOMAIN h = 1 .. Len(h)
    BY HistoryFacts
  <1>1. ClockHas(h, n - 1, c)
    <2>1. CASE n > 1
      BY <2>1
    <2>2. CASE n = 1
      <3>1. \A m \in Observed(h) : ~(m <= n - 1)
        BY <1>0, <2>2 DEF Observed
      <3>2. Seen(h, n - 1) = {}
        BY <3>1 DEF Seen, InOrder
      <3>3. c = NoClock
        BY <2>2
      <3> QED BY <3>1, <3>2, <3>3 DEF ClockHas, NoClock
    <2> QED BY <1>0, <2>1, <2>2
  <1>2. ClockHas(h, n, e) /\ (c.synced => e.synced /\ e.offset = c.offset)
    <2>1. CASE h[n] = Nothing
      <3>1. n \notin Observed(h)
        BY <2>1 DEF Observed
      <3>2. \A m \in Observed(h) : m <= n => m <= n - 1
        BY <1>0, <3>1 DEF Observed
      <3>3. Seen(h, n) = Seen(h, n - 1)
        <4>1. \A m \in InOrder(h) : (m <= n) <=> (m <= n - 1)
          BY <1>0, <3>2 DEF InOrder, Observed
        <4> QED BY <4>1 DEF Seen
      <3>4. e = c
        BY <2>1
      <3>5. \A m \in Observed(h) : m <= n => Local(m) - h[m] <= c.last
        BY <1>1, <3>2 DEF ClockHas
      <3>6. ClockHas(h, n, c)
        BY <1>1, <3>3, <3>5 DEF ClockHas
      <3> HIDE DEF e
      <3> QED BY <3>4, <3>6
    <2>2. CASE h[n] # Nothing
      BY <1>1, <2>2, SampleHolds
    <2> QED BY <2>1, <2>2
  <1> HIDE DEF e
  <1>3. /\ ClockHas(h, n, d)
        /\ d.synced = e.synced
        /\ e.synced =>
             /\ Size(Target(d) - d.offset) <= Snap
             /\ \/ Size(d.offset - e.offset) <= Slew
                \/ d.offset = Target(d) /\ Size(d.offset - e.offset) > Snap
    BY <1>2, AdvanceHolds
  <1>4. Observe(c, h[n], Local(n)) = d
    BY DEF Observe, e
  <1> HIDE DEF d
  <1> QED BY <1>2, <1>3, <1>4

(***************************************************************************)
(* So it is after every frame: there is no first one after which it is not.*)
(***************************************************************************)
LEMMA ClocksHold ==
    ASSUME NEW h \in Histories, NEW n \in 1 .. Len(h)
    PROVE  ClockHas(h, n, Clocks(h)[n])
PROOF
  <1> DEFINE None == {m \in 1 .. Len(h) : ~ClockHas(h, m, Clocks(h)[m])}
  <1>0. Len(h) \in Nat
    BY HistoryFacts
  <1> SUFFICES ASSUME n \in None PROVE FALSE
    OBVIOUS
  <1>1. PICK m \in None : \A k \in None : m <= k
    <2>1. None \subseteq Nat /\ None # {}
      BY <1>0
    <2> HIDE DEF None
    <2> QED BY <2>1, LeastExists
  <1>2. m \in 1 .. Len(h)
    OBVIOUS
  <1>3. m > 1 => ClockHas(h, m - 1, Clocks(h)[m - 1])
    <2> SUFFICES ASSUME m > 1 PROVE ClockHas(h, m - 1, Clocks(h)[m - 1])
      OBVIOUS
    <2>1. m - 1 \in 1 .. Len(h) /\ ~(m <= m - 1)
      BY <1>0, <1>2
    <2>2. m - 1 \notin None
      BY <1>1, <2>1
    <2> QED BY <2>1, <2>2
  <1>4. m = 1 => Clocks(h)[m - 1] = NoClock
    BY HistoryFacts
  <1>5. ClockHas(h, m, Observe(Clocks(h)[m - 1], h[m], Local(m)))
    <2> DEFINE c == Clocks(h)[m - 1]
    <2>1. (m > 1 => ClockHas(h, m - 1, c)) /\ (m = 1 => c = NoClock)
      BY <1>3, <1>4
    <2> HIDE DEF c
    <2>2. ClockHas(h, m, Observe(c, h[m], Local(m)))
      BY <1>2, <2>1, FrameHolds
    <2> QED BY <2>2 DEF c
  <1>6. Clocks(h)[m] = Observe(Clocks(h)[m - 1], h[m], Local(m))
    BY <1>2, HistoryFacts
  <1> QED BY <1>1, <1>5, <1>6

(***************************************************************************)
(* ClockTrails and ClockGoesOn, of every history.                          *)
(***************************************************************************)
LEMMA ClockFollows == ClockTrails /\ ClockGoesOn
PROOF
  <1> SUFFICES ASSUME NEW h \in Histories PROVE Trails(h) /\ GoesOn(h) /\ Follows(h)
    BY DEF ClockTrails, ClockGoesOn
  <1> DEFINE n == Len(h)
             before == Clocks(h)[n - 1]
             after == Clocks(h)[n]
  <1>1. n \in Nat \ {0} /\ n \in 1 .. n /\ DOMAIN h = 1 .. n
    BY HistoryFacts
  <1>2. ClockHas(h, n, after)
    BY <1>1, ClocksHold
  <1>3. (n > 1 => ClockHas(h, n - 1, before)) /\ (n = 1 => before = NoClock)
    <2>1. n > 1 => n - 1 \in 1 .. n
      BY <1>1
    <2> QED BY <2>1, ClocksHold, HistoryFacts
  <1>4. after = Observe(before, h[n], Local(n))
    BY <1>1, HistoryFacts
  <1> HIDE DEF before, after
  <1>5. /\ after.synced => Size(Target(after) - after.offset) <= Snap
        /\ before.synced => \/ Size(after.offset - before.offset) <= Slew
                            \/ /\ after.offset = Target(after)
                               /\ Size(after.offset - before.offset) > Snap
    BY <1>1, <1>3, <1>4, FrameHolds
  <1>6. Seen(h, n) = InOrder(h)
    BY <1>1 DEF Seen, InOrder, Observed
  <1>7. Trails(h)
    <2> DEFINE lags == {h[m] : m \in InOrder(h)}
    <2>1. after.synced <=> lags # {}
      BY <1>2, <1>6 DEF ClockHas
    <2>2. after.synced => \E short, long \in lags :
                             -long <= after.offset /\ after.offset <= -short
      BY <1>2, <1>6 DEF ClockHas
    <2> HIDE DEF lags
    <2> QED BY <2>1, <2>2 DEF Trails, after, lags
  <1>8. GoesOn(h) /\ Follows(h)
    BY <1>5 DEF GoesOn, Follows, before, after
  <1> QED BY <1>7, <1>8
-----------------------------------------------------------------------------
\* The recursion of Buffers is that of a function that exists, too.
BufferStep(h, g, n) == IF n = 0 THEN <<>> ELSE Push(g[n - 1], h[n])

IsBuffers(h, g, n) == g = [m \in 0 .. n |-> BufferStep(h, g, m)]

\* The least length with no such function has one: what Buffers recurs over exists.
LEMMA BuffersRecursion ==
    ASSUME NEW h, Len(h) \in Nat
    PROVE  IsBuffers(h, Buffers(h), Len(h))
PROOF
  <1>1. \E g : IsBuffers(h, g, Len(h))
    <2> DEFINE None == {n \in 0 .. Len(h) : ~\E g : IsBuffers(h, g, n)}
    <2> SUFFICES ASSUME Len(h) \in None PROVE FALSE
      OBVIOUS
    <2>1. PICK n \in None : \A m \in None : n <= m
      <3>1. None \subseteq Nat /\ None # {}
        OBVIOUS
      <3> HIDE DEF None
      <3> QED BY <3>1, LeastExists
    <2>2. n # 0
      <3> DEFINE g == [m \in 0 .. 0 |-> <<>>]
      <3>1. IsBuffers(h, g, 0)
        BY DEF IsBuffers, BufferStep
      <3> HIDE DEF g
      <3> QED BY <3>1
    <2>3. n - 1 \in 0 .. Len(h) /\ n - 1 \notin None
      BY <2>1, <2>2
    <2>4. PICK g : IsBuffers(h, g, n - 1)
      BY <2>3
    <2> DEFINE f == [m \in 0 .. n |-> BufferStep(h, g, m)]
    <2>5. n \in Nat
      OBVIOUS
    <2>6. \A m \in 0 .. (n - 1) : g[m] = BufferStep(h, g, m)
      BY <2>4 DEF IsBuffers
    <2>7. \A m \in 0 .. (n - 1) : f[m] = g[m]
      BY <2>5, <2>6
    <2>8. ASSUME NEW m \in 0 .. n PROVE BufferStep(h, f, m) = BufferStep(h, g, m)
      <3>1. m = 0 \/ m - 1 \in 0 .. (n - 1)
        BY <2>5
      <3> HIDE DEF f
      <3> QED BY <2>7, <3>1 DEF BufferStep
    <2>9. IsBuffers(h, f, n)
      <3>1. f = [m \in 0 .. n |-> BufferStep(h, f, m)]
        BY <2>8
      <3> QED BY <3>1 DEF IsBuffers
    <2> HIDE DEF f
    <2> QED BY <2>1, <2>9
  <1> DEFINE g == CHOOSE g : IsBuffers(h, g, Len(h))
  <1>2. IsBuffers(h, g, Len(h))
    BY <1>1
  <1>3. Buffers(h) = g
    BY DEF Buffers, IsBuffers, BufferStep
  <1> HIDE DEF g
  <1> QED BY <1>2, <1>3

(***************************************************************************)
(* Arrivals are a sequence of snapshots; the buffers go from the empty one *)
(* by one Push a snapshot.                                                 *)
(***************************************************************************)
LEMMA ArrivalFacts ==
    ASSUME NEW h \in Arrivals
    PROVE  /\ Len(h) \in Nat \ {0} /\ DOMAIN h = 1 .. Len(h)
           /\ \A n \in 1 .. Len(h) : h[n] \in Snapshots
           /\ Buffers(h)[0] = <<>>
           /\ \A n \in 1 .. Len(h) : Buffers(h)[n] = Push(Buffers(h)[n - 1], h[n])
PROOF
  <1>1. PICK n \in 1 .. MaxPushes : h \in [1 .. n -> Snapshots]
    BY DEF Arrivals
  <1>2. n \in Nat \ {0}
    BY BufferAssumption
  <1>3. h \in Seq(Snapshots) /\ Len(h) = n /\ DOMAIN h = 1 .. n
    BY <1>1, <1>2
  <1>4. IsBuffers(h, Buffers(h), n)
    BY <1>2, <1>3, BuffersRecursion
  <1>5. \A m \in 0 .. n : Buffers(h)[m] = BufferStep(h, Buffers(h), m)
    BY <1>4 DEF IsBuffers
  <1> QED BY <1>1, <1>2, <1>3, <1>5 DEF BufferStep

(***************************************************************************)
(* A snapshot has a natural time and an integer position and velocity.     *)
(***************************************************************************)
LEMMA SnapshotFacts ==
    \A s \in Snapshots : /\ s.time \in Nat /\ s.pos \in Int
                         /\ s.vel \in Velocities /\ s.vel \in Int
PROOF
  BY BufferAssumption DEF Snapshots

-----------------------------------------------------------------------------
\* What the buffer has.

(***************************************************************************)
(* idx gives the arrivals that buf holds after n of them: in order, all of *)
(* those in turn from the first one on, no two next to each other further  *)
(* apart than a teleport; and nothing that came is later than the last.    *)
(***************************************************************************)
Lists(h, n, buf, idx) ==
    /\ buf \in Seq(Snapshots) /\ Len(buf) > 0
    /\ idx \in [1 .. Len(buf) -> InTurn(h) \cap (1 .. n)]
    /\ \A i \in 1 .. Len(buf) : buf[i] = h[idx[i]]
    /\ \A i, j \in 1 .. Len(buf) : i < j => idx[i] < idx[j]
    /\ \A m \in InTurn(h) \cap (1 .. n) : m >= idx[1] => \E i \in 1 .. Len(buf) : m = idx[i]
    /\ \A i, j \in 1 .. Len(buf) : j = i + 1 => Distance(buf[j].pos, buf[i].pos) <= Teleport
    /\ \A m \in 1 .. n : h[m].time <= buf[Len(buf)].time

\* Nothing is missing before it, but for a reason.
Starts(h, n, buf, idx) ==
    \/ \A m \in InTurn(h) \cap (1 .. n) : m >= idx[1]
    \/ Len(buf) = MaxSize
    \/ idx[1] \in Jumps(h)

BufferHas(h, n, buf) ==
    /\ Len(buf) <= MaxSize
    /\ \E idx : Lists(h, n, buf, idx) /\ Starts(h, n, buf, idx)

(***************************************************************************)
(* The first snapshot is always kept.                                      *)
(***************************************************************************)
LEMMA FirstPush ==
    ASSUME NEW h \in Arrivals
    PROVE  BufferHas(h, 1, Push(<<>>, h[1]))
PROOF
  <1> DEFINE buf == <<h[1]>>
             idx == [i \in 1 .. 1 |-> 1]
  <1>1. 1 \in DOMAIN h /\ h[1] \in Snapshots
    BY ArrivalFacts
  <1>2. 1 \in InTurn(h)
    BY <1>1 DEF InTurn
  <1>3. Push(<<>>, h[1]) = buf
    BY BufferAssumption DEF Push, Late, Put, Trimmed
  <1>4. buf \in Seq(Snapshots) /\ Len(buf) = 1 /\ buf[1] = h[1]
    BY <1>1
  <1>5. idx \in [1 .. 1 -> InTurn(h) \cap (1 .. 1)] /\ idx[1] = 1
    BY <1>2
  <1>6. h[1].time \in Nat
    BY <1>1, SnapshotFacts
  <1> HIDE DEF buf, idx
  <1>7. Lists(h, 1, buf, idx) /\ Starts(h, 1, buf, idx)
    BY <1>4, <1>5, <1>6 DEF Lists, Starts
  <1>8. Len(buf) <= MaxSize
    BY <1>4, BufferAssumption
  <1> QED BY <1>3, <1>7, <1>8 DEF BufferHas

(***************************************************************************)
(* One that is late is not in turn, one that is not is, after all the      *)
(* others.                                                                 *)
(***************************************************************************)
LEMMA TurnFollows ==
    ASSUME NEW h \in Arrivals, NEW n \in 2 .. Len(h), NEW buf, NEW idx, Lists(h, n - 1, buf, idx)
    PROVE  /\ Late(buf, h[n]) =>
                InTurn(h) \cap (1 .. n) = InTurn(h) \cap (1 .. (n - 1)) /\ h[n].time <= Newest(buf).time
           /\ ~Late(buf, h[n]) =>
                /\ InTurn(h) \cap (1 .. n) = (InTurn(h) \cap (1 .. (n - 1))) \cup {n}
                /\ \A m \in 1 .. n : h[m].time <= h[n].time
           /\ \A m \in InTurn(h) \cap (1 .. (n - 1)) : m <= idx[Len(buf)]
           /\ Newest(buf) = h[idx[Len(buf)]] /\ idx[Len(buf)] \in InTurn(h) \cap (1 .. (n - 1))
PROOF
  <1> DEFINE top == Len(buf)
  <1>1. /\ Len(h) \in Nat /\ DOMAIN h = 1 .. Len(h) /\ n \in 1 .. Len(h)
        /\ \A m \in 1 .. Len(h) : h[m] \in Snapshots /\ h[m].time \in Nat
    BY ArrivalFacts, SnapshotFacts
  <1>2. top \in Nat \ {0} /\ top \in 1 .. top /\ 1 \in 1 .. top
    BY DEF Lists
  <1>3. idx[top] \in InTurn(h) \cap (1 .. (n - 1)) /\ idx[1] \in 1 .. (n - 1)
    BY <1>2 DEF Lists
  <1>4. Newest(buf) = h[idx[top]]
    BY <1>2 DEF Newest, Lists
  <1>5. \A m \in InTurn(h) \cap (1 .. (n - 1)) : m <= idx[top]
    <2> TAKE m \in InTurn(h) \cap (1 .. (n - 1))
    <2>1. idx[1] <= idx[top]
      BY <1>2, <1>3 DEF Lists
    <2>2. CASE m >= idx[1]
      <3>1. PICK i \in 1 .. top : m = idx[i]
        BY <2>2 DEF Lists
      <3>2. i = top \/ i < top
        BY <1>2
      <3> QED BY <1>2, <1>3, <3>1, <3>2 DEF Lists
    <2>3. CASE ~(m >= idx[1])
      BY <1>3, <2>1, <2>3
    <2> QED BY <2>2, <2>3
  <1>6. \A m \in 1 .. (n - 1) : h[m].time <= h[idx[top]].time
    BY <1>4 DEF Lists, Newest
  <1>7. idx[top] \in 1 .. (n - 1) /\ h[idx[top]].time \in Nat
    BY <1>1, <1>3
  <1>8. Late(buf, h[n]) <=> h[n].time <= h[idx[top]].time
    BY <1>2, <1>4 DEF Late
  <1>9. ASSUME Late(buf, h[n])
        PROVE  InTurn(h) \cap (1 .. n) = InTurn(h) \cap (1 .. (n - 1)) /\ h[n].time <= Newest(buf).time
    <2>1. n \notin InTurn(h)
      BY <1>1, <1>7, <1>8, <1>9 DEF InTurn
    <2> QED BY <1>1, <1>4, <1>8, <1>9, <2>1
  <1>10. ASSUME ~Late(buf, h[n])
         PROVE  /\ InTurn(h) \cap (1 .. n) = (InTurn(h) \cap (1 .. (n - 1))) \cup {n}
                /\ \A m \in 1 .. n : h[m].time <= h[n].time
    <2>1. \A m \in 1 .. (n - 1) : h[m].time < h[n].time
      <3> TAKE m \in 1 .. (n - 1)
      <3>1. h[m].time \in Nat /\ h[n].time \in Nat
        BY <1>1
      <3> QED BY <1>6, <1>7, <1>8, <1>10, <3>1
    <2>2. n \in InTurn(h)
      BY <1>1, <2>1 DEF InTurn
    <2>3. \A m \in 1 .. n : h[m].time <= h[n].time
      <3> TAKE m \in 1 .. n
      <3>1. m = n \/ m \in 1 .. (n - 1)
        OBVIOUS
      <3> QED BY <1>1, <2>1, <3>1
    <2> QED BY <1>1, <2>2, <2>3
  <1> QED BY <1>3, <1>4, <1>5, <1>9, <1>10

(***************************************************************************)
(* A list goes on with the next in turn that is no teleport away, or from  *)
(* it alone.                                                               *)
(***************************************************************************)
LEMMA AppendLists ==
    ASSUME NEW h \in Arrivals, NEW n \in 2 .. Len(h), NEW buf, NEW idx, Lists(h, n - 1, buf, idx),
           ~Late(buf, h[n]), Distance(h[n].pos, Newest(buf).pos) <= Teleport
    PROVE  Lists(h, n, Append(buf, h[n]),
                 [i \in 1 .. Len(buf) + 1 |-> IF i = Len(buf) + 1 THEN n ELSE idx[i]])
PROOF
  <1> DEFINE top == Len(buf)
             s == h[n]
             new == Append(buf, s)
             jdx == [i \in 1 .. top + 1 |-> IF i = top + 1 THEN n ELSE idx[i]]
             turn == InTurn(h) \cap (1 .. (n - 1))
  <1>1. s \in Snapshots /\ n \in Nat
    BY ArrivalFacts
  <1>2. /\ InTurn(h) \cap (1 .. n) = turn \cup {n}
        /\ \A m \in 1 .. n : h[m].time <= s.time
    BY TurnFollows
  <1>3. buf \in Seq(Snapshots) /\ top \in Nat \ {0} /\ idx \in [1 .. top -> turn]
    BY DEF Lists
  <1>4. new \in Seq(Snapshots) /\ Len(new) = top + 1 /\ new[top + 1] = s
        /\ \A i \in 1 .. top : new[i] = buf[i]
    BY <1>1, <1>3
  <1>5. /\ jdx[top + 1] = n
        /\ \A i \in 1 .. top : jdx[i] = idx[i]
        /\ jdx \in [1 .. top + 1 -> InTurn(h) \cap (1 .. n)]
    BY <1>2, <1>3
  <1>6. \A i \in 1 .. top + 1 : i = top + 1 \/ i \in 1 .. top
    BY <1>3
  <1>7. \A i \in 1 .. top : idx[i] \in turn /\ idx[i] < n
    BY <1>1, <1>3
  <1> HIDE DEF new, jdx, turn, s
  <1>8. \A i \in 1 .. top + 1 : new[i] = h[jdx[i]]
    BY <1>4, <1>5, <1>6 DEF Lists, s
  <1>9. \A i, j \in 1 .. top + 1 : i < j => jdx[i] < jdx[j]
    <2> TAKE i, j \in 1 .. top + 1
    <2> HAVE i < j
    <2>1. i \in 1 .. top
      BY <1>3
    <2>2. CASE j = top + 1
      BY <1>5, <1>7, <2>1, <2>2
    <2>3. CASE j \in 1 .. top
      BY <1>5, <2>1, <2>3 DEF Lists
    <2> QED BY <1>6, <2>2, <2>3
  <1>10. \A m \in InTurn(h) \cap (1 .. n) : m >= jdx[1] => \E i \in 1 .. top + 1 : m = jdx[i]
    <2> TAKE m \in InTurn(h) \cap (1 .. n)
    <2> HAVE m >= jdx[1]
    <2>1. CASE m = n
      BY <1>3, <1>5, <2>1
    <2>2. CASE m \in turn
      <3>1. m >= idx[1]
        BY <1>3, <1>5
      <3>2. PICK i \in 1 .. top : m = idx[i]
        BY <2>2, <3>1 DEF Lists, turn
      <3> QED BY <1>3, <1>5, <3>2
    <2> QED BY <1>2, <2>1, <2>2
  <1>11. \A i, j \in 1 .. top + 1 : j = i + 1 => Distance(new[j].pos, new[i].pos) <= Teleport
    <2> TAKE i, j \in 1 .. top + 1
    <2> HAVE j = i + 1
    <2>1. i \in 1 .. top
      BY <1>3
    <2>2. CASE j = top + 1
      <3>1. i = top /\ new[i] = Newest(buf)
        BY <1>3, <1>4, <2>1, <2>2 DEF Newest
      <3> QED BY <1>4, <2>2, <3>1 DEF s
    <2>3. CASE j \in 1 .. top
      BY <1>4, <2>1, <2>3 DEF Lists
    <2> QED BY <1>6, <2>2, <2>3
  <1>12. Lists(h, n, new, jdx)
    BY <1>2, <1>3, <1>4, <1>5, <1>8, <1>9, <1>10, <1>11 DEF Lists
  <1> QED BY <1>12 DEF new, jdx, s

(***************************************************************************)
(* A list without its first is a list.                                     *)
(***************************************************************************)
LEMMA TailLists ==
    ASSUME NEW h \in Arrivals, NEW n \in Nat, NEW buf, NEW idx, Lists(h, n, buf, idx), Len(buf) > 1
    PROVE  Lists(h, n, Tail(buf), [i \in 1 .. Len(buf) - 1 |-> idx[i + 1]])
PROOF
  <1> DEFINE top == Len(buf) - 1
             new == Tail(buf)
             jdx == [i \in 1 .. top |-> idx[i + 1]]
             turn == InTurn(h) \cap (1 .. n)
  <1>1. buf \in Seq(Snapshots) /\ top \in Nat \ {0} /\ Len(buf) = top + 1
        /\ idx \in [1 .. top + 1 -> turn]
    BY DEF Lists
  <1>2. new \in Seq(Snapshots) /\ Len(new) = top /\ \A i \in 1 .. top : new[i] = buf[i + 1]
    BY <1>1
  <1>3. jdx \in [1 .. top -> turn] /\ \A i \in 1 .. top : jdx[i] = idx[i + 1] /\ i + 1 \in 1 .. top + 1
    BY <1>1
  <1>0. turn \subseteq Nat
    OBVIOUS
  <1> HIDE DEF new, jdx, turn, top
  <1>4. \A i \in 1 .. top + 1 : idx[i] \in Nat
    BY <1>0, <1>1
  <1>5. \A i \in 1 .. top : new[i] = h[jdx[i]]
    BY <1>1, <1>2, <1>3 DEF Lists
  <1>6. \A i, j \in 1 .. top : i < j => jdx[i] < jdx[j]
    BY <1>1, <1>3 DEF Lists
  <1>7. \A m \in turn : m >= jdx[1] => \E i \in 1 .. top : m = jdx[i]
    <2> TAKE m \in turn
    <2> HAVE m >= jdx[1]
    <2>1. jdx[1] = idx[2] /\ idx[1] < idx[2] /\ m \in Nat
      BY <1>1, <1>3 DEF Lists, turn
    <2>2. m >= idx[1] /\ m # idx[1]
      BY <1>1, <1>4, <2>1
    <2>3. PICK i \in 1 .. top + 1 : m = idx[i]
      BY <1>1, <2>2 DEF Lists, turn
    <2>4. i - 1 \in 1 .. top /\ (i - 1) + 1 = i
      BY <1>1, <2>2, <2>3
    <2> QED BY <1>3, <2>3, <2>4
  <1>8. \A i, j \in 1 .. top : j = i + 1 => Distance(new[j].pos, new[i].pos) <= Teleport
    BY <1>1, <1>2, <1>3 DEF Lists
  <1>9. new[top] = buf[Len(buf)]
    BY <1>1, <1>2
  <1>10. Lists(h, n, new, jdx)
    BY <1>1, <1>2, <1>3, <1>5, <1>6, <1>7, <1>8, <1>9 DEF Lists, turn
  <1> QED BY <1>10 DEF new, jdx, top

(***************************************************************************)
(* A push keeps what the buffer has.                                       *)
(***************************************************************************)
LEMMA PushHolds ==
    ASSUME NEW h \in Arrivals, NEW n \in 2 .. Len(h), NEW buf, BufferHas(h, n - 1, buf)
    PROVE  BufferHas(h, n, Push(buf, h[n]))
PROOF
  <1> DEFINE s == h[n]
             top == Len(buf)
             turn == InTurn(h) \cap (1 .. (n - 1))
  <1>0. PICK idx : Lists(h, n - 1, buf, idx) /\ Starts(h, n - 1, buf, idx)
    BY DEF BufferHas
  <1>1. /\ s \in Snapshots /\ n \in Nat /\ n \in 1 .. Len(h) /\ MaxSize \in Nat \ {0}
        /\ Teleport \in Nat
    BY ArrivalFacts, BufferAssumption
  <1>2. buf \in Seq(Snapshots) /\ top \in Nat \ {0} /\ idx \in [1 .. top -> turn] /\ top <= MaxSize
    BY <1>0 DEF Lists, BufferHas
  <1>3. /\ Late(buf, s) => InTurn(h) \cap (1 .. n) = turn /\ s.time <= Newest(buf).time
        /\ ~Late(buf, s) =>
             /\ InTurn(h) \cap (1 .. n) = turn \cup {n}
             /\ \A m \in 1 .. n : h[m].time <= s.time
        /\ \A m \in turn : m <= idx[top]
        /\ Newest(buf) = h[idx[top]] /\ idx[top] \in turn
    BY <1>0, TurnFollows
  <1>4. CASE Late(buf, s)
    <2>1. Push(buf, s) = buf
      BY <1>4 DEF Push
    <2>2. \A m \in 1 .. n : h[m].time <= buf[top].time
      <3> TAKE m \in 1 .. n
      <3>1. m = n \/ m \in 1 .. (n - 1)
        BY <1>1
      <3> QED BY <1>0, <1>3, <1>4, <3>1 DEF Lists, Newest
    <2>3. InTurn(h) \cap (1 .. n) = InTurn(h) \cap (1 .. (n - 1))
      BY <1>3, <1>4
    <2>4. Lists(h, n, buf, idx)
      BY <1>0, <2>2, <2>3 DEF Lists
    <2>5. Starts(h, n, buf, idx)
      BY <1>0, <2>3 DEF Starts
    <2> QED BY <1>2, <2>1, <2>4, <2>5 DEF BufferHas
  <1>5. CASE ~Late(buf, s) /\ Distance(s.pos, Newest(buf).pos) > Teleport
    <2> DEFINE new == <<s>>
               jdx == [i \in 1 .. 1 |-> n]
    <2>1. Push(buf, s) = new
      <3>1. buf # <<>>
        BY <1>2
      <3>2. Append(<<>>, s) = new /\ Len(new) = 1
        BY <1>1
      <3> QED BY <1>1, <1>5, <3>1, <3>2 DEF Push, Put, Trimmed
    <2>2. new \in Seq(Snapshots) /\ Len(new) = 1 /\ new[1] = s
      BY <1>1
    <2>3. jdx[1] = n /\ jdx \in [1 .. 1 -> InTurn(h) \cap (1 .. n)]
      BY <1>3, <1>5
    <2>4. n \in Jumps(h)
      <3>1. n \in InTurn(h) /\ idx[top] \in InTurn(h) /\ idx[top] < n
        BY <1>1, <1>3, <1>5
      <3>2. \A j \in InTurn(h) : j <= idx[top] \/ j >= n
        <4> TAKE j \in InTurn(h)
        <4>1. j \in Nat \ {0}
          BY ArrivalFacts DEF InTurn
        <4>2. j >= n \/ j \in turn
          BY <1>1, <4>1
        <4> QED BY <1>3, <4>2
      <3>3. Distance(h[n].pos, h[idx[top]].pos) > Teleport
        BY <1>3, <1>5
      <3> QED BY <3>1, <3>2, <3>3 DEF Jumps
    <2> HIDE DEF new, jdx, s
    <2>5. Lists(h, n, new, jdx)
      <3>1. \A m \in InTurn(h) \cap (1 .. n) : m >= n => m = n
        BY <1>1
      <3>2. \A i \in 1 .. 1 : i = 1
        OBVIOUS
      <3>3. \A i, j \in 1 .. 1 : ~(i < j) /\ j # i + 1
        OBVIOUS
      <3> QED BY <1>3, <1>5, <2>2, <2>3, <3>1, <3>2, <3>3 DEF Lists, s
    <2>6. Starts(h, n, new, jdx)
      BY <2>3, <2>4 DEF Starts
    <2>7. Len(new) <= MaxSize
      BY <1>1, <2>2
    <2> QED BY <2>1, <2>5, <2>6, <2>7 DEF BufferHas, s
  <1>6. CASE ~Late(buf, s) /\ ~(Distance(s.pos, Newest(buf).pos) > Teleport)
    <2> DEFINE more == Append(buf, s)
               jdx == [i \in 1 .. top + 1 |-> IF i = top + 1 THEN n ELSE idx[i]]
    <2>1. Distance(s.pos, Newest(buf).pos) <= Teleport
      <3>1. Newest(buf) \in Snapshots
        BY <1>2 DEF Newest
      <3> QED BY <1>1, <1>6, <3>1, SnapshotFacts DEF Distance
    <2>2. Lists(h, n, more, jdx)
      BY <1>0, <1>6, <2>1, AppendLists
    <2>3. Len(more) = top + 1 /\ jdx[1] = idx[1]
      BY <1>1, <1>2
    <2>4. Push(buf, s) = Trimmed(more)
      BY <1>6 DEF Push, Put
    <2> HIDE DEF more, jdx
    <2>5. CASE Len(more) <= MaxSize
      <3>1. Push(buf, s) = more
        BY <1>1, <1>2, <2>3, <2>4, <2>5 DEF Trimmed
      <3>2. Len(buf) # MaxSize
        BY <1>1, <1>2, <2>3, <2>5
      <3>3. Starts(h, n, more, jdx)
        <4>1. CASE \A m \in turn : m >= idx[1]
          <5>1. idx[1] \in turn /\ n >= idx[1]
            BY <1>1, <1>2
          <5>2. \A m \in InTurn(h) \cap (1 .. n) : m >= jdx[1]
            BY <1>3, <1>6, <2>3, <4>1, <5>1
          <5> QED BY <5>2 DEF Starts
        <4>2. CASE idx[1] \in Jumps(h)
          BY <2>3, <4>2 DEF Starts
        <4> QED BY <1>0, <3>2, <4>1, <4>2 DEF Starts
      <3> QED BY <2>2, <2>5, <3>1, <3>3 DEF BufferHas
    <2>6. CASE ~(Len(more) <= MaxSize)
      <3> DEFINE new == Tail(more)
                 kdx == [i \in 1 .. Len(more) - 1 |-> jdx[i + 1]]
      <3>1. Push(buf, s) = new /\ Len(more) > 1 /\ top = MaxSize
        BY <1>1, <1>2, <2>3, <2>4, <2>6 DEF Trimmed
      <3>2. Lists(h, n, new, kdx)
        BY <1>1, <2>2, <3>1, TailLists
      <3>3. Len(new) = MaxSize
        <4>1. more \in Seq(Snapshots)
          BY <2>2 DEF Lists
        <4> QED BY <1>2, <2>3, <3>1, <4>1
      <3> HIDE DEF new, kdx
      <3>4. Starts(h, n, new, kdx)
        BY <3>3 DEF Starts
      <3>5. Len(new) <= MaxSize
        BY <1>1, <3>3
      <3> QED BY <3>1, <3>2, <3>4, <3>5 DEF BufferHas
    <2> QED BY <2>5, <2>6
  <1> QED BY <1>4, <1>5, <1>6

(***************************************************************************)
(* So it is after every arrival: there is no first after which it is not.  *)
(***************************************************************************)
LEMMA BuffersHold ==
    ASSUME NEW h \in Arrivals, NEW n \in 1 .. Len(h)
    PROVE  BufferHas(h, n, Buffers(h)[n])
PROOF
  <1> DEFINE None == {m \in 1 .. Len(h) : ~BufferHas(h, m, Buffers(h)[m])}
  <1>0. Len(h) \in Nat
    BY ArrivalFacts
  <1> SUFFICES ASSUME n \in None PROVE FALSE
    OBVIOUS
  <1>1. PICK m \in None : \A k \in None : m <= k
    <2>1. None \subseteq Nat /\ None # {}
      BY <1>0
    <2> HIDE DEF None
    <2> QED BY <2>1, LeastExists
  <1>2. m \in 1 .. Len(h) /\ Buffers(h)[m] = Push(Buffers(h)[m - 1], h[m])
    BY ArrivalFacts
  <1>3. CASE m = 1
    <2>1. Buffers(h)[m] = Push(<<>>, h[1])
      BY <1>2, <1>3, ArrivalFacts
    <2> QED BY <1>3, <2>1, FirstPush
  <1>4. CASE m # 1
    <2>1. m \in 2 .. Len(h) /\ m - 1 \in 1 .. Len(h) /\ ~(m <= m - 1)
      BY <1>0, <1>2, <1>4
    <2>2. BufferHas(h, m - 1, Buffers(h)[m - 1])
      BY <1>1, <2>1
    <2>3. BufferHas(h, m, Buffers(h)[m])
      BY <1>2, <2>1, <2>2, PushHolds
    <2> QED BY <2>3
  <1> QED BY <1>3, <1>4

\* The arrivals that buf holds after its i-th.
Later(buf, idx, i) == {idx[j] : j \in (i + 1) .. Len(buf)}

(***************************************************************************)
(* There are as many of them as snapshots after the i-th.                  *)
(***************************************************************************)
LEMMA LaterCount ==
    ASSUME NEW h \in Arrivals, NEW buf, NEW idx, Lists(h, Len(h), buf, idx),
           NEW i \in 0 .. Len(buf)
    PROVE  IsFiniteSet(Later(buf, idx, i)) /\ Cardinality(Later(buf, idx, i)) = Len(buf) - i
PROOF
  <1> DEFINE top == Len(buf)
             all == (i + 1) .. top
             later == {idx[j] : j \in all}
             f == [j \in all |-> idx[j]]
  <1>1. top \in Nat /\ i \in Nat /\ i <= top /\ \A j \in all : j \in 1 .. top
    BY DEF Lists
  <1>2. \A j, k \in 1 .. top : j < k => idx[j] < idx[k]
    BY DEF Lists
  <1>3. \A j \in 1 .. top : idx[j] \in Nat
    BY ArrivalFacts DEF Lists, InTurn
  <1>4. IsFiniteSet(all) /\ Cardinality(all) = top - i
    <2>1. i + 1 \in Int /\ top \in Int
      BY <1>1
    <2> HIDE DEF top
    <2>2. /\ IsFiniteSet(all)
          /\ Cardinality(all) = IF i + 1 > top THEN 0 ELSE top - (i + 1) + 1
      BY <2>1, FS_Interval
    <2> QED BY <1>1, <2>2
  <1>5. f \in Bijection(all, later)
    <2>1. f \in [all -> later]
      OBVIOUS
    <2>2. ASSUME NEW j \in all, NEW k \in all, f[j] = f[k] PROVE j = k
      <3>1. idx[j] = idx[k] /\ j \in 1 .. top /\ k \in 1 .. top
        BY <1>1, <2>2
      <3> HIDE DEF f, all
      <3> QED BY <1>2, <1>3, <3>1
    <2>3. ASSUME NEW m \in later PROVE \E j \in all : f[j] = m
      OBVIOUS
    <2> HIDE DEF f, all, later
    <2> QED BY <2>1, <2>2, <2>3 DEF Bijection, Injection, Surjection, IsInjective
  <1> HIDE DEF f, all, later
  <1>6. IsFiniteSet(later) /\ Cardinality(later) = Cardinality(all)
    BY <1>4, <1>5, FS_Bijection DEF ExistsBijection
  <1> QED BY <1>4, <1>6 DEF Later, later, all

(***************************************************************************)
(* What the buffer has are the newest in turn since the last teleport.     *)
(***************************************************************************)
LEMMA BufferNewest ==
    ASSUME NEW h \in Arrivals, NEW buf, BufferHas(h, Len(h), buf)
    PROVE  HasNewest(buf, h)
PROOF
  <1> DEFINE top == Len(buf)
  <1>0. PICK idx : Lists(h, Len(h), buf, idx) /\ Starts(h, Len(h), buf, idx)
    BY DEF BufferHas
  <1>1. /\ Len(h) \in Nat /\ DOMAIN h = 1 .. Len(h)
        /\ \A n \in 1 .. Len(h) : h[n] \in Snapshots
        /\ MaxSize \in Nat \ {0} /\ Teleport \in Nat
    BY ArrivalFacts, BufferAssumption
  <1>2. InTurn(h) \subseteq 1 .. Len(h) /\ InTurn(h) \cap (1 .. Len(h)) = InTurn(h)
    BY <1>1 DEF InTurn
  <1>3. /\ buf \in Seq(Snapshots) /\ top \in Nat \ {0} /\ top <= MaxSize /\ DOMAIN buf = 1 .. top
        /\ \A i \in 1 .. top : idx[i] \in InTurn(h) /\ idx[i] \in Nat /\ buf[i] = h[idx[i]]
        /\ \A i, j \in 1 .. top : i < j => idx[i] < idx[j]
        /\ \A m \in InTurn(h) : m >= idx[1] => \E i \in 1 .. top : m = idx[i]
    <2>1. buf \in Seq(Snapshots) /\ Len(buf) > 0 /\ top <= MaxSize /\ idx \in [1 .. top -> InTurn(h)]
      BY <1>0, <1>2 DEF Lists, BufferHas
    <2>2. \A i \in 1 .. top : idx[i] \in InTurn(h) /\ idx[i] \in Nat
      BY <1>2, <2>1
    <2>3. \A i \in 1 .. top : buf[i] = h[idx[i]]
      BY <1>0 DEF Lists
    <2>4. \A i, j \in 1 .. top : i < j => idx[i] < idx[j]
      BY <1>0 DEF Lists
    <2>5. \A m \in InTurn(h) : m >= idx[1] => \E i \in 1 .. top : m = idx[i]
      BY <1>0, <1>2 DEF Lists
    <2> QED BY <2>1, <2>2, <2>3, <2>4, <2>5
  <1>4. ASSUME NEW i \in 1 .. top PROVE idx[i] \in Kept(h)
    <2>1. \A n \in Jumps(h) : n <= idx[i]
      <3>0. \A n \in Jumps(h) : n \in Nat
        BY <1>2 DEF Jumps
      <3> SUFFICES ASSUME NEW n \in Jumps(h), n > idx[i] PROVE FALSE
        BY <1>3, <3>0
      <3>1. PICK m \in InTurn(h) :
               /\ n \in InTurn(h) /\ m < n /\ \A j \in InTurn(h) : j <= m \/ j >= n
               /\ Distance(h[n].pos, h[m].pos) > Teleport
        BY DEF Jumps
      <3>2. m \in Nat /\ n \in Nat
        BY <1>2, <3>1
      <3>3. m >= idx[i]
        BY <1>3, <3>1, <3>2
      <3>4. idx[i] >= idx[1]
        BY <1>3
      <3>5. PICK a \in 1 .. top : m = idx[a]
        BY <1>3, <3>2, <3>3, <3>4
      <3>6. PICK b \in 1 .. top : n = idx[b]
        BY <1>3, <3>1, <3>2, <3>4
      <3>7. a < b
        BY <1>3, <3>1, <3>2, <3>5, <3>6
      <3>8. b = a + 1
        <4> SUFFICES ASSUME b # a + 1 PROVE FALSE
          OBVIOUS
        <4>1. a + 1 \in 1 .. top /\ a < a + 1 /\ a + 1 < b
          BY <1>3, <3>7
        <4>2. m < idx[a + 1] /\ idx[a + 1] < n /\ idx[a + 1] \in InTurn(h)
          BY <1>3, <3>5, <3>6, <4>1
        <4> QED BY <1>2, <3>1, <3>2, <4>2
      <3>9. Distance(buf[b].pos, buf[a].pos) <= Teleport
        BY <1>0, <3>8 DEF Lists
      <3>10. h[n] \in Snapshots /\ h[m] \in Snapshots
        BY <1>1, <1>2, <3>1
      <3>11. Distance(h[n].pos, h[m].pos) \in Int
        BY <3>10, SnapshotFacts DEF Distance
      <3> QED BY <1>1, <1>3, <3>1, <3>5, <3>6, <3>9, <3>11
    <2>2. {m \in InTurn(h) : m > idx[i]} = {idx[j] : j \in (i + 1) .. top}
      <3>1. ASSUME NEW m \in InTurn(h), m > idx[i] PROVE \E j \in (i + 1) .. top : m = idx[j]
        <4>1. m \in Nat /\ idx[i] >= idx[1]
          BY <1>2, <1>3
        <4>2. PICK j \in 1 .. top : m = idx[j]
          BY <1>3, <3>1, <4>1
        <4>3. i < j
          BY <1>3, <3>1, <4>2
        <4> QED BY <4>2, <4>3
      <3>2. ASSUME NEW j \in (i + 1) .. top PROVE idx[j] \in InTurn(h) /\ idx[j] > idx[i]
        <4>1. j \in 1 .. top /\ i < j
          BY <1>3
        <4> QED BY <1>3, <4>1
      <3> QED BY <3>1, <3>2
    <2>3. Cardinality({m \in InTurn(h) : m > idx[i]}) = top - i
      <3>1. i \in 0 .. Len(buf)
        BY <1>3
      <3>2. Cardinality(Later(buf, idx, i)) = Len(buf) - i
        BY <1>0, <3>1, LaterCount
      <3> QED BY <2>2, <3>2 DEF Later
    <2>4. top - i < MaxSize
      BY <1>1, <1>3
    <2> QED BY <1>3, <2>1, <2>3, <2>4 DEF Kept
  <1>5. ASSUME NEW n \in Kept(h) PROVE \E i \in 1 .. top : n = idx[i]
    <2>1. /\ n \in InTurn(h) /\ n \in Nat
          /\ \A j \in Jumps(h) : j <= n
          /\ Cardinality({m \in InTurn(h) : m > n}) < MaxSize
      BY <1>2 DEF Kept
    <2> SUFFICES ASSUME ~(n >= idx[1]) PROVE FALSE
      BY <1>3, <2>1
    <2>2. idx[1] \in Nat /\ n < idx[1]
      BY <1>3, <2>1
    <2>3. top = MaxSize
      BY <1>0, <1>2, <2>1, <2>2 DEF Starts
    <2> DEFINE later == {m \in InTurn(h) : m > n}
               list == Later(buf, idx, 0)
    <2>4. IsFiniteSet(list) /\ Cardinality(list) = MaxSize
      <3>1. 0 \in 0 .. top
        BY <1>3
      <3> QED BY <1>0, <1>1, <2>3, <3>1, LaterCount
    <2>5. list \subseteq later
      <3> SUFFICES ASSUME NEW m \in list PROVE m \in later
        OBVIOUS
      <3>1. PICK j \in 1 .. top : m = idx[j]
        BY DEF Later
      <3>2. idx[j] >= idx[1]
        BY <1>3
      <3> QED BY <1>3, <2>1, <2>2, <3>1, <3>2
    <2>6. IsFiniteSet(later)
      <3>1. IsFiniteSet(1 .. Len(h)) /\ later \subseteq 1 .. Len(h)
        BY <1>1, <1>2, FS_Interval
      <3> HIDE DEF later
      <3> QED BY <3>1, FS_Subset
    <2> HIDE DEF later, list
    <2>7. Cardinality(list) <= Cardinality(later)
      BY <2>5, <2>6, FS_Subset
    <2>8. Cardinality(later) \in Nat
      BY <2>6, FS_CardinalityType
    <2> QED BY <1>1, <2>1, <2>4, <2>7, <2>8 DEF later
  <1>6. {buf[k] : k \in DOMAIN buf} = {h[n] : n \in Kept(h)}
    <2>1. ASSUME NEW k \in DOMAIN buf PROVE \E n \in Kept(h) : buf[k] = h[n]
      BY <1>3, <1>4
    <2>2. ASSUME NEW n \in Kept(h) PROVE \E k \in DOMAIN buf : h[n] = buf[k]
      BY <1>3, <1>5
    <2> QED BY <2>1, <2>2
  <1>7. \A j, k \in DOMAIN buf : j < k => buf[j].time < buf[k].time
    <2> TAKE j, k \in DOMAIN buf
    <2> HAVE j < k
    <2>1. idx[j] < idx[k] /\ idx[k] \in InTurn(h) /\ idx[j] \in InTurn(h)
      BY <1>3
    <2>2. idx[j] \in 1 .. (idx[k] - 1)
      BY <1>2, <1>3, <2>1
    <2> QED BY <1>3, <2>1, <2>2 DEF InTurn
  <1> QED BY <1>6, <1>7 DEF HasNewest

-----------------------------------------------------------------------------
\* What is shown.

(***************************************************************************)
(* A part of a way is neither against it nor longer.                       *)
(***************************************************************************)
LEMMA PartOfWay ==
    ASSUME NEW d \in Int, NEW t \in Nat \ {0}, NEW x \in 0 .. t
    PROVE  LET q == (d * x) \div t
           IN  /\ q \in Int
               /\ d >= 0 => 0 <= q /\ q <= d
               /\ d <= 0 => d <= q /\ q <= 0
               /\ x = 0 => q = 0
PROOF
  <1> DEFINE n == d * x
             q == n \div t
             r == n % t
  <1>1. n \in Int /\ x \in Nat /\ x <= t
    OBVIOUS
  <1>2. q \in Int /\ r \in Int /\ 0 <= r /\ r < t /\ n = t * q + r
    <2> HIDE DEF n
    <2> QED BY <1>1, DivFacts
  <1>3. x = 0 => n = 0
    OBVIOUS
  <1>4. d >= 0 => 0 <= n /\ n <= t * d
    BY <1>1
  <1>5. d <= 0 => t * d <= n /\ n <= 0
    BY <1>1
  <1> HIDE DEF n, q, r
  <1>6. q <= -1 => t * q <= -t
    BY <1>2
  <1>7. q >= 1 => t * q >= t
    BY <1>2
  <1>8. q >= d + 1 => t * q >= t * d + t
    <2>1. q >= d + 1 => t * (q - d) >= t
      BY <1>2
    <2>2. t * (q - d) = t * q - t * d
      BY <1>2
    <2>3. t * q \in Int /\ t * d \in Int
      BY <1>2
    <2> QED BY <2>1, <2>2, <2>3
  <1>9. q <= d - 1 => t * q <= t * d - t
    <2>1. q <= d - 1 => t * (d - q) >= t
      BY <1>2
    <2>2. t * (d - q) = t * d - t * q
      BY <1>2
    <2>3. t * q \in Int /\ t * d \in Int
      BY <1>2
    <2> QED BY <2>1, <2>2, <2>3
  <1>10. t * q \in Int /\ t * d \in Int
    BY <1>2
  <1>11. d >= 0 => 0 <= q /\ q <= d
    BY <1>1, <1>2, <1>4, <1>6, <1>8, <1>10
  <1>12. d <= 0 => d <= q /\ q <= 0
    BY <1>1, <1>2, <1>5, <1>7, <1>9, <1>10
  <1>13. x = 0 => q = 0
    BY <1>2, <1>3, <1>6, <1>7
  <1> QED BY <1>2, <1>11, <1>12, <1>13 DEF n, q

\* What a list of arrivals in turn is, of itself.
Runs(buf) ==
    /\ buf \in Seq(Snapshots) /\ Len(buf) > 0
    /\ \A i, j \in 1 .. Len(buf) : i < j => buf[i].time < buf[j].time
    /\ \A i, j \in 1 .. Len(buf) : j = i + 1 => Distance(buf[j].pos, buf[i].pos) <= Teleport

LEMMA BufferRuns ==
    ASSUME NEW h \in Arrivals, NEW n \in 1 .. Len(h), NEW buf, BufferHas(h, n, buf)
    PROVE  Runs(buf)
PROOF
  <1>1. PICK idx : Lists(h, n, buf, idx)
    BY DEF BufferHas
  <1>2. DOMAIN h = 1 .. Len(h) /\ Len(h) \in Nat
    BY ArrivalFacts
  <1>3. ASSUME NEW i \in 1 .. Len(buf), NEW j \in 1 .. Len(buf), i < j
        PROVE  buf[i].time < buf[j].time
    <2>1. idx[i] \in InTurn(h) /\ idx[j] \in InTurn(h)
      BY <1>1 DEF Lists
    <2>2. idx[i] < idx[j] /\ buf[i] = h[idx[i]] /\ buf[j] = h[idx[j]]
      BY <1>1, <1>3 DEF Lists
    <2>3. idx[i] \in 1 .. Len(h) /\ idx[j] \in 1 .. Len(h)
      BY <1>2, <2>1 DEF InTurn
    <2>4. h[idx[i]].time < h[idx[j]].time
      BY <1>2, <2>1, <2>2, <2>3 DEF InTurn
    <2> QED BY <2>2, <2>4
  <1> QED BY <1>1, <1>3 DEF Lists, Runs

\* The k-th is the last at or before the time.
IsBefore(buf, k, time) ==
    /\ k \in 1 .. Len(buf) /\ buf[k].time <= time
    /\ \A j \in 1 .. Len(buf) : j = k + 1 => time < buf[j].time

(***************************************************************************)
(* There is one such, and it is the one sample finds.                      *)
(***************************************************************************)
LEMMA BeforeIs ==
    ASSUME NEW buf, Runs(buf), NEW time \in Nat, NEW k, IsBefore(buf, k, time)
    PROVE  AtOrBefore(buf, time) # {} /\ Before(buf, time) = k
PROOF
  <1>1. /\ buf \in Seq(Snapshots) /\ Len(buf) \in Nat /\ DOMAIN buf = 1 .. Len(buf)
        /\ \A i \in 1 .. Len(buf) : buf[i].time \in Nat
    BY SnapshotFacts DEF Runs
  <1>2. \A i, j \in 1 .. Len(buf) : i < j => buf[i].time < buf[j].time
    BY DEF Runs
  <1>3. k \in AtOrBefore(buf, time) /\ k + 1 \notin AtOrBefore(buf, time)
    BY <1>1 DEF AtOrBefore, IsBefore
  <1>4. ASSUME NEW j \in AtOrBefore(buf, time), j + 1 \notin AtOrBefore(buf, time)
        PROVE  j = k
    <2>1. j \in 1 .. Len(buf) /\ k \in 1 .. Len(buf) /\ buf[j].time <= time /\ buf[k].time <= time
      BY <1>1 DEF AtOrBefore, IsBefore
    <2>2. CASE j < k
      <3>1. j + 1 \in 1 .. Len(buf) /\ (j + 1 = k \/ j + 1 < k)
        BY <1>1, <2>1, <2>2
      <3>2. buf[j + 1].time <= time
        BY <1>1, <1>2, <2>1, <3>1
      <3> QED BY <1>1, <1>4, <3>1, <3>2 DEF AtOrBefore
    <2>3. CASE k < j
      <3>1. k + 1 \in 1 .. Len(buf) /\ (k + 1 = j \/ k + 1 < j)
        BY <1>1, <2>1, <2>3
      <3>2. time < buf[k + 1].time
        BY <3>1 DEF IsBefore
      <3>3. buf[k + 1].time <= buf[j].time
        BY <1>1, <1>2, <2>1, <3>1
      <3> QED BY <1>1, <2>1, <3>1, <3>2, <3>3
    <2> QED BY <1>1, <2>1, <2>2, <2>3
  <1> QED BY <1>3, <1>4 DEF Before

LEMMA BeforeExists ==
    ASSUME NEW buf, Runs(buf), NEW time \in Nat, AtOrBefore(buf, time) # {}
    PROVE  \E k : IsBefore(buf, k, time)
PROOF
  <1> DEFINE top == Len(buf)
             left == {top - k : k \in AtOrBefore(buf, time)}
  <1>1. /\ top \in Nat /\ DOMAIN buf = 1 .. top
        /\ \A i \in 1 .. top : buf[i].time \in Nat
    BY SnapshotFacts DEF Runs
  <1>2. \A k \in AtOrBefore(buf, time) : k \in 1 .. top /\ buf[k].time <= time
    BY <1>1 DEF AtOrBefore
  <1>3. left \subseteq Nat /\ left # {}
    BY <1>1, <1>2
  <1>4. PICK l \in left : \A m \in left : l <= m
    <2> HIDE DEF left
    <2> QED BY <1>3, LeastExists
  <1>5. PICK k \in AtOrBefore(buf, time) : l = top - k
    OBVIOUS
  <1>6. ASSUME NEW j \in 1 .. top, j = k + 1 PROVE time < buf[j].time
    <2> SUFFICES ASSUME ~(time < buf[j].time) PROVE FALSE
      OBVIOUS
    <2>1. j \in AtOrBefore(buf, time)
      BY <1>1 DEF AtOrBefore
    <2>2. l <= top - j
      BY <1>4, <2>1
    <2> QED BY <1>1, <1>2, <1>5, <1>6, <2>2
  <1>7. IsBefore(buf, k, time)
    BY <1>2, <1>6 DEF IsBefore
  <1> QED BY <1>7

(***************************************************************************)
(* Of two numbers that lie between two others, neither is further from the *)
(* other than these are.                                                   *)
(***************************************************************************)
Lies(p, a, b) == Distance(p, a) + Distance(p, b) = Distance(a, b)

LEMMA LiesFacts ==
    ASSUME NEW p \in Int, NEW q \in Int, NEW a \in Int, NEW b \in Int, Lies(p, a, b), Lies(q, a, b)
    PROVE  Distance(p, q) <= Distance(b, a)
PROOF
  BY DEF Lies, Distance

(***************************************************************************)
(* What is interpolated lies between the two, and starts at the first.     *)
(***************************************************************************)
LEMMA BetweenFacts ==
    ASSUME NEW from \in Snapshots, NEW to \in Snapshots, from.time < to.time,
           NEW time \in Nat, from.time <= time, time <= to.time
    PROVE  /\ Between(from, to, time) \in Int
           /\ Lies(Between(from, to, time), from.pos, to.pos)
           /\ time = from.time => Between(from, to, time) = from.pos
PROOF
  <1> DEFINE d == to.pos - from.pos
             t == to.time - from.time
             x == time - from.time
             q == (d * x) \div t
  <1>1. from.pos \in Int /\ to.pos \in Int /\ from.time \in Nat /\ to.time \in Nat
    BY SnapshotFacts
  <1>2. d \in Int /\ t \in Nat \ {0} /\ x \in 0 .. t
    BY <1>1
  <1>3. Between(from, to, time) = from.pos + q
    BY DEF Between
  <1>4. to.pos = from.pos + d
    BY <1>1
  <1>5. time = from.time => x = 0
    BY <1>1
  <1> HIDE DEF d, t, x
  <1>6. /\ q \in Int
        /\ d >= 0 => 0 <= q /\ q <= d
        /\ d <= 0 => d <= q /\ q <= 0
        /\ x = 0 => q = 0
    BY <1>2, PartOfWay
  <1> HIDE DEF q
  <1>7. Lies(from.pos + q, from.pos, from.pos + d)
    BY <1>1, <1>2, <1>6 DEF Lies, Distance
  <1> QED BY <1>1, <1>3, <1>4, <1>5, <1>6, <1>7

(***************************************************************************)
(* What is extrapolated goes on by the velocity, until it holds.           *)
(***************************************************************************)
LEMMA ExtrapolatedFacts ==
    ASSUME NEW s \in Snapshots, NEW time \in Nat, s.time <= time
    PROVE  LET now == Extrapolated(s, time)
               next == Extrapolated(s, time + 1)
           IN  /\ now.pos \in Int /\ next.pos \in Int /\ now.extrapolated
               /\ Distance(now.pos, next.pos) <= Distance(s.vel, 0)
               /\ now.holding => next.holding /\ next.pos = now.pos
               /\ time = s.time => now.pos = s.pos
PROOF
  <1> DEFINE past == time - s.time
             over == IF past > ExtrapMax THEN ExtrapMax ELSE past
             more == IF past + 1 > ExtrapMax THEN ExtrapMax ELSE past + 1
             v == s.vel
  <1>1. s.time \in Nat /\ s.pos \in Int /\ v \in Int /\ ExtrapMax \in Nat /\ past \in Nat
    BY SnapshotFacts, BufferAssumption
  <1>2. (time + 1) - s.time = past + 1
    BY <1>1
  <1>3. /\ Extrapolated(s, time) = [pos |-> s.pos + v * over, holding |-> past > ExtrapMax,
                                    extrapolated |-> TRUE, anchor |-> s.pos]
        /\ Extrapolated(s, time + 1) = [pos |-> s.pos + v * more, holding |-> past + 1 > ExtrapMax,
                                        extrapolated |-> TRUE, anchor |-> s.pos]
    BY <1>2 DEF Extrapolated
  <1>4. over \in Nat /\ more \in Nat /\ (more = over \/ more = over + 1)
        /\ (past > ExtrapMax => more = over /\ past + 1 > ExtrapMax)
    BY <1>1
  <1>5. time = s.time => over = 0
    BY <1>1
  <1> HIDE DEF past, over, more, v
  <1>6. v * over \in Int /\ (more = over + 1 => v * more = v * over + v) /\ (over = 0 => v * over = 0)
    BY <1>1, <1>4
  <1>7. v * more \in Int /\ (v * more = v * over \/ v * more = v * over + v)
    BY <1>1, <1>4, <1>6
  <1>8. Distance(s.pos + v * over, s.pos + v * more) <= Distance(v, 0)
    <2> DEFINE a == v * over
               b == v * more
    <2> HIDE DEF a, b
    <2> QED BY <1>1, <1>6, <1>7 DEF Distance, a, b
  <1> DEFINE now == Extrapolated(s, time)
             next == Extrapolated(s, time + 1)
  <1>9. /\ now.pos = s.pos + v * over /\ now.holding = (past > ExtrapMax) /\ now.extrapolated = TRUE
        /\ next.pos = s.pos + v * more /\ next.holding = (past + 1 > ExtrapMax)
    BY <1>3
  <1> HIDE DEF now, next
  <1>10. now.holding => next.holding /\ next.pos = now.pos
    BY <1>4, <1>9
  <1>11. time = s.time => now.pos = s.pos
    BY <1>1, <1>5, <1>6, <1>9
  <1>12. now.pos \in Int /\ next.pos \in Int
    BY <1>1, <1>6, <1>7, <1>9
  <1>13. Distance(now.pos, next.pos) <= Distance(s.vel, 0)
    BY <1>8, <1>9 DEF v
  <1> QED BY <1>9, <1>10, <1>11, <1>12, <1>13 DEF now, next

(***************************************************************************)
(* Smooth at one time, of what is shown then and at the next.              *)
(***************************************************************************)
GoesSmoothly(buf, now, next) ==
    /\ Distance(now.pos, next.pos) <= Teleport \/ \E n \in Speeds : Distance(now.pos, next.pos) <= n
    /\ now.holding => next.holding /\ next.pos = now.pos
    /\ ~now.extrapolated =>
         \E k \in DOMAIN buf : \E j \in {k, k + 1} \cap DOMAIN buf :
            Lies(now.pos, buf[k].pos, buf[j].pos)

\* Between two times between two snapshots.
LEMMA SmoothBetween ==
    ASSUME NEW buf, Runs(buf), NEW k \in 1 .. Len(buf), k + 1 \in 1 .. Len(buf),
           NEW now, NEW next, now.pos \in Int, next.pos \in Int,
           Lies(now.pos, buf[k].pos, buf[k + 1].pos), Lies(next.pos, buf[k].pos, buf[k + 1].pos),
           ~now.holding
    PROVE  GoesSmoothly(buf, now, next)
PROOF
  <1>1. /\ DOMAIN buf = 1 .. Len(buf) /\ buf[k].pos \in Int /\ buf[k + 1].pos \in Int
        /\ Distance(buf[k + 1].pos, buf[k].pos) <= Teleport
    BY SnapshotFacts DEF Runs
  <1>2. Distance(now.pos, next.pos) <= Distance(buf[k + 1].pos, buf[k].pos)
    BY <1>1, LiesFacts
  <1>3. Teleport \in Int
    BY BufferAssumption
  <1>4. Distance(now.pos, next.pos) <= Teleport
    <2> DEFINE p == now.pos
               q == next.pos
               a == buf[k].pos
               b == buf[k + 1].pos
    <2> HIDE DEF p, q, a, b
    <2> QED BY <1>1, <1>2, <1>3 DEF Distance, p, q, a, b
  <1> QED BY <1>1, <1>4 DEF GoesSmoothly

\* While the first is shown.
LEMMA SmoothFirst ==
    ASSUME NEW buf, Runs(buf), NEW now, NEW next, now.pos = buf[1].pos, next.pos = now.pos,
           ~now.holding
    PROVE  GoesSmoothly(buf, now, next)
PROOF
  <1>1. DOMAIN buf = 1 .. Len(buf) /\ 1 \in 1 .. Len(buf) /\ buf[1].pos \in Int /\ Teleport \in Nat
    BY SnapshotFacts, BufferAssumption DEF Runs
  <1>2. Distance(now.pos, next.pos) <= Teleport
    BY <1>1 DEF Distance
  <1>3. Lies(now.pos, buf[1].pos, buf[1].pos) /\ 1 \in {1, 1 + 1} \cap DOMAIN buf
    BY <1>1 DEF Distance, Lies
  <1> QED BY <1>1, <1>2, <1>3 DEF GoesSmoothly

(***************************************************************************)
(* Smooth, of a buffer that holds what came in turn.                       *)
(***************************************************************************)
LEMMA RunsSmooth ==
    ASSUME NEW buf, Runs(buf)
    PROVE  Smooth(buf)
PROOF
  <1> DEFINE top == Len(buf)
  <1>1. /\ buf \in Seq(Snapshots) /\ top \in Nat \ {0} /\ DOMAIN buf = 1 .. top
        /\ \A i \in 1 .. top : /\ buf[i] \in Snapshots /\ buf[i].time \in Nat
                               /\ buf[i].pos \in Int /\ buf[i].vel \in Velocities
    BY SnapshotFacts DEF Runs
  <1>2. \A i, j \in 1 .. top : i < j => buf[i].time < buf[j].time
    BY DEF Runs
  <1>0. /\ top \in Nat /\ (top > 1 => top # 1)
        /\ \A k \in 1 .. top : k # top => k + 1 \in 1 .. top /\ k < k + 1
    <2>1. top \in Nat
      BY <1>1
    <2> HIDE DEF top
    <2> QED BY <2>1
  <1>3. ASSUME NEW time \in Nat PROVE GoesSmoothly(buf, Shown(buf, time), Shown(buf, time + 1))
    <2> DEFINE now == Shown(buf, time)
               next == Shown(buf, time + 1)
    <2>0. time + 1 \in Nat
      OBVIOUS
    <2>1. CASE top = 1 \/ AtOrBefore(buf, time + 1) = {}
      <3>1. AtOrBefore(buf, time) \subseteq AtOrBefore(buf, time + 1)
        BY <1>1 DEF AtOrBefore
      <3>2. now = Held(buf[1]) /\ next = Held(buf[1])
        BY <2>1, <3>1 DEF Shown
      <3>3. now.pos = buf[1].pos /\ next.pos = now.pos /\ ~now.holding
        BY <3>2 DEF Held
      <3> HIDE DEF now, next
      <3>4. GoesSmoothly(buf, now, next)
        BY <3>3, SmoothFirst
      <3> QED BY <3>4 DEF now, next
    <2>2. CASE top > 1 /\ AtOrBefore(buf, time) = {} /\ AtOrBefore(buf, time + 1) # {}
      <3>1. PICK k : IsBefore(buf, k, time + 1)
        BY <2>0, <2>2, BeforeExists
      <3>2. 1 \in 1 .. top /\ ~(buf[1].time <= time)
        BY <1>1, <2>2 DEF AtOrBefore
      <3>3. k = 1 /\ buf[1].time = time + 1
        BY <1>1, <1>2, <3>1, <3>2 DEF IsBefore
      <3>4. Before(buf, time + 1) = 1
        BY <2>0, <3>1, <3>3, BeforeIs
      <3>5. now = Held(buf[1]) /\ next = Bracketed(buf, 1, time + 1)
        BY <1>0, <2>2, <3>4 DEF Shown
      <3>6. next.pos = Between(buf[1], buf[2], time + 1)
        BY <1>1, <2>2, <3>5 DEF Bracketed
      <3>7. next.pos = buf[1].pos
        <4>1. 2 \in 1 .. top /\ buf[1].time < buf[2].time
          BY <1>1, <1>2, <2>2
        <4>2. buf[1].time <= time + 1 /\ time + 1 <= buf[2].time
          BY <1>1, <3>3, <4>1
        <4>3. Between(buf[1], buf[2], time + 1) = buf[1].pos
          BY <1>1, <2>0, <3>3, <4>1, <4>2, BetweenFacts
        <4> QED BY <3>6, <4>3
      <3>8. now.pos = buf[1].pos /\ ~now.holding
        BY <3>5 DEF Held
      <3> HIDE DEF now, next
      <3>9. GoesSmoothly(buf, now, next)
        BY <3>7, <3>8, SmoothFirst
      <3> QED BY <3>9 DEF now, next
    <2>3. CASE top > 1 /\ AtOrBefore(buf, time) # {}
      <3>1. PICK k : IsBefore(buf, k, time)
        BY <2>3, BeforeExists
      <3>2. Before(buf, time) = k /\ now = Bracketed(buf, k, time)
        <4>1. Before(buf, time) = k
          BY <3>1, BeforeIs
        <4> QED BY <1>0, <2>3, <4>1 DEF Shown
      <3>3. k \in 1 .. top /\ buf[k].time <= time
        BY <3>1 DEF IsBefore
      <3>4. ASSUME NEW m, IsBefore(buf, m, time + 1) PROVE next = Bracketed(buf, m, time + 1)
        <4>1. AtOrBefore(buf, time + 1) # {} /\ Before(buf, time + 1) = m
          BY <2>0, <3>4, BeforeIs
        <4> QED BY <1>0, <2>3, <4>1 DEF Shown
      <3>5. CASE k = top
        <4>1. IsBefore(buf, k, time + 1)
          BY <1>1, <3>3, <3>5 DEF IsBefore
        <4>2. now = Extrapolated(buf[k], time) /\ next = Extrapolated(buf[k], time + 1)
          BY <3>2, <3>4, <3>5, <4>1 DEF Bracketed
        <4>3. /\ now.extrapolated /\ (now.holding => next.holding /\ next.pos = now.pos)
              /\ Distance(now.pos, next.pos) <= Distance(buf[k].vel, 0)
          BY <1>1, <3>3, <4>2, ExtrapolatedFacts
        <4>4. Distance(buf[k].vel, 0) \in Speeds
          BY <1>1, <3>3 DEF Speeds
        <4> HIDE DEF now, next
        <4>5. GoesSmoothly(buf, now, next)
          BY <4>3, <4>4 DEF GoesSmoothly
        <4> QED BY <4>5 DEF now, next
      <3>6. CASE k # top
        <4> DEFINE from == buf[k]
                   to == buf[k + 1]
        <4>1. /\ k + 1 \in 1 .. top /\ time < to.time /\ from.time < to.time
              /\ from \in Snapshots /\ to \in Snapshots
          <5>1. k + 1 \in 1 .. top /\ k < k + 1
            BY <1>0, <3>3, <3>6
          <5> QED BY <1>1, <1>2, <3>1, <3>3, <5>1 DEF IsBefore
        <4>2. now.pos = Between(from, to, time) /\ ~now.holding /\ ~now.extrapolated
          BY <3>2, <3>6 DEF Bracketed
        <4>3. Between(from, to, time) \in Int /\ Lies(Between(from, to, time), from.pos, to.pos)
          <5>1. time <= to.time
            BY <1>1, <4>1
          <5> HIDE DEF from, to
          <5> QED BY <3>3, <4>1, <5>1, BetweenFacts DEF from
        <4>4. next.pos \in Int /\ Lies(next.pos, from.pos, to.pos)
          <5>1. CASE time + 1 < to.time
            <6>1. IsBefore(buf, k, time + 1)
              BY <1>1, <3>3, <5>1 DEF IsBefore
            <6>2. next = Bracketed(buf, k, time + 1)
              BY <3>4, <6>1
            <6>3. next.pos = Between(from, to, time + 1)
              BY <3>6, <6>2 DEF Bracketed
            <6>4. from.time <= time + 1 /\ time + 1 <= to.time
              BY <1>1, <3>3, <4>1, <5>1
            <6>5. /\ Between(from, to, time + 1) \in Int
                  /\ Lies(Between(from, to, time + 1), from.pos, to.pos)
              BY <2>0, <4>1, <6>4, BetweenFacts
            <6> QED BY <6>3, <6>5
          <5>2. CASE ~(time + 1 < to.time)
            <6>1. to.time = time + 1
              BY <1>1, <4>1, <5>2
            <6>2. \A j \in 1 .. top : j = (k + 1) + 1 => time + 1 < buf[j].time
              BY <1>1, <1>2, <4>1, <6>1
            <6>3. IsBefore(buf, k + 1, time + 1)
              BY <1>1, <4>1, <6>1, <6>2 DEF IsBefore
            <6>4. next = Bracketed(buf, k + 1, time + 1)
              BY <3>4, <6>3
            <6>5. next.pos = to.pos
              <7>1. CASE k + 1 = top
                <8>1. next = Extrapolated(to, time + 1)
                  BY <6>4, <7>1 DEF Bracketed
                <8>2. to.time <= time + 1
                  BY <1>1, <4>1, <6>1
                <8>3. Extrapolated(to, time + 1).pos = to.pos
                  BY <2>0, <4>1, <6>1, <8>2, ExtrapolatedFacts
                <8> QED BY <8>1, <8>3
              <7>2. CASE k + 1 # top
                <8> DEFINE after == buf[(k + 1) + 1]
                <8>1. (k + 1) + 1 \in 1 .. top /\ k + 1 < (k + 1) + 1
                  BY <1>1, <4>1, <7>2
                <8>2. after \in Snapshots /\ to.time < after.time /\ after.time \in Nat
                  BY <1>1, <1>2, <4>1, <8>1
                <8>3. next.pos = Between(to, after, time + 1)
                  BY <6>4, <7>2 DEF Bracketed
                <8>4. to.time <= time + 1 /\ time + 1 <= after.time
                  BY <1>1, <4>1, <6>1, <8>2
                <8>5. Between(to, after, time + 1) = to.pos
                  BY <2>0, <4>1, <6>1, <8>2, <8>4, BetweenFacts
                <8> QED BY <8>3, <8>5
              <7> QED BY <7>1, <7>2
            <6>6. to.pos \in Int /\ from.pos \in Int
              BY <1>1, <3>3, <4>1
            <6>7. Lies(to.pos, from.pos, to.pos)
              BY <6>6 DEF Lies, Distance
            <6> QED BY <6>5, <6>6, <6>7
          <5> QED BY <5>1, <5>2
        <4> HIDE DEF now, next
        <4>5. GoesSmoothly(buf, now, next)
          BY <3>3, <4>1, <4>2, <4>3, <4>4, SmoothBetween
        <4> QED BY <4>5 DEF now, next
      <3> QED BY <3>5, <3>6
    <2>4. top = 1 \/ top > 1
      BY <1>1
    <2>5. AtOrBefore(buf, time) \subseteq AtOrBefore(buf, time + 1)
      BY <1>1 DEF AtOrBefore
    <2> QED BY <2>1, <2>2, <2>3, <2>4, <2>5
  <1>4. ASSUME NEW time \in Renders PROVE time \in Nat
    BY BufferAssumption
  <1> QED BY <1>3, <1>4 DEF Smooth, GoesSmoothly, Lies

(***************************************************************************)
(* What is shown at a time whose last snapshot is known.                   *)
(***************************************************************************)
LEMMA ShownOn ==
    ASSUME NEW buf, Runs(buf), NEW time \in Nat, NEW k, IsBefore(buf, k, time)
    PROVE  /\ k # Len(buf) => Shown(buf, time).pos = Between(buf[k], buf[k + 1], time)
           /\ buf[k].time = time => Shown(buf, time).pos = buf[k].pos
PROOF
  <1>1. /\ Len(buf) \in Nat \ {0} /\ DOMAIN buf = 1 .. Len(buf)
        /\ \A i \in 1 .. Len(buf) : buf[i] \in Snapshots /\ buf[i].time \in Nat
    BY SnapshotFacts DEF Runs
  <1>2. k \in 1 .. Len(buf) /\ buf[k].time <= time
    BY DEF IsBefore
  <1>3. AtOrBefore(buf, time) # {} /\ Before(buf, time) = k
    BY BeforeIs
  <1>4. CASE Len(buf) = 1
    <2>1. k = 1 /\ k = Len(buf) /\ Shown(buf, time) = Held(buf[1])
      BY <1>1, <1>2, <1>4 DEF Shown
    <2> QED BY <2>1 DEF Held
  <1>5. CASE Len(buf) # 1
    <2>1. Shown(buf, time) = Bracketed(buf, k, time)
      BY <1>3, <1>5 DEF Shown
    <2>2. CASE k = Len(buf)
      <3>1. Shown(buf, time) = Extrapolated(buf[k], time)
        BY <2>1, <2>2 DEF Bracketed
      <3>2. buf[k].time = time => Extrapolated(buf[k], time).pos = buf[k].pos
        BY <1>1, <1>2, ExtrapolatedFacts
      <3> QED BY <2>2, <3>1, <3>2
    <2>3. CASE k # Len(buf)
      <3> DEFINE from == buf[k]
                 to == buf[k + 1]
      <3>1. Shown(buf, time).pos = Between(from, to, time)
        BY <2>1, <2>3 DEF Bracketed
      <3>2. k + 1 \in 1 .. Len(buf) /\ k < k + 1
        <4> DEFINE top == Len(buf)
        <4>1. top \in Nat /\ k \in 1 .. top /\ k # top
          BY <1>1, <1>2, <2>3
        <4> HIDE DEF top
        <4>2. k + 1 \in 1 .. top /\ k < k + 1
          BY <4>1
        <4> QED BY <4>2 DEF top
      <3>3. /\ from \in Snapshots /\ to \in Snapshots /\ from.time < to.time
            /\ from.time <= time /\ time <= to.time
        BY <1>1, <1>2, <3>2 DEF Runs, IsBefore
      <3> HIDE DEF from, to
      <3>4. from.time = time => Between(from, to, time) = from.pos
        BY <3>3, BetweenFacts
      <3> QED BY <3>1, <3>4 DEF from, to
    <2> QED BY <2>2, <2>3
  <1> QED BY <1>4, <1>5

(***************************************************************************)
(* After a push that is not late and no teleport the buffer is the old one *)
(* without its first c, c being 0 or 1, and with the snapshot behind it.   *)
(***************************************************************************)
LEMMA PutIs ==
    ASSUME NEW was, Runs(was), NEW s \in Snapshots, Put(was, s) # <<s>>
    PROVE  \E c \in {0, 1} :
              /\ Len(Put(was, s)) = Len(was) + 1 - c
              /\ Put(was, s)[Len(Put(was, s))] = s
              /\ \A i \in 1 .. (Len(was) - c) : Put(was, s)[i] = was[i + c]
PROOF
  <1> DEFINE new == Append(was, s)
  <1>1. was \in Seq(Snapshots) /\ Len(was) \in Nat \ {0} /\ MaxSize \in Nat \ {0}
    BY BufferAssumption DEF Runs
  <1>2. Put(was, s) = Trimmed(new)
    <2>1. Len(Append(<<>>, s)) = 1 /\ Append(<<>>, s) = <<s>>
      OBVIOUS
    <2>2. Trimmed(Append(<<>>, s)) = <<s>>
      BY <1>1, <2>1 DEF Trimmed
    <2> QED BY <2>2 DEF Put
  <1>3. /\ Len(new) = Len(was) + 1 /\ new \in Seq(Snapshots) /\ new # <<>>
        /\ new[Len(was) + 1] = s /\ \A i \in 1 .. Len(was) : new[i] = was[i]
    BY <1>1
  <1>4. CASE Len(new) > MaxSize
    <2>1. Put(was, s) = Tail(new)
      BY <1>2, <1>4 DEF Trimmed
    <2>2. /\ Len(Tail(new)) = Len(was)
          /\ \A i \in 1 .. Len(was) : Tail(new)[i] = new[i + 1]
      <3> HIDE DEF new
      <3> QED BY <1>1, <1>3
    <2>3. \A i \in 1 .. (Len(was) - 1) : Tail(new)[i] = was[i + 1]
      <3> HIDE DEF new
      <3> QED BY <1>1, <1>3, <2>2
    <2>4. Tail(new)[Len(was)] = s
      <3> HIDE DEF new
      <3> QED BY <1>1, <1>3, <2>2
    <2>5. Len(was) + 1 - 1 = Len(was)
      BY <1>1
    <2> HIDE DEF new
    <2> QED BY <2>1, <2>2, <2>3, <2>4, <2>5
  <1>5. CASE ~(Len(new) > MaxSize)
    <2>1. Put(was, s) = new
      BY <1>2, <1>5 DEF Trimmed
    <2>2. Len(was) + 1 - 0 = Len(was) + 1 /\ Len(was) - 0 = Len(was)
          /\ \A i \in 1 .. Len(was) : i + 0 = i
      BY <1>1
    <2> HIDE DEF new
    <2> QED BY <1>3, <2>1, <2>2
  <1> QED BY <1>4, <1>5

(***************************************************************************)
(* Up to the last snapshot there was, what is shown stays.                 *)
(***************************************************************************)
LEMMA PushSteady ==
    ASSUME NEW was, Runs(was), NEW s \in Snapshots, Runs(Push(was, s))
    PROVE  Steady(was, Push(was, s))
PROOF
  <1> DEFINE buf == Push(was, s)
             end == Len(was)
  <1>1. /\ end \in Nat \ {0} /\ was # <<>> /\ s.time \in Nat
        /\ \A i \in 1 .. end : was[i].time \in Nat
    BY SnapshotFacts DEF Runs
  <1> SUFFICES ASSUME NEW time \in Renders, time <= was[end].time, buf[1].time <= time
               PROVE  Shown(buf, time).pos = Shown(was, time).pos
    BY DEF Steady, Newest
  <1>2. time \in Nat
    BY BufferAssumption
  <1>3. CASE Late(was, s)
    BY <1>3 DEF Push
  <1>4. CASE ~Late(was, s)
    <2>1. buf = Put(was, s) /\ was[end].time < s.time
      BY <1>1, <1>4 DEF Push, Late, Newest
    <2>2. Put(was, s) # <<s>>
      <3> SUFFICES ASSUME Put(was, s) = <<s>> PROVE FALSE
        OBVIOUS
      <3>1. buf[1] = s
        BY <2>1
      <3> QED BY <1>1, <1>2, <2>1, <3>1
    <2>3. PICK c \in {0, 1} :
             /\ Len(buf) = end + 1 - c /\ buf[Len(buf)] = s
             /\ \A i \in 1 .. (end - c) : buf[i] = was[i + c]
      BY <2>1, <2>2, PutIs
    <2>4. Runs(buf) /\ Len(buf) \in Nat \ {0} /\ DOMAIN buf = 1 .. Len(buf)
      BY DEF Runs
    <2> HIDE DEF buf
    <2>5. AtOrBefore(buf, time) # {}
      BY <2>4 DEF AtOrBefore
    <2>6. PICK k : IsBefore(buf, k, time)
      BY <1>2, <2>4, <2>5, BeforeExists
    <2>7. k \in 1 .. Len(buf) /\ buf[k].time <= time /\ k # Len(buf)
      BY <1>1, <1>2, <2>1, <2>3, <2>6 DEF IsBefore
    <2>8. k \in 1 .. (end - c) /\ k + c \in 1 .. end /\ buf[k] = was[k + c]
      BY <1>1, <2>3, <2>7
    <2>9. ASSUME NEW j \in 1 .. end, j = (k + c) + 1 PROVE buf[k + 1] = was[j] /\ k + 1 \in 1 .. Len(buf)
      <3>1. k + 1 \in 1 .. (end - c) /\ (k + 1) + c = j
        BY <1>1, <2>3, <2>8, <2>9
      <3> QED BY <1>1, <2>3, <3>1
    <2>10. IsBefore(was, k + c, time)
      BY <2>6, <2>7, <2>8, <2>9 DEF IsBefore
    <2>11. Shown(buf, time).pos = Between(buf[k], buf[k + 1], time)
      <3>1. k # Len(buf)
        BY <2>7
      <3>2. Runs(buf)
        BY <2>4
      <3>3. k # Len(buf) => Shown(buf, time).pos = Between(buf[k], buf[k + 1], time)
        BY <1>2, <2>6, <3>2, ShownOn
      <3> QED BY <3>1, <3>3
    <2>12. CASE k + c = end
      <3>1. was[k + c].time = time /\ buf[k].time = time
        BY <1>1, <1>2, <2>7, <2>8, <2>12
      <3>2. Shown(was, time).pos = was[k + c].pos
        BY <1>2, <2>10, <3>1, ShownOn
      <3>3. Shown(buf, time).pos = buf[k].pos
        BY <1>2, <2>4, <2>6, <3>1, ShownOn
      <3> QED BY <2>8, <3>2, <3>3
    <2>13. CASE k + c # end
      <3>1. (k + c) + 1 \in 1 .. end
        BY <1>1, <2>8, <2>13
      <3>2. buf[k + 1] = was[(k + c) + 1]
        BY <2>9, <3>1
      <3>3. Shown(was, time).pos = Between(was[k + c], was[(k + c) + 1], time)
        BY <1>2, <2>10, <2>13, ShownOn
      <3> QED BY <2>8, <2>11, <3>2, <3>3
    <2> QED BY <2>12, <2>13
  <1> QED BY <1>3, <1>4

(***************************************************************************)
(* BufferIsNewest, BufferIsSmooth and BufferIsSteady, of all arrivals.     *)
(***************************************************************************)
LEMMA BufferShows == BufferIsNewest /\ BufferIsSmooth /\ BufferIsSteady
PROOF
  <1> SUFFICES ASSUME NEW h \in Arrivals
               PROVE  /\ HasNewest(Buffer(h), h) /\ Smooth(Buffer(h))
                      /\ Steady(Buffers(h)[Len(h) - 1], Buffer(h))
    BY DEF BufferIsNewest, BufferIsSmooth, BufferIsSteady
  <1>1. Len(h) \in Nat /\ Len(h) \in 1 .. Len(h) /\ h[Len(h)] \in Snapshots
    BY ArrivalFacts
  <1>2. BufferHas(h, Len(h), Buffer(h))
    BY <1>1, BuffersHold DEF Buffer
  <1>3. Runs(Buffer(h))
    BY <1>1, <1>2, BufferRuns
  <1> DEFINE was == Buffers(h)[Len(h) - 1]
  <1>4. Buffer(h) = Push(was, h[Len(h)])
    BY <1>1, ArrivalFacts DEF Buffer
  <1>5. CASE Len(h) = 1
    <2>1. was = <<>>
      BY <1>5, ArrivalFacts
    <2>2. Steady(was, Buffer(h))
      BY <2>1 DEF Steady
    <2> QED BY <1>2, <1>3, <2>2, BufferNewest, RunsSmooth
  <1>6. CASE Len(h) # 1
    <2>1. Len(h) - 1 \in 1 .. Len(h)
      <3> DEFINE n == Len(h)
      <3>1. n \in Nat /\ n \in 1 .. n /\ n # 1
        BY <1>1, <1>6
      <3> HIDE DEF n
      <3>2. n - 1 \in 1 .. n
        BY <3>1
      <3> QED BY <3>2 DEF n
    <2>2. Runs(was)
      <3> HIDE DEF was
      <3>1. BufferHas(h, Len(h) - 1, was)
        BY <2>1, BuffersHold DEF was
      <3> QED BY <2>1, <3>1, BufferRuns
    <2>3. Steady(was, Buffer(h))
      BY <1>1, <1>3, <1>4, <2>2, PushSteady
    <2> QED BY <1>2, <1>3, <2>3, BufferNewest, RunsSmooth
  <1> QED BY <1>5, <1>6

-----------------------------------------------------------------------------
(***************************************************************************)
(* EstimateFollows: ServerClock's sample and advance, of any lags, window, *)
(* gain, slew and snap, and histories of any number of frames.             *)
(***************************************************************************)
THEOREM EstimateAlwaysFollows == Spec => []EstimateFollows
PROOF
  <1>1. EstimateFollows
    BY ClockFollows DEF EstimateFollows
  <1> QED BY <1>1, PTL

(***************************************************************************)
(* ShownFromNewest: InterpolationBuffer's push and sample, of any number   *)
(* of snapshots, any sizes and limits: between two pushes and over one.    *)
(***************************************************************************)
THEOREM ShownAlwaysFromNewest == Spec => []ShownFromNewest
PROOF
  <1>1. ShownFromNewest
    BY BufferShows DEF ShownFromNewest
  <1> QED BY <1>1, PTL
=============================================================================
