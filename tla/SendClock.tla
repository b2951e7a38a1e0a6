------------------------------ MODULE SendClock ------------------------------
(***************************************************************************)
(* When a host's _poll runs a server tick: a deadline that moves by the    *)
(* interval, which is what snapshot_rate says or the shortest interval of  *)
(* the synchronizers registered.  With manual_send the timer ticks never.  *)
(* Time is in whole units; some client is connected throughout.            *)
(***************************************************************************)
EXTENDS Integers, Sequences, FiniteSetsExt, SequencesExt

CONSTANTS
    Syncs,            \* synchronizers of the host
    Intervals,        \* the replication_intervals the game sets, 0 for none
    DefaultInterval,
    Rates,            \* the interval of each snapshot_rate the game sets, 0 for none
    Longest,          \* bound: the longest of all these
    MaxGap            \* bound: the time between two polls

ASSUME IntervalAssumption ==
    /\ Longest \in Nat /\ MaxGap \in Nat
    /\ DefaultInterval \in 1 .. Longest
    /\ Intervals \cup Rates \subseteq 0 .. Longest

VARIABLES
    interval, \* synchronizer -> its replication_interval, 0 when it is not set
    owned,    \* the synchronizers registered
    rate,     \* snapshot_rate_setting, as an interval
    cached,   \* cached_min_interval_us
    manual,   \* manual_send
    since,    \* the time since last_send_us, Never when that is 0
    lull,     \* history: the time since the timer last ticked, Never when not followed
    spans     \* history: the times between its last ticks, newest last

clock == <<interval, owned, rate, cached, manual, since, lull, spans>>

Never == -1

\* Where the deadline is more than an interval behind, however far.
Far == 2 * Longest
AtMost(n, top) == IF n > top THEN top ELSE n

\* _min_interval_us, which reads the synchronizers' intervals as they are now
MinInterval(syncs, r) ==
    IF r > 0 THEN r
    ELSE IF syncs = {} THEN DefaultInterval
    ELSE Min({IF interval[s] > 0 THEN interval[s] ELSE DefaultInterval : s \in syncs})

ClockTypeOK ==
    /\ interval \in [Syncs -> Intervals \cup {0}]
    /\ owned \subseteq Syncs
    /\ rate \in Rates \cup {0}
    /\ cached \in 1 .. Longest
    /\ manual \in BOOLEAN
    /\ since \in {Never} \cup 0 .. Far
    /\ lull \in {Never} \cup 0 .. (Far + MaxGap)
    /\ spans \in Seq(1 .. (Far + MaxGap)) /\ Len(spans) <= 3

ClockInit ==
    /\ interval = [s \in Syncs |-> 0]
    /\ owned = {} /\ rate = 0 /\ cached = MinInterval({}, 0)
    /\ manual = FALSE /\ since = Never
    /\ lull = Never /\ spans = <<>>

\* The history starts again.
Unfollowed == lull' = Never /\ spans' = <<>>

\* _refresh_interval, of the synchronizers registered and the rate set now
Refresh(syncs, r) ==
    owned' = syncs /\ rate' = r /\ cached' = MinInterval(syncs, r) /\ UNCHANGED interval

\* _object_configuration_add and _remove, as far as the timer goes
Registers(s)   == Refresh(owned \cup {s}, rate) /\ Unfollowed /\ UNCHANGED <<manual, since>>
Unregisters(s) == Refresh(owned \ {s}, rate) /\ Unfollowed /\ UNCHANGED <<manual, since>>

SetSnapshotRate(r) == Refresh(owned, r) /\ Unfollowed /\ UNCHANGED <<manual, since>>

SetManualSend(b) ==
    manual' = b /\ Unfollowed /\ UNCHANGED <<interval, owned, rate, cached, since>>

\* The game sets a synchronizer's replication_interval, which the adapter does not
\* hear of: the cadence goes on as it is, also when s is registered.
SetReplicationInterval(s, n) ==
    /\ interval' = [interval EXCEPT ![s] = n]
    /\ UNCHANGED <<owned, rate, cached, manual, since, lull, spans>>

-----------------------------------------------------------------------------
\* _poll, gap after the last one.

Behind(gap) == IF since = Never THEN 0 ELSE since + gap

Due(gap) == ~manual /\ Behind(gap) >= cached

\* A mutated form: the deadline is put at the clock's time.
DeadlineMovesToNow(behind) == 0

\* A mutated form: ticks missed are made up for.
DeadlineMovesOn(behind) == behind - cached

\* The deadline moves by the interval, or to now when it is that far behind again.
DeadlineMoves(behind) == IF behind - cached >= cached THEN 0 ELSE behind - cached

LastThree(s) == IF Len(s) > 3 THEN Tail(s) ELSE s

PollTimer(gap) ==
    /\ since' = CASE Due(gap) -> DeadlineMoves(Behind(gap))
                  [] ~Due(gap) /\ ~manual -> AtMost(Behind(gap), Far)
                  [] manual -> IF since = Never THEN Never ELSE AtMost(since + gap, Far)
    /\ LET followed == lull # Never /\ gap <= cached
       IN  /\ lull' = CASE Due(gap) -> 0
                        [] ~Due(gap) /\ followed -> lull + gap
                        [] ~Due(gap) /\ ~followed -> Never
           /\ spans' = CASE ~followed -> <<>>
                         [] followed /\ ~Due(gap) -> spans
                         [] followed /\ Due(gap) -> LastThree(Append(spans, lull + gap))
    /\ UNCHANGED <<interval, owned, rate, cached, manual>>

-----------------------------------------------------------------------------
(***************************************************************************)
(* While polls come no further apart than the interval in use, uneven as   *)
(* they may be, the rate is neither above its nominal one nor below it: of *)
(* four ticks the last is more than two intervals after the first and less *)
(* than four, and the next is less than two after it.  Ticks missed in a   *)
(* stall are not made up for: the four may be the first ones after it.     *)
(* The interval in use is what the last registration, removal or change of *)
(* snapshot_rate made of the synchronizers' intervals: one that is set     *)
(* while its synchronizer is registered counts from the next of these on.  *)
(***************************************************************************)
Paced ==
    /\ Len(spans) = 3 =>
         LET time == spans[1] + spans[2] + spans[3]
         IN  2 * cached < time /\ time < 4 * cached
    /\ lull # Never => lull < 2 * cached
=============================================================================
