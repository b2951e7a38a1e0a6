----------------------------- MODULE ServerClock -----------------------------
(***************************************************************************)
(* A client's estimate of the server's time, from the server times of the  *)
(* snapshots it took, over frames that are Frame apart on its own clock.   *)
(* In a frame at most one server time is sampled, before its advance.      *)
(* Times are integers, with steps fine enough to halve a difference as     *)
(* often as a history has frames.                                          *)
(***************************************************************************)
EXTENDS Integers, Sequences

CONSTANTS
    Frame,   \* the time between two frames
    Window,  \* sample_window_ms
    Gain,    \* a frame closes one Gain-th of the difference
    Slew,    \* max_slew_ms_per_sec, in a frame
    Snap,    \* snap_threshold_ms
    Lags,    \* how long a snapshot is on its way
    Frames   \* bound: the frames of a history

Start == 100 * Frame  \* the local time of the first frame

\* What the server stamped is not negative.
ASSUME ClockAssumption ==
    /\ {Frame, Gain} \subseteq Nat \ {0} /\ {Window, Slew, Snap, Frames} \subseteq Nat
    /\ Lags \subseteq 0 .. Start

NoClock == [offset |-> 0, synced |-> FALSE, last |-> -1, samples |-> {}]

\* The sample is kept, and those that are too old are not; it never is itself.
Keep(clock, server, local) ==
    [offset  |-> IF clock.synced THEN clock.offset ELSE server - local,
     synced  |-> TRUE, last |-> server,
     samples |-> {s \in clock.samples \cup {[at |-> local, is |-> server - local]} :
                     s.at >= local - Window}]

\* A mutated form: an observation that was overtaken counts.
SampleOvertaken(clock, server, local) == Keep(clock, server, local)

\* sample
Sample(clock, server, local) ==
    IF server <= clock.last THEN clock ELSE Keep(clock, server, local)

\* _target_ms: of the samples kept, the least delayed
Target(clock) ==
    LET all == {s.is : s \in clock.samples}
    IN  CHOOSE n \in all : \A m \in all : m <= n

Size(n) == IF n < 0 THEN -n ELSE n
Clamp(n, low, high) == IF n < low THEN low ELSE IF n > high THEN high ELSE n

\* A part of the difference, towards 0.
Part(diff) == (IF diff < 0 THEN -1 ELSE 1) * (Size(diff) \div Gain)

Correction(diff) == Clamp(Part(diff), -Slew, Slew)

\* advance
Advance(clock) ==
    IF ~clock.synced THEN clock
    ELSE LET diff == Target(clock) - clock.offset
         IN  [clock EXCEPT !.offset = IF Size(diff) > Snap THEN Target(clock)
                                      ELSE @ + Correction(diff)]

-----------------------------------------------------------------------------
\* A history gives each frame the lag of what is sampled in it, if anything,
\* the server's clock being the local one.
Nothing == -1
Histories == UNION {[1 .. n -> Lags \cup {Nothing}] : n \in 1 .. Frames}

Local(n) == Start + n * Frame

Observe(clock, lag, local) ==
    Advance(IF lag = Nothing THEN clock ELSE Sample(clock, local - lag, local))

\* The clock after each frame.
Clocks(h) ==
    LET clock[n \in 0 .. Len(h)] ==
          IF n = 0 THEN NoClock ELSE Observe(clock[n - 1], h[n], Local(n))
    IN  clock

\* The observations that overtake all before them.
Observed(h) == {n \in DOMAIN h : h[n] # Nothing}
InOrder(h) == {n \in Observed(h) :
                 \A m \in Observed(h) : m < n => Local(m) - h[m] < Local(n) - h[n]}

\* The estimate is never ahead of the server, nor behind it by more than the
\* longest delay of an observation that was not overtaken.
Trails(h) ==
    LET clock == Clocks(h)[Len(h)]
        lags  == {h[n] : n \in InOrder(h)}
    IN  /\ clock.synced <=> lags # {}
        /\ clock.synced => \E short, long \in lags : -long <= clock.offset /\ clock.offset <= -short

\* From frame to frame the estimate goes on by the time that passed, more or
\* less the slew, unless it was further off than Snap: then it is the target.
GoesOn(h) ==
    LET clocks == Clocks(h)
        before == clocks[Len(h) - 1]
        after  == clocks[Len(h)]
        change == Size(after.offset - before.offset)
    IN  before.synced => change <= Slew \/ (after.offset = Target(after) /\ change > Snap)

\* After a frame it is at most Snap away from the target.
Follows(h) ==
    LET clock == Clocks(h)[Len(h)]
    IN  clock.synced => Size(Target(clock) - clock.offset) <= Snap

ClockTrails == \A h \in Histories : Trails(h)
ClockGoesOn == \A h \in Histories : GoesOn(h) /\ Follows(h)
=============================================================================
