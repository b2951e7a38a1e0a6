------------------------ MODULE InterpolationBuffer ------------------------
(***************************************************************************)
(* The snapshots a client keeps of a node to show it between two of them:  *)
(* times and a position along one axis, with a velocity.  Rotations, which *)
(* go the same way around a turn, are left out.                            *)
(***************************************************************************)
EXTENDS Integers, Sequences, FiniteSets

CONSTANTS
    MaxSize,      \* max_size
    Teleport,     \* the distance whose square is teleport_dist_sq
    ExtrapMax,    \* extrap_max
    Times, Positions, Velocities,  \* of the snapshots looked at
    Renders,      \* the times looked at
    MaxPushes     \* bound: the snapshots of a history

ASSUME BufferAssumption ==
    /\ {MaxSize, MaxPushes, Teleport, ExtrapMax} \subseteq Nat /\ MaxSize > 0
    /\ Times \cup Renders \subseteq Nat /\ Positions \cup Velocities \subseteq Int

Snapshots == [time : Times, pos : Positions, vel : Velocities]

Newest(buf) == buf[Len(buf)]
Distance(n, m) == IF n < m THEN m - n ELSE n - m

\* A mutated form: a time may be the last one's again.
LateBefore(buf, s) == buf # <<>> /\ s.time < Newest(buf).time

Late(buf, s) == buf # <<>> /\ s.time <= Newest(buf).time

Trimmed(buf) == IF Len(buf) > MaxSize THEN Tail(buf) ELSE buf

Put(buf, s) ==
    LET jumps == buf # <<>> /\ Distance(s.pos, Newest(buf).pos) > Teleport
    IN  Trimmed(Append(IF jumps THEN <<>> ELSE buf, s))

\* push
Push(buf, s) == IF Late(buf, s) THEN buf ELSE Put(buf, s)

\* sample, of a buffer that has something: its latest at or before the time,
\* and the one after it
AtOrBefore(buf, time) == {k \in DOMAIN buf : buf[k].time <= time}
Before(buf, time) == CHOOSE k \in AtOrBefore(buf, time) : k + 1 \notin AtOrBefore(buf, time)

Between(from, to, time) ==
    from.pos + ((to.pos - from.pos) * (time - from.time)) \div (to.time - from.time)

Held(s) == [pos |-> s.pos, holding |-> FALSE, extrapolated |-> FALSE, anchor |-> s.pos]

Extrapolated(s, time) ==
    LET past == time - s.time
        over == IF past > ExtrapMax THEN ExtrapMax ELSE past
    IN  [pos |-> s.pos + s.vel * over, holding |-> past > ExtrapMax,
         extrapolated |-> TRUE, anchor |-> s.pos]

Bracketed(buf, k, time) ==
    IF k = Len(buf) THEN Extrapolated(buf[k], time)
    ELSE [pos |-> Between(buf[k], buf[k + 1], time), holding |-> FALSE,
          extrapolated |-> FALSE, anchor |-> buf[k].pos]

Shown(buf, time) ==
    IF Len(buf) = 1 \/ AtOrBefore(buf, time) = {} THEN Held(buf[1])
    ELSE Bracketed(buf, Before(buf, time), time)

-----------------------------------------------------------------------------
\* Snapshots in the order they came, which is not that of their times.
Arrivals == UNION {[1 .. n -> Snapshots] : n \in 1 .. MaxPushes}

\* The buffer after each of them.
Buffers(h) ==
    LET buf[n \in 0 .. Len(h)] == IF n = 0 THEN <<>> ELSE Push(buf[n - 1], h[n])
    IN  buf

Buffer(h) == Buffers(h)[Len(h)]

\* The arrivals later than all that came before them, and where one of them is
\* a teleport away from the one before it.
InTurn(h) == {n \in DOMAIN h : \A m \in 1 .. (n - 1) : h[m].time < h[n].time}
Jumps(h) == {n \in InTurn(h) :
               \E m \in InTurn(h) :
                 /\ m < n /\ \A j \in InTurn(h) : j <= m \/ j >= n
                 /\ Distance(h[n].pos, h[m].pos) > Teleport}

\* Those from the last teleport on, the MaxSize last.
Kept(h) == {n \in InTurn(h) :
              /\ \A j \in Jumps(h) : j <= n
              /\ Cardinality({m \in InTurn(h) : m > n}) < MaxSize}

\* They are in the buffer, in the order of their times.
HasNewest(buf, h) ==
    /\ {buf[k] : k \in DOMAIN buf} = {h[n] : n \in Kept(h)}
    /\ \A j, k \in DOMAIN buf : j < k => buf[j].time < buf[k].time

Speeds == {Distance(v, 0) : v \in Velocities}

\* As the render time goes on over one buffer, with nothing pushed, the node shown
\* goes no further in a unit of time than a teleport is long, or than its velocity;
\* each position is between two snapshots of the buffer one after the other, so not
\* between the ends of a teleport, or at most ExtrapMax past the last.  It holds
\* once that is over.
Smooth(buf) ==
    \A time \in Renders :
        LET now == Shown(buf, time)
            next == Shown(buf, time + 1)
            gone == Distance(now.pos, next.pos)
        IN  /\ gone <= Teleport \/ \E n \in Speeds : gone <= n
            /\ now.holding => next.holding /\ next.pos = now.pos
            /\ ~now.extrapolated =>
                 \E k \in DOMAIN buf : \E j \in {k, k + 1} \cap DOMAIN buf :
                    Distance(now.pos, buf[k].pos) + Distance(now.pos, buf[j].pos)
                      = Distance(buf[k].pos, buf[j].pos)

\* A push does not move the node shown at a time both buffers have: one up to the
\* last snapshot there was.  A node shown later than that is moved at once, from where
\* it was extrapolated to, and so is one that teleports.
Steady(was, buf) ==
    \A time \in Renders :
        was # <<>> /\ time <= Newest(was).time /\ buf[1].time <= time
          => Shown(buf, time).pos = Shown(was, time).pos

BufferIsNewest == \A h \in Arrivals : HasNewest(Buffer(h), h)
BufferIsSmooth == \A h \in Arrivals : Smooth(Buffer(h))
BufferIsSteady == \A h \in Arrivals : Steady(Buffers(h)[Len(h) - 1], Buffer(h))
=============================================================================
