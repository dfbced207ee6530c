--------------------------- MODULE QtTimerProofs ---------------------------
(***************************************************************************)
(* What QtTimer.tla checks on small instances, proved for every width of   *)
(* the int, every accuracy of the QTimer and every set of deadlines.       *)
(***************************************************************************)
EXTENDS QtTimer, TLAPS

\* A positive modulus leaves a remainder below it, and leaves what is already
\* below it alone.
LEMMA SmallRemainder ==
    ASSUME NEW x \in Int, NEW m \in Nat \ {0}, 0 <= x, x < m
    PROVE  x % m = x
  OBVIOUS

LEMMA RemainderBelow ==
    ASSUME NEW x \in Nat, NEW m \in Nat \ {0}
    PROVE  x % m \in 0..(m - 1) /\ x % m <= x
  OBVIOUS

\* An interval that fits the int is passed on unchanged.
LEMMA AsIntFits ==
    ASSUME NEW ms \in 0..MaxInt
    PROVE  AsInt(ms) = ms
  BY MaxIntAssumption, SmallRemainder DEF AsInt

\* Whatever is truncated does not become longer.
LEMMA AsIntShortens ==
    ASSUME NEW ms \in Nat
    PROVE  AsInt(ms) \in Int /\ AsInt(ms) <= ms
  <1> DEFINE w == 2 * MaxInt + 2
             r == (ms + MaxInt + 1) % w
  <1>1. w \in Nat \ {0} /\ ms + MaxInt + 1 \in Nat
    BY MaxIntAssumption
  <1>2. r \in 0..(w - 1) /\ r <= ms + MaxInt + 1
    BY <1>1, RemainderBelow, SMTT(60)
  <1>3. AsInt(ms) = r - (MaxInt + 1)
    BY DEF AsInt
  <1>. QED  BY <1>1, <1>2, <1>3, MaxIntAssumption

\* What a schedule leaves behind: a task, and a QTimer that waits no longer
\* than it was asked to.
LEMMA ScheduleStarts ==
    ASSUME NEW expireAt \in Int, NEW ms \in Nat, schedule(expireAt, ms)
    PROVE  /\ task' = TRUE
           /\ future' = expireAt
           /\ left' \in Nat
           /\ left' # Off
           /\ left' <= ms
           /\ schedules' = schedules + 1
  <1>1. ClampedTo31Bits(ms) \in 0..MaxInt /\ ClampedTo31Bits(ms) <= ms
    BY MaxIntAssumption DEF ClampedTo31Bits
  <1>2. AsInt(ClampedTo31Bits(ms)) = ClampedTo31Bits(ms)
    BY <1>1, AsIntFits
  <1>3. left' = ClampedTo31Bits(ms)
    BY <1>1, <1>2, MaxIntAssumption DEF schedule, Started
  <1>. QED  BY <1>1, <1>3, MaxIntAssumption, OffAssumption DEF schedule

\* The invariant the results rest on.  A QTimer runs only while there is a
\* task, which is what makes its expiration a run of that task.
Inv ==
    /\ TypeOK
    /\ left # Off => task
    /\ Punctual

\* A timer is scheduled in time: ms is 0, or reaches up to the deadline.
LEMMA ScheduleKeepsInv ==
    ASSUME Inv, NEW expireAt \in Int, NEW ms \in Nat,
           ms = 0 \/ now + ms <= expireAt,
           schedule(expireAt, ms), object' \in {"none", "alive", "doomed"},
           kind' \in Kinds, UNCHANGED <<now, settings, runs>>
    PROVE  Inv'
  <1>1. /\ task' = TRUE /\ future' = expireAt /\ left' \in Nat /\ left' # Off
        /\ left' <= ms /\ schedules' = schedules + 1
    BY ScheduleStarts, ZenonT(60)
  <1>2. TypeOK'
    BY <1>1 DEF Inv, TypeOK
  <1>3. Punctual'
    <2>1. now \in Int /\ now' = now
      BY DEF Inv, TypeOK
    <2>2. CASE ms = 0
      BY <1>1, <2>2 DEF Punctual
    <2>3. CASE now + ms <= expireAt
      <3> SUFFICES now + left' <= expireAt + 1
        BY <1>1, <2>1, ZenonT(60) DEF Punctual
      <3>1. PICK l \in Nat : l = left'
        BY <1>1
      <3>2. l <= ms
        BY <1>1, <3>1
      <3>3. now + l <= expireAt + 1
        BY <2>1, <2>3, <3>2
      <3>. QED  BY <3>1, <3>3
    <2>. QED  BY <2>2, <2>3
  <1>. QED  BY <1>1, <1>2, <1>3 DEF Inv

\* The same for the three ways in which the Manager schedules a timer.
LEMMA ScheduleForKeepsInv ==
    ASSUME Inv, NEW k \in Kinds, ScheduleFor(k),
           object' \in {"none", "alive", "doomed"}, kind' \in Kinds,
           UNCHANGED <<now, settings, runs>>
    PROVE  Inv' /\ task' = TRUE /\ left' # Off /\ future' \in Int
  <1>0. now \in Int
    BY DEF Inv, TypeOK
  <1>1. CASE \E time \in Deadlines : ScheduleAt(time)
    <2>1. PICK time \in Deadlines : ScheduleAt(time)
      BY <1>1
    <2> DEFINE ms == IF time - now < 0 THEN 0 ELSE time - now
    <2>2. time \in Int /\ ms \in Nat /\ (ms = 0 \/ now + ms <= time)
      BY <1>0, TimesAssumption
    <2>3. schedule(time, ms)
      BY <2>1 DEF ScheduleAt
    <2>. QED  BY <2>2, <2>3, ScheduleKeepsInv, ScheduleStarts, ZenonT(60)
  <1>2. CASE \E ms \in Intervals : now + ms <= MaxTime /\ ScheduleIn(ms)
    <2>1. PICK ms \in Intervals : ScheduleIn(ms)
      BY <1>2
    <2> DEFINE at == now + ms
    <2>2. ms \in Nat /\ at \in Int /\ now + ms <= at
      BY <1>0, TimesAssumption
    <2>3. schedule(at, ms)
      BY <2>1 DEF ScheduleIn
    <2> HIDE DEF at
    <2>. QED  BY <2>2, <2>3, ScheduleKeepsInv, ScheduleStarts, ZenonT(60)
  <1>. QED  BY <1>1, <1>2, ZenonT(60) DEF ScheduleFor

----------------------------------------------------------------------------
LEMMA InitInv == Init => Inv
  <1> SUFFICES ASSUME Init PROVE Inv
    OBVIOUS
  <1>1. TypeOK
    <2>1. task \in BOOLEAN
      BY Zenon DEF Init
    <2>2. now \in Int
      BY TimesAssumption DEF Init
    <2>. QED  BY <2>1, <2>2 DEF Init, TypeOK
  <1>. QED  BY <1>1 DEF Init, Inv, Punctual

\* The invariant is inductive, one step per action.
LEMMA NextInv == Inv /\ [Next]_vars => Inv'
  <1> SUFFICES ASSUME Inv, [Next]_vars PROVE Inv'
    OBVIOUS
  <1> USE DEF Inv
  <1>1. CASE Construct
    BY <1>1, ScheduleForKeepsInv, ZenonT(60) DEF Construct
  <1>2. CASE adjustExpireTimer
    <2>1. ScheduleFor("reservation")
      BY <1>2 DEF adjustExpireTimer, ScheduleFor
    <2>. QED  BY <1>2, <2>1, ScheduleForKeepsInv, ZenonT(60) DEF adjustExpireTimer, Kinds, TypeOK
  <1>3. CASE Retire
    <2>1. left' = Off /\ future' = 0 /\ object' \in {"none", "doomed"}
      BY <1>3 DEF Retire, cancel, AfterDeletion
    <2>2. task' \in BOOLEAN
      BY <1>3, Zenon DEF Retire, cancel
    <2>3. TypeOK'
      BY <1>3, <2>1, <2>2 DEF Retire, TypeOK
    <2>. QED  BY <1>3, <2>1, <2>3 DEF Retire, Punctual
  <1>4. CASE onTimerDeleted
    BY <1>4 DEF onTimerDeleted, TypeOK, Punctual
  <1>5. CASE ExpireEarly
    <2> DEFINE ms == future - now + 1
    <2>1. ms \in Nat
      BY <1>5 DEF ExpireEarly, TypeOK
    <2>2. AsInt(ms) \in Int /\ AsInt(ms) <= ms
      BY <2>1, AsIntShortens
    <2>3. left' = Started(AsInt(ms)) /\ UNCHANGED <<now, future, settings, task>>
      BY <1>5 DEF ExpireEarly
    <2>4. left' \in Nat \cup {Off} /\ (left' # Off => left' <= ms)
      BY <2>2, <2>3 DEF Started
    <2>5. TypeOK'
      BY <1>5, <2>4 DEF ExpireEarly, TypeOK
    <2>6. task
      BY <1>5 DEF ExpireEarly, TimesOut
    <2>7. Punctual'
      <3>1. CASE left' = Off
        BY <3>1 DEF Punctual
      <3>2. CASE left' # Off
        <4>1. PICK l \in Nat : l = left'
          BY <2>4, <3>2
        <4>2. l <= ms
          BY <2>4, <3>2, <4>1
        <4>3. now + l <= future + 1
          BY <4>2 DEF TypeOK
        <4>. QED  BY <2>3, <4>1, <4>3 DEF Punctual
      <3>. QED  BY <3>1, <3>2
    <2>. QED  BY <2>3, <2>5, <2>6, <2>7
  <1>6. CASE ExpireAndKeep
    <2>1. TypeOK'
      BY <1>6 DEF ExpireAndKeep, TypeOK
    <2>. QED  BY <1>6, <2>1 DEF ExpireAndKeep, Punctual
  <1>7. CASE ExpireAndRetire
    <2>0. task' \in BOOLEAN
      BY <1>7, Zenon DEF ExpireAndRetire, cancel
    <2>1. TypeOK'
      BY <1>7, <2>0 DEF ExpireAndRetire, cancel, AfterDeletion, TypeOK, Kinds
    <2>. QED  BY <1>7, <2>1 DEF ExpireAndRetire, cancel, Punctual
  <1>8. CASE Tick
    <2>1. TypeOK'
      BY <1>8, OffAssumption DEF Tick, TypeOK
    <2>2. left' # Off => left # Off
      BY <1>8, OffAssumption DEF Tick
    <2>3. Punctual'
      <3> SUFFICES ASSUME settings = 0, left \notin {Off, 0}
                   PROVE  now' + left' <= future + 1
        BY <1>8 DEF Tick, Punctual
      <3>1. now \in Int /\ left \in Nat /\ future \in Int /\ now + left <= future + 1
        BY DEF Punctual, TypeOK
      <3>2. CASE now < MaxTime
        BY <1>8, <3>1, <3>2 DEF Tick
      <3>3. CASE ~(now < MaxTime)
        BY <1>8, <3>1, <3>3 DEF Tick
      <3>. QED  BY <3>2, <3>3
    <2>. QED  BY <1>8, <2>1, <2>2, <2>3 DEF Tick
  <1>9. CASE SetClock
    <2>1. TypeOK' /\ settings' # 0
      BY <1>9, TimesAssumption DEF SetClock, TypeOK
    <2>. QED  BY <1>9, <2>1 DEF SetClock, Punctual
  <1>10. CASE UNCHANGED vars
    BY <1>10 DEF vars, TypeOK, Punctual
  <1>. QED  BY <1>1, <1>2, <1>3, <1>4, <1>5, <1>6, <1>7, <1>8, <1>9, <1>10
            DEF Next, onExpiration

LEMMA InvHolds == Spec => []Inv
  BY InitInv, NextInv, PTL DEF Spec

\* Whatever the width of the int, an undisturbed QTimer waits no longer than
\* to the millisecond after its deadline (QtTimer::schedule, onExpiration).
THEOREM TimersArePunctual == Spec => []Punctual
  <1>1. Inv => Punctual
    BY DEF Inv
  <1>. QED  BY <1>1, InvHolds, PTL

----------------------------------------------------------------------------
\* Scheduling a timer sets the alarm.
LEMMA ScheduleSets ==
    ASSUME Inv, NEW k \in Kinds, ScheduleFor(k),
           object' \in {"none", "alive", "doomed"}, kind' \in Kinds,
           UNCHANGED <<now, settings, runs>>
    PROVE  A!Set
  BY ScheduleForKeepsInv, ZenonT(60) DEF A!Set

\* Every step of the timer is a step of the alarm, or changes nothing of it.
LEMMA StepImplements == Inv /\ [Next]_vars => [A!Next]_A!vars
  <1> SUFFICES ASSUME Inv, [Next]_vars PROVE [A!Next]_A!vars
    OBVIOUS
  <1>0. /\ left # Off => task
        /\ now \in Int /\ future \in Int /\ left \in Nat \cup {Off}
    BY DEF Inv, TypeOK
  <1>1. CASE Construct
    <2>1. A!Set
      BY <1>1, ScheduleSets DEF Construct
    <2>. QED  BY <2>1 DEF A!Next
  <1>2. CASE adjustExpireTimer
    <2>1. ScheduleFor("reservation")
      BY <1>2 DEF adjustExpireTimer, ScheduleFor
    <2>2. A!Set
      BY <1>2, <2>1, ScheduleSets DEF adjustExpireTimer, Kinds, Inv, TypeOK
    <2>. QED  BY <2>2 DEF A!Next
  <1>3. CASE Retire
    <2>1. A!Clear
      BY <1>3 DEF Retire, cancel, A!Clear
    <2>. QED  BY <2>1 DEF A!Next
  <1>4. CASE onTimerDeleted
    BY <1>4 DEF onTimerDeleted, A!vars
  <1>5. CASE ExpireEarly
    <2> DEFINE ms == future - now + 1
    <2>1. left # Off /\ now < future /\ left' = Started(AsInt(ms))
          /\ UNCHANGED <<now, task, future, runs>>
      BY <1>5 DEF ExpireEarly, TimesOut
    <2>2. CASE left' = Off
      <3>1. ms \in Nat /\ AsInt(ms) < 0
        BY <1>0, <2>1, <2>2, OffAssumption, AsIntShortens DEF Started
      <3>2. ms > MaxInt
        BY <3>1, AsIntFits, MaxIntAssumption
      <3>3. future - now >= MaxInt
        BY <1>0, <3>2, MaxIntAssumption
      <3>4. future # Off
        BY <1>0, OffAssumption
      <3>5. A!Forget
        BY <2>1, <2>2, <3>3, <3>4 DEF A!Forget
      <3>. QED  BY <3>5 DEF A!Next
    <2>3. CASE left' # Off
      BY <2>1, <2>3 DEF A!vars
    <2>. QED  BY <2>2, <2>3
  <1>6. CASE ExpireAndKeep
    <2>1. task /\ left # Off /\ future <= now /\ future # Off
      BY <1>0, <1>6, OffAssumption DEF ExpireAndKeep, Due, TimesOut
    <2>2. left' = Off /\ runs' = runs + 1 /\ UNCHANGED <<now, task>>
      BY <1>6, <2>1 DEF ExpireAndKeep
    <2>3. A!Run
      BY <2>1, <2>2 DEF A!Run
    <2>. QED  BY <2>3 DEF A!Next
  <1>7. CASE ExpireAndRetire
    <2>1. task /\ left # Off /\ future <= now /\ future # Off
      BY <1>0, <1>7, OffAssumption DEF ExpireAndRetire, Due, TimesOut
    <2>2. left' = Off /\ runs' = runs + 1 /\ task' = FALSE /\ UNCHANGED now
      BY <1>7, <2>1 DEF ExpireAndRetire, cancel
    <2>3. A!Run
      BY <2>1, <2>2, ZenonT(60) DEF A!Run
    <2>. QED  BY <2>3 DEF A!Next
  <1>8. CASE Tick
    <2>1. now' \in Int /\ (left' = Off <=> left = Off) /\ UNCHANGED <<task, future, runs>>
      BY <1>0, <1>8, OffAssumption DEF Tick
    <2>2. A!Clock
      BY <2>1 DEF A!Clock
    <2>. QED  BY <2>2 DEF A!Next
  <1>9. CASE SetClock
    <2>1. A!Clock
      BY <1>9, TimesAssumption DEF SetClock, A!Clock
    <2>. QED  BY <2>1 DEF A!Next
  <1>10. CASE UNCHANGED vars
    BY <1>10 DEF vars, A!vars
  <1>. QED  BY <1>1, <1>2, <1>3, <1>4, <1>5, <1>6, <1>7, <1>8, <1>9, <1>10
            DEF Next, onExpiration

\* A timer is an alarm: one run for each schedule at most, never early, never
\* after cancel, and dropped only when its deadline is MaxInt ahead
\* (QtTimer::onExpiration).
THEOREM TimerIsAnAlarm == Spec => ImplementsAlarm
  <1>1. Init => A!Init
    <2> SUFFICES ASSUME Init PROVE A!Init
      OBVIOUS
    <2>1. now \in Int
      BY TimesAssumption DEF Init
    <2>. QED  BY <2>1 DEF Init, A!Init
  <1>. QED  BY <1>1, StepImplements, InvHolds, PTL DEF Spec, ImplementsAlarm, A!Spec
============================================================================
