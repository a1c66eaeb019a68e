-------------------------- MODULE ReplayClockProofs -------------------------
(***************************************************************************)
(* Proofs about the replay clock.  Any number of threads: the pin is never *)
(* left behind (PinInv: a pin has an owner that will clear it), a frozen   *)
(* clock stands still, and a call that no other overlaps finds the clock   *)
(* as a single thread would (LoneInv: the pin is set exactly while its     *)
(* outermost query runs), whatever overlapped before it.                   *)
(***************************************************************************)
EXTENDS ReplayClock, FiniteSetTheorems, TLAPS

LEMMA ElapsedNat == now \in 0 .. MaxNow => Elapsed \in Nat
BY ClockAssumption DEF Elapsed, TicksPerSecond

LEMMA TypeInit == Init => TypeOK
BY ClockAssumption DEF Init, TypeOK, Labels

LEMMA TypeStep == TypeOK /\ [Next]_vars => TypeOK'
<1> SUFFICES ASSUME TypeOK, [Next]_vars PROVE TypeOK'
  OBVIOUS
<1> USE ClockAssumption DEF TypeOK
<1>0. Elapsed \in Nat
  BY ElapsedNat
<1>1. CASE Tick
  BY <1>1 DEF Tick
<1>2. CASE UNCHANGED vars
  BY <1>2 DEF vars
<1>3. ASSUME NEW t \in Threads, Step(t) PROVE TypeOK'
  <2> USE DEF shared, Goto, Labels
  <2>1. CASE BeginQuery(t)
    BY <2>1 DEF BeginQuery, Overlap, Running
  <2>2. CASE BeginReport(t)
    BY <1>0, <2>2 DEF BeginReport, Overlap, Running
  <2>3. CASE CallQuery(t)
    BY <2>3 DEF CallQuery
  <2>4. CASE EnterPinned(t)
    BY <2>4 DEF EnterPinned
  <2>5. CASE EnterUnpinned(t)
    BY <2>5 DEF EnterUnpinned
  <2>6. CASE Sample(t)
    BY <1>0, <2>6 DEF Sample
  <2>7. CASE Store(t)
    BY <2>7 DEF Store
  <2>8. CASE AgeFrozen(t)
    BY <2>8 DEF AgeFrozen, Give
  <2>9. CASE AgeLook(t)
    BY <2>9 DEF AgeLook
  <2>10. CASE AgeFresh(t)
    BY <1>0, <2>10 DEF AgeFresh, Give
  <2>11. CASE AgeRead(t)
    BY <2>11 DEF AgeRead, Give
  <2>12. CASE AgeLost(t)
    BY <2>12 DEF AgeLost
  <2>13. CASE Leave(t)
    BY <2>13 DEF Leave
  <2>14. CASE EndReport(t)
    BY <2>14 DEF EndReport
  <2> QED
    BY <1>3, <2>1, <2>2, <2>3, <2>4, <2>5, <2>6, <2>7, <2>8, <2>9, <2>10, <2>11, <2>12,
       <2>13, <2>14 DEF Step
<1> QED BY <1>1, <1>2, <1>3 DEF Next

\* The clock's state is well-formed, however the threads interleave.
THEOREM TypeCorrect == Spec => []TypeOK
<1>1. Init => TypeOK
  BY TypeInit
<1>2. TypeOK /\ [Next]_vars => TypeOK'
  BY TypeStep
<1> QED BY <1>1, <1>2, PTL DEF Spec

-----------------------------------------------------------------------------
(* The pin, with any threads.                                              *)

PinInv ==
    /\ \A t \in Threads : owns[t] \subseteq 1 .. depth[t]
    /\ pinned # None => \E t \in Threads : owns[t] # {}

LEMMA PinStep == TypeOK /\ PinInv /\ [Next]_vars => PinInv'
<1> SUFFICES ASSUME TypeOK, PinInv, [Next]_vars PROVE PinInv'
  OBVIOUS
<1> USE DEF TypeOK, PinInv
<1>1. CASE UNCHANGED <<pinned, depth, owns>>
  BY <1>1
<1>2. ASSUME NEW t \in Threads, EnterPinned(t) PROVE PinInv'
  BY <1>2 DEF EnterPinned, shared
<1>3. ASSUME NEW t \in Threads, Store(t) PROVE PinInv'
  BY <1>3 DEF Store
<1>4. ASSUME NEW t \in Threads, Leave(t) PROVE PinInv'
  <2>0. depth[t] > 0
    BY <1>4 DEF Leave
  <2>1. \A u \in Threads : owns'[u] \subseteq 1 .. depth'[u]
    BY <1>4, <2>0 DEF Leave
  <2>2. pinned' # None => \E u \in Threads : owns'[u] # {}
    <3>1. CASE depth[t] \in owns[t]
      BY <1>4, <3>1 DEF Leave
    <3>2. CASE depth[t] \notin owns[t]
      BY <1>4, <3>2 DEF Leave
    <3> QED BY <3>1, <3>2
  <2> QED BY <2>1, <2>2
<1> QED
  BY <1>1, <1>2, <1>3, <1>4
  DEF Next, vars, shared, Step, Tick, BeginQuery, BeginReport, CallQuery, EnterUnpinned,
      Sample, AgeFrozen, AgeLook, AgeFresh, AgeRead, AgeLost, EndReport

\* With any number of threads, once every call has returned the pin is clear.
THEOREM PinCleared == Spec => []PinReleased
<1>1. Init => PinInv
  BY DEF Init, PinInv
<1>2. TypeOK /\ PinInv /\ [Next]_vars => PinInv'
  BY PinStep
<1>3. TypeOK /\ PinInv => PinReleased
  BY DEF PinInv, PinReleased, TypeOK
<1> QED BY <1>1, <1>2, <1>3, TypeCorrect, PTL DEF Spec

-----------------------------------------------------------------------------
(* The frozen clock, with any threads.                                     *)

FrozenInv ==
    frozen => \A t \in Threads :
        pc[t] \notin {"fresh", "reading"} /\ given[t] \subseteq {0} /\ latest[t] = 0

LEMMA FrozenFixed == [Next]_vars => frozen' = frozen
BY DEF Next, vars, Step, shared, Tick, BeginQuery, BeginReport, CallQuery, EnterPinned,
       EnterUnpinned, Sample, Store, AgeFrozen, AgeLook, AgeFresh, AgeRead, AgeLost, Leave,
       EndReport

LEMMA FrozenStep == TypeOK /\ FrozenInv /\ [Next]_vars => FrozenInv'
<1> SUFFICES ASSUME TypeOK, FrozenInv, [Next]_vars, frozen,
                    NEW u \in Threads
             PROVE  pc'[u] \notin {"fresh", "reading"} /\ given'[u] \subseteq {0}
                    /\ latest'[u] = 0
  BY FrozenFixed DEF FrozenInv
<1> USE DEF TypeOK, FrozenInv, Goto
<1>1. CASE UNCHANGED <<pc, given, latest>>
  BY <1>1
<1>2. ASSUME NEW t \in Threads, Step(t)
      PROVE  pc'[u] \notin {"fresh", "reading"} /\ given'[u] \subseteq {0} /\ latest'[u] = 0
  <2>1. CASE BeginQuery(t) \/ BeginReport(t)
    BY <2>1 DEF BeginQuery, BeginReport
  <2>2. CASE CallQuery(t) \/ EnterPinned(t) \/ EnterUnpinned(t) \/ Sample(t) \/ Store(t)
             \/ EndReport(t) \/ AgeLost(t)
    BY <2>2 DEF CallQuery, EnterPinned, EnterUnpinned, Sample, Store, EndReport, AgeLost
  <2>3. CASE AgeFrozen(t)
    BY <2>3 DEF AgeFrozen, Give
  <2>4. CASE AgeLook(t) \/ AgeFresh(t) \/ AgeRead(t)
    BY <2>4 DEF AgeLook, AgeFresh, AgeRead
  <2>5. CASE Leave(t)
    BY <2>5 DEF Leave
  <2> QED BY <1>2, <2>1, <2>2, <2>3, <2>4, <2>5 DEF Step
<1> QED BY <1>1, <1>2 DEF Next, Tick, vars

-----------------------------------------------------------------------------
(* A call that no other overlaps.                                          *)

\* Nothing known is later than the clock, and an idle thread is in no query.
Bounds ==
    /\ pinned # None => pinned <= Elapsed
    /\ \A t \in Threads :
        /\ latest[t] <= Elapsed
        /\ sample[t] # None => sample[t] <= Elapsed
        /\ pc[t] \in {"idle", "reporting"} => depth[t] = 0

\* The pin is set exactly while the call's outermost query runs, and every age
\* it gives is the pin's.
Alone(t) ==
    /\ \A u \in Threads : u # t => pc[u] = "idle"
    /\ pc[t] # "raising"
    /\ pc[t] \in {"sampling", "storing"} => depth[t] = 0
    /\ pc[t] = "reporting" => report[t] # None
    /\ pc[t] = "entering" /\ depth[t] = 0 /\ report[t] = None => given[t] = {}
    /\ pc[t] \in {"sampling", "storing"} /\ report[t] = None => given[t] = {}
    /\ pc[t] = "storing" => latest[t] <= sample[t]
    /\ ~frozen =>
           /\ pc[t] # "fresh"
           /\ depth[t] = 0 => pinned = None /\ owns[t] = {}
           /\ depth[t] > 0 =>
                  /\ pinned # None /\ owns[t] = {1} /\ latest[t] <= pinned
                  /\ report[t] = None => given[t] \subseteq {pinned}

LoneInv ==
    \A t \in Threads :
        t \notin overlapped =>
            /\ pc[t] # "idle" => Alone(t)
            /\ report[t] = None => \E x \in Nat : given[t] \subseteq {x}

LEMMA StepKeepsTime == ASSUME NEW t \in Threads, Step(t) PROVE now' = now /\ Elapsed' = Elapsed
BY DEF Step, BeginQuery, BeginReport, CallQuery, EnterPinned, EnterUnpinned, Sample, Store,
       AgeFrozen, AgeLook, AgeFresh, AgeRead, AgeLost, Leave, EndReport, shared, Elapsed

LEMMA BoundsStep == TypeOK /\ PinInv /\ Bounds /\ [Next]_vars => Bounds'
<1> SUFFICES ASSUME TypeOK, Bounds, [Next]_vars PROVE Bounds'
  OBVIOUS
<1> USE ClockAssumption DEF TypeOK, Bounds
<1>0. Elapsed \in Nat
  BY ElapsedNat
<1>1. CASE UNCHANGED vars
  BY <1>1 DEF vars, Elapsed
<1>2. CASE Tick
  <2>1. Elapsed' \in Nat /\ Elapsed' >= Elapsed
    BY <1>2 DEF Tick, Elapsed, TicksPerSecond
  <2>2. UNCHANGED <<pinned, pc, depth, sample, latest>>
    BY <1>2 DEF Tick
  <2> QED BY <1>0, <2>1, <2>2
<1>3. ASSUME NEW t \in Threads, Step(t) PROVE Bounds'
  <2>1. Elapsed' = Elapsed
    BY <1>3, StepKeepsTime
  <2> USE DEF shared, Goto
  <2>2. CASE BeginQuery(t) \/ BeginReport(t) \/ CallQuery(t) \/ EnterUnpinned(t)
    BY <2>1, <2>2 DEF BeginQuery, BeginReport, CallQuery, EnterUnpinned
  <2>3. CASE EnterPinned(t) \/ Store(t)
    BY <2>1, <2>3 DEF EnterPinned, Store
  <2>4. CASE Sample(t)
    BY <1>0, <2>1, <2>4 DEF Sample
  <2>5. CASE AgeFrozen(t) \/ AgeFresh(t) \/ AgeRead(t)
    BY <1>0, <2>1, <2>5 DEF AgeFrozen, AgeFresh, AgeRead, Give
  <2>6. CASE AgeLook(t) \/ AgeLost(t) \/ EndReport(t)
    BY <2>1, <2>6 DEF AgeLook, AgeLost, EndReport
  <2>7. CASE Leave(t)
    BY <2>1, <2>7 DEF Leave
  <2> QED BY <1>3, <2>2, <2>3, <2>4, <2>5, <2>6, <2>7 DEF Step
<1> QED BY <1>1, <1>2, <1>3 DEF Next

ClockInv == TypeOK /\ PinInv /\ FrozenInv /\ Bounds

\* A call begins: with no other running, no pin is left to find.
LEMMA LoneBegin ==
    ASSUME ClockInv, LoneInv, NEW t \in Threads, BeginQuery(t) \/ BeginReport(t)
    PROVE  LoneInv' /\ (t \in overlapped' \/ latest'[t] >= latest[t])
<1> USE DEF ClockInv, TypeOK
<1>1. /\ pc' = [pc EXCEPT ![t] = pc'[t]] /\ pc'[t] \in {"entering", "reporting"}
      /\ pc'[t] = "reporting" => report'[t] # None
      /\ given' = [given EXCEPT ![t] = {}] /\ pc[t] = "idle" /\ Overlap(t)
      /\ \A u \in Threads : u # t => report'[u] = report[u]
      /\ UNCHANGED <<frozen, now, pinned, depth, owns, sample, latest>>
  BY ClockAssumption, ElapsedNat DEF BeginQuery, BeginReport, Goto, shared
<1>2. CASE Running = {}
  <2>1. \A u \in Threads : pc[u] = "idle" /\ depth[u] = 0 /\ owns[u] = {}
    BY <1>2 DEF Running, Bounds, PinInv
  <2>2. pinned = None
    BY <2>1 DEF PinInv
  <2>3. Alone(t)'
    BY <1>1, <2>1, <2>2 DEF Alone
  <2>4. given'[t] \subseteq {0}
    BY <1>1
  <2>5. \A u \in Threads : u # t => /\ pc'[u] = "idle"
                                    /\ u \notin overlapped' => u \notin overlapped
    BY <1>1, <1>2, <2>1 DEF Overlap
  <2> QED BY <1>1, <2>3, <2>4, <2>5 DEF LoneInv
<1>3. CASE Running # {}
  <2>1. overlapped' = overlapped \cup Running \cup {t}
    BY <1>1, <1>3 DEF Overlap
  <2>2. \A u \in Threads :
          u \notin overlapped' => u # t /\ u \notin overlapped /\ pc'[u] = "idle"
    BY <1>1, <2>1 DEF Running
  <2> QED BY <1>1, <2>1, <2>2 DEF LoneInv
<1> QED BY <1>2, <1>3

\* A step of a call under way: another's can't be if it is alone.
LEMMA LoneStep ==
    ASSUME ClockInv, LoneInv, NEW t \in Threads, Step(t), ~BeginQuery(t), ~BeginReport(t)
    PROVE  LoneInv' /\ (t \in overlapped' \/ latest'[t] >= latest[t])
<1> USE DEF ClockInv, TypeOK
<1>1. /\ pc[t] # "idle" /\ UNCHANGED <<frozen, now, overlapped, report>>
      /\ \A u \in Threads :
            u # t => UNCHANGED <<pc[u], depth[u], owns[u], sample[u], given[u], latest[u]>>
  BY DEF Step, CallQuery, EnterPinned, EnterUnpinned, Sample, Store, AgeFrozen, AgeLook,
              AgeFresh, AgeRead, AgeLost, Leave, EndReport, shared, Goto, Give
<1>2. \A u \in Threads : u # t /\ u \notin overlapped => pc[u] = "idle"
  BY <1>1 DEF LoneInv, Alone
<1>3. CASE t \in overlapped
  BY <1>1, <1>2, <1>3 DEF LoneInv
<1>4. CASE t \notin overlapped
  <2>0. Alone(t) /\ Elapsed \in Nat /\ Elapsed' = Elapsed
    BY <1>1, <1>4, ElapsedNat, StepKeepsTime DEF LoneInv
  <2>1. /\ pc'[t] # "idle" => Alone(t)'
        /\ report'[t] = None => \E x \in Nat : given'[t] \subseteq {x}
        /\ latest'[t] >= latest[t]
    <3> USE <1>1, <2>0 DEF Alone, shared, Goto
    <3>0. report[t] = None => \E x \in Nat : given[t] \subseteq {x}
      BY <1>4 DEF LoneInv
    <3>3. CASE CallQuery(t)
      BY <3>0, <3>3 DEF CallQuery
    <3>4. CASE EnterPinned(t)
      BY <3>0, <3>4 DEF EnterPinned
    <3>5. CASE EnterUnpinned(t)
      BY <3>0, <3>5 DEF EnterUnpinned
    <3>6. CASE Sample(t)
      BY <3>0, <3>6 DEF Sample, Bounds
    <3>7. CASE Store(t)
      BY <3>0, <3>7 DEF Store
    <3>8. CASE AgeFrozen(t)
      <4>1. given[t] \subseteq {0} /\ latest[t] = 0
        BY <3>8 DEF AgeFrozen, FrozenInv
      <4>2. given'[t] \subseteq {0} /\ latest'[t] = 0
        BY <3>8, <4>1 DEF AgeFrozen, Give
      <4> QED BY <3>8, <4>1, <4>2 DEF AgeFrozen
    <3>9. CASE AgeLook(t)
      BY <3>0, <3>9 DEF AgeLook
    <3>10. CASE AgeFresh(t)
      BY <3>10 DEF AgeFresh, FrozenInv
    <3>11. CASE AgeRead(t)
      <4>1. pinned \in Nat /\ ~frozen /\ depth[t] > 0
        BY <3>11 DEF AgeRead, FrozenInv
      <4>2. given'[t] = given[t] \cup {pinned} /\ latest'[t] = pinned
        BY <3>11 DEF AgeRead, Give
      <4>3. report'[t] = None => given'[t] \subseteq {pinned}
        BY <3>11, <4>1, <4>2 DEF AgeRead
      <4> QED BY <3>11, <4>1, <4>2, <4>3 DEF AgeRead
    <3>12. CASE AgeLost(t)
      BY <3>12 DEF AgeLost, FrozenInv
    <3>13. CASE Leave(t)
      <4>1. CASE depth[t] = 1
        BY <3>0, <3>13, <4>1 DEF Leave
      <4>2. CASE depth[t] > 1
        BY <3>0, <3>13, <4>2 DEF Leave
      <4> QED BY <3>13, <4>1, <4>2 DEF Leave
    <3>14. CASE EndReport(t)
      BY <3>0, <3>14 DEF EndReport
    <3> QED
      BY <3>3, <3>4, <3>5, <3>6, <3>7, <3>8, <3>9, <3>10, <3>11, <3>12, <3>13, <3>14 DEF Step
  <2> QED BY <1>1, <1>2, <2>1 DEF LoneInv
<1> QED BY <1>3, <1>4

LEMMA LoneNext ==
    ASSUME ClockInv, LoneInv, [Next]_vars
    PROVE  LoneInv' /\ \A t \in Threads : t \in overlapped' \/ latest'[t] >= latest[t]
<1> USE DEF ClockInv, TypeOK
<1>1. CASE UNCHANGED vars \/ Tick
  BY <1>1 DEF vars, Tick, LoneInv, Alone
<1>2. ASSUME NEW t \in Threads, Step(t)
      PROVE  LoneInv' /\ \A u \in Threads : u \in overlapped' \/ latest'[u] >= latest[u]
  <2>1. \A u \in Threads : u # t => latest'[u] = latest[u]
    BY <1>2 DEF Step, BeginQuery, BeginReport, CallQuery, EnterPinned, EnterUnpinned, Sample,
                Store, AgeFrozen, AgeLook, AgeFresh, AgeRead, AgeLost, Leave, EndReport, Give
  <2> QED BY <1>2, <2>1, LoneBegin, LoneStep
<1> QED BY <1>1, <1>2 DEF Next

LEMMA ClockInvariant == Spec => [](ClockInv /\ LoneInv)
<1>1. Init => ClockInv /\ LoneInv
  <2> SUFFICES ASSUME Init PROVE ClockInv /\ LoneInv
    OBVIOUS
  <2>1. TypeOK
    BY TypeInit
  <2>2. Elapsed \in Nat
    BY <2>1, ElapsedNat DEF TypeOK
  <2>3. \A t \in Threads : given[t] \subseteq {0}
    BY DEF Init
  <2> QED BY <2>1, <2>2, <2>3 DEF Init, ClockInv, PinInv, FrozenInv, Bounds, LoneInv
<1>2. ClockInv /\ LoneInv /\ [Next]_vars => (ClockInv /\ LoneInv)'
  BY TypeStep, PinStep, FrozenStep, BoundsStep, LoneNext DEF ClockInv
<1> QED BY <1>1, <1>2, PTL DEF Spec

\* On any number of threads, a query that no other call overlaps ages every field
\* of its result by one elapsed time (_Clock.pinned, _Clock.elapsed).
THEOREM LoneQuery == Spec => []LoneConsistent
<1>1. ClockInv /\ LoneInv => LoneConsistent
  <2> SUFFICES ASSUME LoneInv, NEW t \in Threads, t \notin overlapped, report[t] = None
               PROVE  Cardinality(given[t]) <= 1
    BY DEF LoneConsistent, Consistent
  <2>1. PICK x \in Nat : given[t] \subseteq {x}
    BY DEF LoneInv
  <2>2. Cardinality({x}) = 1 /\ IsFiniteSet({x})
    BY FS_Singleton
  <2> QED BY <2>1, <2>2, FS_Subset
<1> QED BY <1>1, ClockInvariant, PTL

\* A call that no other overlaps is never told of an earlier time than its
\* thread was before, nor does it go back itself.
THEOREM LoneTime == Spec => LoneAdvance
<1>1. ClockInv /\ LoneInv /\ [Next]_vars
          => [\A t \in Threads : t \in overlapped' \/ latest'[t] >= latest[t]]_vars
  BY LoneNext
<1> QED BY <1>1, ClockInvariant, PTL DEF Spec, LoneAdvance
=============================================================================
