---------------------------- MODULE FibersProofs ----------------------------
(***************************************************************************)
(* For every number of slots: the fiber that has the thread can have it,   *)
(* clean-up never deletes a fiber that can still run, and the fiber that   *)
(* was unblocked last runs next.  The parts need each other: that a switch *)
(* finds a Windows fiber rests on the statuses, and that an unblock is not *)
(* of the running fiber on that one being READY.                           *)
(***************************************************************************)
EXTENDS Fibers, TLAPS

\* The round robin does not point at the fiber that is running.
IndexPastCurrent == cur # MAIN => fi # cur - 1

IInv == /\ TypeOK
        /\ CurrentIsReady
        /\ LiveHaveFiber
        /\ IndexPastCurrent

\* A turn of the round robin is a background slot.
LEMMA TurnIsBackground ==
  ASSUME fi \in Slots, NEW k \in Background
  PROVE  Turn(k) \in Background
BY MaxFibersAssumption, SMTT(30) DEF Turn, Slots, Background

LEMMA MainIsSlot == MAIN \in Slots /\ MAIN \notin Background /\ Background \subseteq Slots
BY MaxFibersAssumption DEF MAIN, Slots, Background

LEMMA InitIInv == Init => IInv
BY MainIsSlot, MaxFibersAssumption, MaxLeakedAssumption
   DEF Init, IInv, TypeOK, CurrentIsReady, Runnable, LiveHaveFiber,
       IndexPastCurrent, Slots, MAIN, Background

\* Only main-fiber yields and create delete fibers, and only ended ones.
LEMMA NextIInv == IInv /\ [Next]_vars => IInv'
<1> SUFFICES ASSUME IInv, [Next]_vars PROVE IInv'
  OBVIOUS
<1> USE MainIsSlot
    DEF IInv, TypeOK, CurrentIsReady, Runnable, LiveHaveFiber,
        IndexPastCurrent
<1>1. CASE RunNext
  <2>1. PICK k \in Background : /\ Runnable(Turn(k))
                                /\ cur' = Turn(k)
                                /\ fi' = Turn(k)
                                /\ fiber' \subseteq fiber
                                /\ fiber \ fiber' \subseteq Ended
    BY <1>1 DEF RunNext
  <2>2. Turn(k) \in Background
    BY TurnIsBackground
  <2>3. UNCHANGED <<status, asleep, sync, leaked>>
    BY <1>1 DEF RunNext
  <2> QED
    <3>1. Turn(k) # Turn(k) - 1
      BY <2>2 DEF Background
    <3> QED
      BY <2>1, <2>2, <2>3, <3>1 DEF Ended
<1>2. CASE RunNone
  <2>1. MaxFibers - 1 \in Background
    BY MaxFibersAssumption DEF Background
  <2>2. Turn(MaxFibers - 1) \in Slots
    BY <2>1, TurnIsBackground
  <2> QED
    BY <1>2, <2>2 DEF RunNone, Ended
<1>3. CASE YieldIf
  BY <1>3 DEF YieldIf, SwitchToMain
<1>4. CASE Sleep
  <2>1. cur \in Background
    BY <1>4, MaxFibersAssumption DEF Sleep, SwitchToMain, Slots, Background, MAIN
  <2> QED
    BY <1>4, <2>1 DEF Sleep, SwitchToMain
<1>5. CASE Block
  BY <1>5 DEF Block, SwitchToMain
<1>6. CASE End
  BY <1>6 DEF End, SwitchToMain
<1>7. CASE EnterSync
  BY <1>7 DEF EnterSync
<1>8. CASE LeaveSync
  BY <1>8 DEF LeaveSync
<1>9. CASE CreateFails
  BY <1>9, MaxLeakedAssumption DEF CreateFails
<1>14. CASE NoResources
  BY <1>14 DEF NoResources, Ended
<1>10. CASE \E i \in Slots : Wake(i)
  BY <1>10 DEF Wake
<1>11. CASE \E i \in Slots : Unblock(i)
  <2>1. PICK i \in Background : Unblock(i)
    BY <1>11 DEF Unblock
  <2>2. i - 1 \in Slots
    BY MaxFibersAssumption DEF Slots, Background
  <2>3. cur # MAIN => i - 1 # cur - 1
    BY <2>1 DEF Unblock, Slots, Background
  <2> QED
    BY <2>1, <2>2, <2>3 DEF Unblock
<1>12. CASE \E i \in Slots : Create(i)
  BY <1>12 DEF Create, Ended
<1>13. CASE UNCHANGED vars
  BY <1>13 DEF vars
<1> QED
  BY <1>1, <1>2, <1>3, <1>4, <1>5, <1>6, <1>7, <1>8, <1>9, <1>10, <1>11,
     <1>12, <1>13, <1>14 DEF Next

THEOREM IInvHolds == Spec => []IInv
BY InitIInv, NextIInv, PTL DEF Spec

\* Type correctness of the scheduler.
THEOREM TypeCorrect == Spec => []TypeOK
BY IInvHolds, PTL DEF IInv

\* switchto never meets a fiber that is not READY: the current fiber and the
\* main one always are.
THEOREM CurrentReady == Spec => []CurrentIsReady
BY IInvHolds, PTL DEF IInv

\* Neither create nor yield deletes a Windows fiber that can still run.
THEOREM LiveFibersKept == Spec => []LiveHaveFiber
BY IInvHolds, PTL DEF IInv

\* Only the main fiber switches to a background fiber, and only to one that
\* is neither blocked nor asleep.
THEOREM RunnableOnly == Spec => OnlyRunnableRun
<1>1. IInv /\ [Next]_vars =>
        [cur' # cur => \/ cur' = MAIN
                       \/ cur = MAIN /\ status[cur'] = "READY"
                          /\ cur' \notin asleep]_vars
  <2> SUFFICES ASSUME IInv, Next, cur' # cur, cur' # MAIN
               PROVE  cur = MAIN /\ status[cur'] = "READY" /\ cur' \notin asleep
    BY DEF vars
  <2>1. CASE RunNext
    BY <2>1 DEF RunNext, Runnable
  <2>2. ~RunNext => cur' = cur \/ cur' = MAIN
    BY DEF Next, RunNone, YieldIf, Sleep, Block, End, SwitchToMain, EnterSync,
           LeaveSync, NoResources, CreateFails, Wake, Unblock, Create
  <2> QED
    BY <2>1, <2>2
<1> QED
  BY <1>1, IInvHolds, PTL DEF Spec, OnlyRunnableRun

\* unblock leaves fi where the next search of yield starts with the fiber.
LEMMA FirstTurn ==
  ASSUME NEW i \in Background, fi = i - 1
  PROVE  Turn(1) = i /\ 1 \in Background
<1>1. fi + 1 - 1 = fi /\ fi \in 0..(MaxFibers - 2) /\ MaxFibers - 1 > 0
  BY MaxFibersAssumption DEF Background
<1>2. \A m, n \in Nat : m < n => m % n = m
  BY SMTT(30)
<1> QED
  BY <1>1, <1>2, MaxFibersAssumption, SMTT(30) DEF Turn, Background

\* The fiber unblocked last runs next, whatever else happens before main's
\* next yield.
THEOREM LastUnblockedNext == Spec => UnblockedRunsNext
<1>1. IInv /\ [Next]_vars =>
        [\A i \in Background :
           fi = i - 1 /\ Runnable(i) =>
             (fi' = fi /\ Runnable(i)') \/ cur' = i \/ AnyUnblock]_vars
  <2> SUFFICES ASSUME IInv, Next, NEW i \in Background,
                      fi = i - 1, Runnable(i), ~AnyUnblock, cur' # i
               PROVE  fi' = fi /\ Runnable(i)'
    BY DEF vars
  <2>1. Turn(1) = i /\ 1 \in Background
    BY FirstTurn
  <2>2. ~RunNext
    <3> SUFFICES ASSUME RunNext PROVE FALSE
      OBVIOUS
    <3>1. PICK k \in Background : /\ \A j \in 1..(k - 1) : ~Runnable(Turn(j))
                                  /\ cur' = Turn(k)
      BY DEF RunNext
    <3>2. k = 1
      <4>1. k # 1 => 1 \in 1..(k - 1)
        BY MaxFibersAssumption DEF Background
      <4> QED
        BY <4>1, <3>1, <2>1
    <3> QED
      BY <3>1, <3>2, <2>1
  <2>3. ~RunNone
    BY DEF RunNone
  <2>4. i # cur /\ i \in Slots /\ status \in [Slots -> {"READY", "BLOCKED", "REUSE"}]
    BY MainIsSlot DEF IInv, IndexPastCurrent, TypeOK
  <2>5. \A j \in Slots : ~Unblock(j)
    BY DEF AnyUnblock, Unblock
  <2> QED
    BY <2>2, <2>3, <2>4, <2>5
       DEF Next, Runnable, YieldIf, Sleep, Block, End, SwitchToMain, EnterSync,
           LeaveSync, NoResources, CreateFails, Wake, Create
<1> QED
  BY <1>1, IInvHolds, PTL DEF Spec, UnblockedRunsNext
=============================================================================
