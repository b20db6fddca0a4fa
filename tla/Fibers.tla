------------------------------- MODULE Fibers -------------------------------
(***************************************************************************)
(* The cooperative scheduler of fibers.cpp.  One thread runs one fiber at  *)
(* a time.  Slot 0 is the main fiber, which runs the message loop; the     *)
(* other slots hold background fibers, which give up the thread only by    *)
(* switching back to the main one.  Completion routines of overlapped I/O  *)
(* run inside whatever fiber is current when it waits alertably, so        *)
(* Create and Unblock may happen under any fiber.                          *)
(***************************************************************************)
EXTENDS Naturals, FiniteSets

CONSTANTS MaxFibers,  \* the size of the array fibers, main included
          MaxLeaked   \* bound on the Windows fibers that found no slot

ASSUME MaxFibersAssumption == MaxFibers \in Nat /\ MaxFibers >= 2
ASSUME MaxLeakedAssumption == MaxLeaked \in Nat

MAIN == 0
Slots == 0..(MaxFibers - 1)
Background == 1..(MaxFibers - 1)

VARIABLES cur,     \* the slot whose fiber has the thread
          fi,      \* round robin index into fibers
          status,  \* READY, BLOCKED or REUSE, for each slot
          fiber,   \* the slots that hold a Windows fiber
          asleep,  \* the slots whose sleep_until is still to come
          sync,    \* the slots whose fiber is inside Synchronized
          leaked   \* Windows fibers made for which there was no slot

vars == <<cur, fi, status, fiber, asleep, sync, leaked>>

Init == /\ cur = MAIN
        /\ fi = 0
        /\ status = [i \in Slots |-> IF i = MAIN THEN "READY" ELSE "REUSE"]
        /\ fiber = {MAIN}
        /\ asleep = {}
        /\ sync = {}
        /\ leaked = 0

-----------------------------------------------------------------------------
\* Mutant: every slot that is not READY is cleaned up
EndedNotReady == {i \in Background : status[i] # "READY" /\ i \in fiber}

\* Ended fibers: their slots are free, their Windows fibers not yet deleted.
Ended == {i \in Background : status[i] = "REUSE" /\ i \in fiber}

\* Mutants: the search starts one further, or always at slot 1
TurnSkipsOne(k) == ((fi + k) % (MaxFibers - 1)) + 1
TurnFromStart(k) == k

\* The slot that the k-th turn of the loop in yield looks at.
Turn(k) == ((fi + k - 1) % (MaxFibers - 1)) + 1

Runnable(i) == status[i] = "READY" /\ i \notin asleep

(***************************************************************************)
(* yield by the main fiber: the first runnable fiber after fi gets the     *)
(* thread; ended fibers met on the way are deleted.                        *)
(***************************************************************************)
RunNext ==
  /\ cur = MAIN
  /\ \E k \in Background :
       /\ Runnable(Turn(k))
       /\ \A j \in 1..(k - 1) : ~Runnable(Turn(j))
       /\ cur' = Turn(k)
       /\ fi' = Turn(k)
       /\ fiber' = fiber \ (Ended \cap {Turn(j) : j \in 1..(k - 1)})
  /\ UNCHANGED <<status, asleep, sync, leaked>>

\* yield by the main fiber when it returns false.
RunNone ==
  /\ cur = MAIN
  /\ \A i \in Background : ~Runnable(i)
  /\ fi' = Turn(MaxFibers - 1)
  /\ fiber' = fiber \ Ended
  /\ UNCHANGED <<cur, status, asleep, sync, leaked>>

\* Mutant: the status is set after cur, so it is the main fiber's
SwitchMarksMain(st) ==
  /\ cur # MAIN
  /\ cur' = MAIN
  /\ status' = [status EXCEPT ![MAIN] = st]

\* yield by a background fiber, with its slot left as st says.
SwitchToMain(st) ==
  /\ cur # MAIN
  /\ cur' = MAIN
  /\ status' = [status EXCEPT ![cur] = st]

\* The time slice is over, or a completion routine ran.
YieldIf == /\ cur \notin sync
           /\ SwitchToMain("READY")
           /\ UNCHANGED <<fi, fiber, asleep, sync, leaked>>

Sleep == /\ SwitchToMain("READY")
         /\ asleep' = asleep \cup {cur}
         /\ UNCHANGED <<fi, fiber, sync, leaked>>

Block == /\ SwitchToMain("BLOCKED")
         /\ UNCHANGED <<fi, fiber, asleep, sync, leaked>>

\* The fiber's function is done; Synchronized is left on the way out.
End == /\ SwitchToMain("REUSE")
       /\ sync' = sync \ {cur}
       /\ UNCHANGED <<fi, fiber, asleep, leaked>>

\* The clock passes sleep_until.
Wake(i) == /\ i \in asleep
           /\ asleep' = asleep \ {i}
           /\ UNCHANGED <<cur, fi, status, fiber, sync, leaked>>

\* Mutant: the index is moved past the fiber
UnblockPast(i) == /\ i \in Background
                  /\ status[i] = "BLOCKED"
                  /\ status' = [status EXCEPT ![i] = "READY"]
                  /\ fi' = i + 1
                  /\ UNCHANGED <<cur, fiber, asleep, sync, leaked>>

\* By a completion routine or another fiber; yield will look at i next.
Unblock(i) == /\ i \in Background
              /\ status[i] = "BLOCKED"
              /\ status' = [status EXCEPT ![i] = "READY"]
              /\ fi' = i - 1
              /\ UNCHANGED <<cur, fiber, asleep, sync, leaked>>

\* create deletes the ended fibers, makes a Windows fiber, then puts a fresh
\* Fiber in the first slot that is free.
Create(i) ==
  /\ i \in Background
  /\ status[i] = "REUSE"
  /\ \A j \in 1..(i - 1) : status[j] # "REUSE"
  /\ fiber' = (fiber \ Ended) \cup {i}
  /\ status' = [status EXCEPT ![i] = "READY"]
  /\ asleep' = asleep \ {i}
  /\ sync' = sync \ {i}
  /\ UNCHANGED <<cur, fi, leaked>>

\* Windows makes no fiber: the ended ones are deleted by then, and create throws.
NoResources ==
  /\ fiber' = fiber \ Ended
  /\ UNCHANGED <<cur, fi, status, asleep, sync, leaked>>

\* The limit is only found with the Windows fiber already made; create throws.
CreateFails ==
  /\ \A i \in Background : status[i] # "REUSE"
  /\ leaked < MaxLeaked
  /\ leaked' = leaked + 1
  /\ UNCHANGED <<cur, fi, status, fiber, asleep, sync>>

EnterSync == /\ cur \notin sync
             /\ sync' = sync \cup {cur}
             /\ UNCHANGED <<cur, fi, status, fiber, asleep, leaked>>

LeaveSync == /\ cur \in sync
             /\ sync' = sync \ {cur}
             /\ UNCHANGED <<cur, fi, status, fiber, asleep, leaked>>

Next == \/ RunNext \/ RunNone
        \/ YieldIf \/ Sleep \/ Block \/ End
        \/ EnterSync \/ LeaveSync
        \/ NoResources \/ CreateFails
        \/ \E i \in Slots : Wake(i) \/ Unblock(i) \/ Create(i)

(***************************************************************************)
(* Fairness.  The message loop comes back to yield (messages are finitely  *)
(* many at a time), a background fiber gives up the thread in the end (the *)
(* interpreter and table reads call yieldif, every Synchronized block is   *)
(* left), and time passes.                                                 *)
(***************************************************************************)
GiveUp == cur \notin sync /\ (YieldIf \/ Sleep \/ Block \/ End)
Fairness == /\ WF_vars(RunNext)
            /\ WF_vars(LeaveSync)
            /\ SF_vars(GiveUp)
            /\ \A i \in Background : WF_vars(Wake(i))

Spec == Init /\ [][Next]_vars
FairSpec == Spec /\ Fairness

-----------------------------------------------------------------------------
TypeOK == /\ cur \in Slots
          /\ fi \in Slots
          /\ status \in [Slots -> {"READY", "BLOCKED", "REUSE"}]
          /\ fiber \subseteq Slots
          /\ asleep \subseteq Background
          /\ sync \subseteq Slots
          /\ leaked \in 0..MaxLeaked

\* Whoever has the thread is READY and awake, and the main fiber is READY,
\* which every switch back relies on (the verify in switchto).
CurrentIsReady == Runnable(cur) /\ status[MAIN] = "READY"

\* A slot that may be switched to holds a Windows fiber to switch to: no
\* clean-up, in create or in yield, deletes a fiber that can still run.
LiveHaveFiber == \A i \in Slots : status[i] # "REUSE" => i \in fiber

\* A fiber is switched to only by the main fiber, and goes on only if it is
\* neither blocked nor asleep: a block ends by unblock and by nothing else.
OnlyRunnableRun ==
  [][cur' # cur => \/ cur' = MAIN
                   \/ cur = MAIN /\ status[cur'] = "READY" /\ cur' \notin asleep]_vars

AnyUnblock == \E i \in Background : Unblock(i)

\* If unblocks stop, every fiber that can run gets the thread.  Each unblock
\* moves fi, so endless ones can keep the thread from a third fiber.
NoStarvation ==
  <>[][~AnyUnblock]_vars => \A i \in Background : Runnable(i) ~> cur = i

\* The fiber that unblock has pointed fi at is the next one to run, whatever
\* is created, ends or wakes up before the main fiber yields; only another
\* unblock takes its place.
UnblockedRunsNext ==
  [][\A i \in Background :
       fi = i - 1 /\ Runnable(i) =>
         (fi' = fi /\ Runnable(i)') \/ cur' = i \/ AnyUnblock]_vars
=============================================================================
