------------------------- MODULE AsyncServerProofs --------------------------
(***************************************************************************)
(* The server for every number of connections, handles, fibers and         *)
(* requests, in two steps.  The first invariant, Base, is of all           *)
(* connections, those that an exception has struck included: what a        *)
(* connection owns is its own, and a blocked fiber is one that waits for   *)
(* its socket.  The second, ConnFits, is of a connection that no exception *)
(* has struck: its fiber does not go on while an operation of it is        *)
(* outstanding, so that it leaves nothing behind in the kernel.            *)
(***************************************************************************)
EXTENDS AsyncServer, FibersProofs, SequenceTheorems

-----------------------------------------------------------------------------
(* The first invariant *)

ItemType == {"accept", "recv", "send"} \X Conns \X Nat
FrameType == {"failed", "wrote", "read", "poll", "yield", "kill", "destroy"} \X Conns

\* The call at the bottom is that of the fiber that has the thread; the others
\* are made by completion routines.
StackOrdered ==
  \A i \in 1..Len(frames) : frames[i][1] = "failed" <=> i > 1 \/ cur = MAIN

FrameOwned(f) ==
  /\ f[1] \in {"wrote", "read", "poll", "yield", "destroy"} =>
       slot[f[2]] = cur /\ Live(f[2])
  /\ f[1] = "destroy" => phase[f[2]] = "closing"

FramesOwned == \A i \in 1..Len(frames) : FrameOwned(frames[i])

\* A connection is accepted once.
Accepts ==
  \A i, j \in 1..Len(done) : done[i][1] = "accept" =>
    /\ phase[done[i][2]] = "accepting"
    /\ done[j][1] = "accept" /\ done[j][2] = done[i][2] => i = j

SlotLive(c) == Live(c) => slot[c] \in Background /\ status[slot[c]] # "REUSE"
TranOpen(c) ==
  c \in tran => phase[c] \in {"command", "argument", "execute", "reply", "destroy"}

Base == /\ IInv
        /\ Types
        /\ ResourcesOwned
        /\ BlockedIsWaiting
        /\ StackOrdered /\ FramesOwned
        /\ Accepts
        /\ \A c \in Conns : SlotLive(c) /\ TranOpen(c)

-----------------------------------------------------------------------------
(* The queue and the stack as sequences *)

LEMMA LengthFacts == ArgLen \in Nat /\ ArgLen > 0 /\ Requests \in Nat
BY LengthsAssumption

LEMMA Pushed ==
  ASSUME NEW S, NEW s \in Seq(S), NEW e \in S
  PROVE  /\ Append(s, e) \in Seq(S)
         /\ Len(s) \in Nat /\ Len(Append(s, e)) = Len(s) + 1
         /\ \A i \in 1..Len(s) : Append(s, e)[i] = s[i]
         /\ Append(s, e)[Len(s) + 1] = e
BY AppendProperties, LenProperties

LEMMA HeadTaken ==
  ASSUME NEW S, NEW s \in Seq(S), s # <<>>
  PROVE  /\ Tail(s) \in Seq(S) /\ Head(s) = s[1] /\ Head(s) \in S
         /\ Len(s) \in Nat \ {0} /\ Len(Tail(s)) = Len(s) - 1
         /\ \A i \in 1..(Len(s) - 1) : Tail(s)[i] = s[i + 1]
<1>1. /\ Tail(s) \in Seq(S) /\ Head(s) = s[1]
      /\ Len(s) \in Nat \ {0} /\ Len(Tail(s)) = Len(s) - 1
      /\ \A i \in 1..(Len(s) - 1) : Tail(s)[i] = s[i + 1]
  BY EmptySeq, HeadTailProperties
<1> QED
  BY <1>1, ElementOfSeq

LEMMA Popped ==
  ASSUME NEW S, NEW s \in Seq(S), s # <<>>
  PROVE  /\ Pop(s) \in Seq(S) /\ s[Len(s)] \in S
         /\ Len(s) \in Nat \ {0} /\ Len(Pop(s)) = Len(s) - 1
         /\ \A i \in 1..Len(Pop(s)) : Pop(s)[i] = s[i]
<1>1. Len(s) \in Nat \ {0}
  BY EmptySeq
<1>2. PICK n \in Nat : n = Len(s) - 1
  BY <1>1
<1>3. 1 \in Int /\ n \in Int /\ \A i \in 1..n : s[i] \in S
  BY <1>1, <1>2, ElementOfSeq
<1>4. /\ SubSeq(s, 1, n) \in Seq(S)
      /\ Len(SubSeq(s, 1, n)) = IF 1 <= n THEN n - 1 + 1 ELSE 0
      /\ \A i \in 1..(n - 1 + 1) : SubSeq(s, 1, n)[i] = s[1 + i - 1]
  BY <1>3, SubSeqProperties
<1>5. n - 1 + 1 = n /\ Len(SubSeq(s, 1, n)) = n
  BY <1>2, <1>4
<1>6. \A i \in 1..n : 1 + i - 1 = i
  OBVIOUS
<1>7. s[Len(s)] \in S
  BY <1>1, ElementOfSeq
<1> QED
  BY <1>1, <1>2, <1>4, <1>5, <1>6, <1>7 DEF Pop

LEMMA QueueHead ==
  ASSUME Types, done # <<>>
  PROVE  /\ done \in Seq(ItemType) /\ Head(done) \in ItemType
         /\ Owner \in Conns /\ Amount \in Nat
         /\ Tail(done) \in Seq(ItemType)
         /\ Len(done) \in Nat \ {0} /\ Len(Tail(done)) = Len(done) - 1
         /\ done[1] = Head(done)
         /\ \A i \in 1..(Len(done) - 1) : Tail(done)[i] = done[i + 1]
<1>1. done \in Seq(ItemType)
  BY DEF Types, ItemType
<1>2. PICK x : x = Head(done)
  OBVIOUS
<1>3. x \in ItemType
  BY <1>1, <1>2, HeadTaken
<1>4. x[2] \in Conns /\ x[3] \in Nat
  BY <1>3 DEF ItemType
<1> QED
  BY <1>1, <1>2, <1>3, <1>4, HeadTaken DEF Owner, Amount

LEMMA StackTop ==
  ASSUME Types, frames # <<>>
  PROVE  /\ frames \in Seq(FrameType) /\ OnTop \in FrameType /\ OnTop[2] \in Conns
         /\ Pop(frames) \in Seq(FrameType)
         /\ Len(frames) \in Nat \ {0} /\ Len(Pop(frames)) = Len(frames) - 1
         /\ \A i \in 1..Len(Pop(frames)) : Pop(frames)[i] = frames[i]
<1>1. frames \in Seq(FrameType)
  BY DEF Types, FrameType
<1>2. PICK f : f = OnTop
  OBVIOUS
<1>3. f \in FrameType
  BY <1>1, <1>2, Popped DEF OnTop
<1>4. f[2] \in Conns
  BY <1>3 DEF FrameType
<1> QED
  BY <1>1, <1>2, <1>3, <1>4, Popped

-----------------------------------------------------------------------------
(* The scheduler under the server *)

\* The wake-up of a fiber is an unblock of the scheduler, if it is a step.
LEMMA WakesFacts ==
  ASSUME Types, BlockedIsWaiting, NEW c \in Conns, Wakes(c)
  PROVE  /\ [Next]_vars /\ cur' = cur
         /\ blocked' = [blocked EXCEPT ![c] = MAIN]
         /\ blocked[c] = MAIN => UNCHANGED vars
         /\ blocked[c] # MAIN => status' = [status EXCEPT ![blocked[c]] = "READY"]
<1>1. CASE blocked[c] = MAIN
  BY <1>1 DEF Wakes, vars, Types
<1>2. CASE blocked[c] # MAIN
  <2>1. blocked[c] \in Slots
    BY DEF Types
  <2> QED
    BY <1>2, <2>1 DEF Wakes, Next, Unblock
<1> QED
  BY <1>1, <1>2

\* Every step is one of the scheduler or leaves it alone.
LEMMA FibersStep ==
  ASSUME Types, BlockedIsWaiting, [SNext]_svars
  PROVE  [Next]_vars
<1>1. ASSUME IoFailedClosed PROVE [Next]_vars
  BY <1>1, StackTop, WakesFacts DEF IoFailedClosed, Slept
<1>2. ASSUME AfterSend PROVE [Next]_vars
  BY <1>2, QueueHead, WakesFacts DEF AfterSend, Completes
<1>3. ASSUME AfterRecv PROVE [Next]_vars
  <2>1. Owner \in Conns
    BY <1>3, QueueHead DEF AfterRecv, Receives, Completes
  <2>2. Wakes(Owner) \/ UNCHANGED vars
    BY <1>3 DEF AfterRecv
  <2> QED
    BY <2>1, <2>2, WakesFacts
<1>4. ASSUME NEW i \in Background, FinishAccept(i) PROVE [Next]_vars
  BY <1>4, MainIsSlot DEF FinishAccept, Next
<1>5. ASSUME AcceptFails PROVE [Next]_vars
  BY <1>5 DEF AcceptFails, Next
<1>6. ASSUME PollBlocks \/ Destroyed \/ MainYields \/ YieldSlept PROVE [Next]_vars
  BY <1>6 DEF PollBlocks, Destroyed, MainYields, YieldSlept, Next
<1>7. ASSUME NEW c \in Conns, WriteLater(c) \/ Ends(c) \/ ExecuteYields(c)
      PROVE  [Next]_vars
  BY <1>7 DEF WriteLater, Ends, ExecuteYields, Next
<1>8. ASSUME NEW c \in Conns,
             \/ WriteNow(c) \/ WriteThrows(c) \/ Written(c) \/ Read(c)
             \/ ReadThrows(c) \/ LostConnection(c) \/ GotCommand(c)
             \/ GotArgument(c) \/ GotLess(c) \/ Execute(c) \/ Destroy(c)
             \/ (\E d \in Conns : Kill(c, d))
             \/ Connect(c) \/ ClientSends(c) \/ ClientLeaves(c)
             \/ RecvEnds(c) \/ SendEnds(c)
      PROVE  UNCHANGED vars
  BY <1>8 DEF WriteNow, WriteThrows, Written, Read, ReadThrows, LostConnection,
     GotCommand, GotArgument, GotLess, Execute, Destroy, Kill, Connect,
     ClientSends, ClientLeaves, RecvEnds, SendEnds
<1>9. ASSUME \/ IoFailed \/ AfterRecvThrows \/ SleepReturns \/ Killed \/ Unwind
             \/ Stopped \/ UNCHANGED svars
      PROVE  UNCHANGED vars
  BY <1>9 DEF IoFailed, AfterRecvThrows, SleepReturns, Killed, Unwind,
     UnwindClose, UnwindIo, UnwindCommand, UnwindDestructor, Stopped, svars
<1> QED
  BY <1>1, <1>2, <1>3, <1>4, <1>5, <1>6, <1>7, <1>8, <1>9
     DEF SNext, ThreadStep, Completion, FiberStep

-----------------------------------------------------------------------------
(* Steps and the first invariant *)

\* What a step other than Connect does to the queue of completions.
IoMoves == \/ done' = done
           \/ \E e \in ItemType : e[1] # "accept" /\ done' = Append(done, e)
           \/ done # <<>> /\ done' = Tail(done)
           \/ /\ done # <<>>
              /\ \E e \in ItemType : e[1] # "accept" /\ done' = Append(Tail(done), e)

LEMMA AcceptsKept ==
  ASSUME Types, Accepts, IoMoves,
         \A d \in Conns : phase[d] = "accepting" =>
           \/ phase'[d] = "accepting"
           \/ /\ done # <<>> /\ done' = Tail(done)
              /\ Head(done)[1] = "accept" /\ d = Owner
  PROVE  Accepts' /\ done' \in Seq(ItemType)
<1>1. done \in Seq(ItemType)
  BY DEF Types, ItemType
<1>2. \A i \in 1..Len(done) : done[i][2] \in Conns
  <2>1. ASSUME NEW i \in 1..Len(done) PROVE done[i][2] \in Conns
    <3>1. PICK x : x = done[i]
      OBVIOUS
    <3>2. x \in ItemType
      BY <1>1, <3>1, ElementOfSeq
    <3> QED
      BY <3>1, <3>2 DEF ItemType
  <2> QED
    BY <2>1
<1>3. CASE done' = done
  <2>1. \A d \in Conns : phase[d] = "accepting" => phase'[d] = "accepting"
    BY <1>1, <1>3, QueueHead
  <2> QED
    BY <1>1, <1>2, <1>3, <2>1 DEF Accepts
<1>4. ASSUME NEW e \in ItemType, e[1] # "accept", done' = Append(done, e)
      PROVE  Accepts' /\ done' \in Seq(ItemType)
  <2>1. /\ done' \in Seq(ItemType) /\ Len(done) \in Nat /\ Len(done') = Len(done) + 1
        /\ \A i \in 1..Len(done) : done'[i] = done[i]
        /\ done'[Len(done) + 1] = e
    BY <1>1, <1>4, Pushed
  <2>2. \A d \in Conns : phase[d] = "accepting" => phase'[d] = "accepting"
    <3>1. done # <<>> => Len(Tail(done)) = Len(done) - 1
      BY QueueHead
    <3> QED
      BY <2>1, <3>1
  <2>3. \A i \in 1..Len(done') : done'[i][1] = "accept" =>
          i \in 1..Len(done) /\ done'[i] = done[i]
    BY <1>4, <2>1
  <2> QED
    BY <1>2, <2>1, <2>2, <2>3 DEF Accepts
<1>5. ASSUME done # <<>>, done' = Tail(done)
      PROVE  Accepts' /\ done' \in Seq(ItemType)
  <2>1. /\ Tail(done) \in Seq(ItemType)
        /\ Len(done) \in Nat \ {0} /\ Len(Tail(done)) = Len(done) - 1
        /\ done[1] = Head(done)
        /\ \A i \in 1..(Len(done) - 1) : Tail(done)[i] = done[i + 1]
    BY <1>5, QueueHead
  <2>2. \A i \in 1..Len(done') : /\ i + 1 \in 1..Len(done) /\ done'[i] = done[i + 1]
                                 /\ 1 \in 1..Len(done) /\ i + 1 # 1
    BY <1>5, <2>1
  <2>3. ASSUME NEW i \in 1..Len(done'), done'[i][1] = "accept"
        PROVE  phase'[done'[i][2]] = "accepting"
    <3>1. /\ i + 1 \in 1..Len(done) /\ done'[i] = done[i + 1]
          /\ 1 \in 1..Len(done) /\ i + 1 # 1
      BY <2>2
    <3>2. PICK k : k = i + 1
      OBVIOUS
    <3>3. k \in 1..Len(done) /\ done'[i] = done[k] /\ done[k][1] = "accept" /\ k # 1
      BY <2>3, <3>1, <3>2
    <3>4. phase[done[k][2]] = "accepting" /\ done[k][2] \in Conns
      BY <1>2, <3>3 DEF Accepts
    <3>5. ~(done[1][1] = "accept" /\ done[1][2] = done[k][2])
      BY <3>1, <3>3 DEF Accepts
    <3> QED
      BY <2>1, <3>3, <3>4, <3>5 DEF Owner
  <2>4. ASSUME NEW i \in 1..Len(done'), NEW j \in 1..Len(done'),
               done'[i][1] = "accept", done'[j][1] = "accept",
               done'[j][2] = done'[i][2]
        PROVE  i = j
    <3>1. PICK k, l : k = i + 1 /\ l = j + 1
      OBVIOUS
    <3>2. /\ k \in 1..Len(done) /\ l \in 1..Len(done)
          /\ done'[i] = done[k] /\ done'[j] = done[l]
      BY <2>2, <3>1
    <3>3. k = l
      BY <2>4, <3>2 DEF Accepts
    <3>4. i \in Int /\ j \in Int
      BY <1>5, <2>1
    <3> QED
      BY <3>1, <3>3, <3>4
  <2> QED
    BY <1>5, <2>1, <2>3, <2>4 DEF Accepts
<1>6. ASSUME done # <<>>, NEW e \in ItemType, e[1] # "accept",
             done' = Append(Tail(done), e)
      PROVE  Accepts' /\ done' \in Seq(ItemType)
  <2>1. PICK t : t = Tail(done)
    OBVIOUS
  <2>2. /\ t \in Seq(ItemType)
        /\ Len(done) \in Nat \ {0} /\ Len(t) = Len(done) - 1
        /\ done[1] = Head(done)
        /\ \A i \in 1..(Len(done) - 1) : t[i] = done[i + 1]
    BY <1>6, <2>1, QueueHead
  <2>3. /\ done' \in Seq(ItemType) /\ Len(done') = Len(t) + 1
        /\ \A i \in 1..Len(t) : done'[i] = t[i]
        /\ done'[Len(t) + 1] = e
    <3>1. done' = Append(t, e)
      BY <1>6, <2>1
    <3>2. /\ Append(t, e) \in Seq(ItemType) /\ Len(Append(t, e)) = Len(t) + 1
          /\ \A i \in 1..Len(t) : Append(t, e)[i] = t[i]
          /\ Append(t, e)[Len(t) + 1] = e
      BY <2>2, Pushed
    <3> QED
      BY <3>1, <3>2
  <2>4. \A d \in Conns : phase[d] = "accepting" => phase'[d] = "accepting"
    <3>1. done' # t
      BY <2>2, <2>3
    <3> QED
      BY <2>1, <3>1
  <2>5. \A i \in 1..Len(done') : done'[i][1] = "accept" =>
          i \in Int /\ i + 1 \in 1..Len(done) /\ done'[i] = done[i + 1]
    BY <1>6, <2>2, <2>3
  <2>6. ASSUME NEW i \in 1..Len(done'), done'[i][1] = "accept"
        PROVE  phase'[done'[i][2]] = "accepting"
    <3>1. PICK k : k = i + 1
      OBVIOUS
    <3>2. k \in 1..Len(done) /\ done'[i] = done[k] /\ done[k][1] = "accept"
      BY <2>5, <2>6, <3>1
    <3>3. phase[done[k][2]] = "accepting" /\ done[k][2] \in Conns
      BY <1>2, <3>2 DEF Accepts
    <3> QED
      BY <2>4, <3>2, <3>3
  <2>7. ASSUME NEW i \in 1..Len(done'), NEW j \in 1..Len(done'),
               done'[i][1] = "accept", done'[j][1] = "accept",
               done'[j][2] = done'[i][2]
        PROVE  i = j
    <3>1. PICK k, l : k = i + 1 /\ l = j + 1
      OBVIOUS
    <3>2. /\ k \in 1..Len(done) /\ l \in 1..Len(done) /\ i \in Int /\ j \in Int
          /\ done'[i] = done[k] /\ done'[j] = done[l]
      BY <2>5, <2>7, <3>1
    <3>3. k = l
      BY <2>7, <3>2 DEF Accepts
    <3> QED
      BY <3>1, <3>2, <3>3
  <2> QED
    BY <2>3, <2>6, <2>7 DEF Accepts
<1> QED
  BY <1>3, <1>1, <1>4, <1>5, <1>6 DEF IoMoves

\* The stack while the thread stays with its fiber, or its call at the bottom
\* returns and the thread goes where it may.
LEMMA StackKept ==
  ASSUME Types, StackOrdered, FramesOwned, cur' = cur, frames' = frames,
         \A f \in FrameType : FrameOwned(f) => FrameOwned(f)'
  PROVE  StackOrdered' /\ FramesOwned' /\ frames' \in Seq(FrameType)
<1>1. frames \in Seq(FrameType)
  BY DEF Types, FrameType
<1>2. \A i \in 1..Len(frames) : frames[i] \in FrameType
  BY <1>1, ElementOfSeq
<1> QED
  BY <1>1, <1>2 DEF StackOrdered, FramesOwned

LEMMA StackFails ==
  ASSUME Types, StackOrdered, FramesOwned, Alertable, NEW c \in Conns,
         cur' = cur, frames' = Append(frames, <<"failed", c>>),
         \A f \in FrameType : FrameOwned(f) => FrameOwned(f)'
  PROVE  StackOrdered' /\ FramesOwned' /\ frames' \in Seq(FrameType)
<1>1. frames \in Seq(FrameType)
  BY DEF Types, FrameType
<1>2. PICK e : e = <<"failed", c>>
  OBVIOUS
<1>3. e \in FrameType /\ e[1] = "failed"
  BY <1>2 DEF FrameType
<1>4. /\ frames' \in Seq(FrameType)
      /\ Len(frames) \in Nat /\ Len(frames') = Len(frames) + 1
      /\ \A i \in 1..Len(frames) : frames'[i] = frames[i]
      /\ frames'[Len(frames) + 1] = e
  BY <1>1, <1>2, <1>3, Pushed
<1>5. \A i \in 1..Len(frames) : frames[i] \in FrameType
  BY <1>1, ElementOfSeq
<1>6. frames = <<>> => Len(frames) = 0
  BY <1>1
<1>7. Len(frames) = 0 => cur = MAIN
  BY <1>1, EmptySeq DEF Alertable
<1>8. StackOrdered'
  BY <1>3, <1>4, <1>7 DEF StackOrdered
<1>9. FramesOwned'
  <2>1. FrameOwned(e)'
    BY <1>3 DEF FrameOwned
  <2> QED
    BY <1>4, <1>5, <2>1 DEF FramesOwned
<1> QED
  BY <1>4, <1>8, <1>9

\* A fiber calls SleepEx: its call is the only one.
LEMMA StackStarts ==
  ASSUME Types, frames = <<>>, cur # MAIN, cur' = cur, NEW f \in FrameType,
         f[1] # "failed", frames' = Append(frames, f), FrameOwned(f)'
  PROVE  /\ StackOrdered' /\ FramesOwned' /\ frames' \in Seq(FrameType)
         /\ Len(frames') = 1 /\ frames'[1] = f
<1>1. frames \in Seq(FrameType) /\ Len(frames) = 0
  BY DEF Types, FrameType
<1>2. frames' \in Seq(FrameType) /\ Len(frames') = 1 /\ frames'[1] = f
  BY <1>1, Pushed
<1> QED
  BY <1>2 DEF StackOrdered, FramesOwned

LEMMA StackEmpty ==
  ASSUME frames' = <<>>
  PROVE  StackOrdered' /\ FramesOwned' /\ frames' \in Seq(FrameType)
<1>1. Len(frames') = 0
  OBVIOUS
<1> QED
  BY <1>1 DEF StackOrdered, FramesOwned

\* The call of a fiber is alone on the stack, and the fiber has the thread.
LEMMA OwnFrame ==
  ASSUME Base, frames # <<>>, OnTop[1] # "failed"
  PROVE  /\ Len(frames) = 1 /\ frames[1] = OnTop /\ FrameOwned(OnTop)
         /\ Pop(frames) = <<>> /\ cur # MAIN
         /\ cur \in Background /\ status[cur] = "READY"
<1>1. /\ frames \in Seq(FrameType) /\ Pop(frames) \in Seq(FrameType)
      /\ Len(frames) \in Nat \ {0} /\ Len(Pop(frames)) = Len(frames) - 1
  BY StackTop DEF Base
<1>2. Len(frames) \in 1..Len(frames)
  BY <1>1
<1>3. Len(frames) = 1 /\ cur # MAIN
  BY <1>1, <1>2 DEF Base, StackOrdered, OnTop
<1>4. FrameOwned(OnTop)
  BY <1>2 DEF Base, FramesOwned, OnTop
<1>5. Pop(frames) = <<>>
  BY <1>1, <1>3, EmptySeq
<1>6. cur \in Background /\ status[cur] = "READY"
  BY <1>3 DEF Base, IInv, TypeOK, CurrentIsReady, Runnable, Slots, Background, MAIN
<1> QED
  BY <1>3, <1>4, <1>5, <1>6 DEF OnTop

LEMMA StackPopped ==
  ASSUME Types, StackOrdered, FramesOwned, frames # <<>>, cur' = cur,
         frames' = Pop(frames),
         \A f \in FrameType : FrameOwned(f) => FrameOwned(f)'
  PROVE  StackOrdered' /\ FramesOwned' /\ frames' \in Seq(FrameType)
<1>1. /\ frames \in Seq(FrameType) /\ frames' \in Seq(FrameType)
      /\ Len(frames) \in Nat \ {0} /\ Len(frames') = Len(frames) - 1
      /\ \A i \in 1..Len(frames') : frames'[i] = frames[i]
  BY StackTop
<1>2. \A i \in 1..Len(frames) : frames[i] \in FrameType
  BY <1>1, ElementOfSeq
<1> QED
  BY <1>1, <1>2 DEF StackOrdered, FramesOwned

Alive == {"hello", "command", "argument", "execute", "reply", "destroy", "closing",
          "caught"}

LEMMA AliveIsLive ==
  ASSUME Types, NEW c \in Conns
  PROVE  Live(c) <=> phase[c] \in Alive
BY DEF Types, Phases, Live, Alive

LEMMA OwnsKept ==
  ASSUME Base, UNCHANGED <<os, sock, slot>>,
         \A d \in Conns : Live(d)' => Live(d)
  PROVE  ResourcesOwned'
BY DEF Base, ResourcesOwned

LEMMA WaitsKept ==
  ASSUME Base, UNCHANGED <<blocked, slot, vars>>,
         \A d \in Conns : Live(d)' <=> Live(d)
  PROVE  BlockedIsWaiting' /\ \A d \in Conns : SlotLive(d)'
<1>1. status' = status
  BY DEF vars
<1> QED
  BY <1>1 DEF Base, BlockedIsWaiting, SlotLive

LEMMA FramesKept ==
  ASSUME cur' = cur, slot' = slot,
         \A d \in Conns : Live(d) => Live(d)',
         \A d \in Conns : phase[d] = "closing" => phase'[d] = "closing"
  PROVE  \A f \in FrameType : FrameOwned(f) => FrameOwned(f)'
<1>1. \A f \in FrameType : f[2] \in Conns
  BY DEF FrameType
<1> QED
  BY <1>1 DEF FrameOwned

LEMMA Assembled ==
  ASSUME IInv', Types', ResourcesOwned', BlockedIsWaiting', StackOrdered',
         FramesOwned', Accepts', \A d \in Conns : SlotLive(d)',
         \A d \in Conns : TranOpen(d)'
  PROVE  Base'
BY DEF Base

\* A step of the network: no fiber, no call and no handle has part in it.
LEMMA OutsideBase ==
  ASSUME Base, IInv', Types', IoMoves,
         UNCHANGED <<os, sock, slot, blocked, frames, phase, tran, vars>>,
         done' # done => \E e \in ItemType : e[1] # "accept" /\ done' = Append(done, e)
  PROVE  Base'
<1>1. cur' = cur /\ Types /\ StackOrdered /\ FramesOwned /\ Accepts
  BY DEF Base, vars
<1>2. \A d \in Conns : Live(d)' <=> Live(d)
  BY DEF Live
<1>3. ResourcesOwned'
  BY <1>2, OwnsKept
<1>4. BlockedIsWaiting' /\ \A d \in Conns : SlotLive(d)'
  BY <1>2, WaitsKept
<1>5. \A f \in FrameType : FrameOwned(f) => FrameOwned(f)'
  BY <1>1, <1>2, FramesKept
<1>6. StackOrdered' /\ FramesOwned'
  BY <1>1, <1>5, StackKept
<1>7. Accepts'
  BY <1>1, AcceptsKept
<1>8. \A d \in Conns : TranOpen(d)'
  BY DEF Base, TranOpen
<1> QED
  BY <1>3, <1>4, <1>6, <1>7, <1>8, Assembled

\* A fiber goes on to another phase, or stays in its own, and may call SleepEx.
LEMMA MovesBase ==
  ASSUME Base, IInv', Types', NEW c \in Conns, frames = <<>>, cur # MAIN,
         phase[c] \in Alive, NEW q \in Alive, q = phase'[c],
         \A d \in Conns \ {c} : phase'[d] = phase[d],
         UNCHANGED <<os, sock, slot, blocked, vars>>,
         done' = done \/ \E e \in ItemType : e[1] # "accept" /\ done' = Append(done, e),
         \/ frames' = frames
         \/ \E f \in FrameType : /\ f[1] # "failed" /\ FrameOwned(f)'
                                 /\ frames' = Append(frames, f),
         \A d \in Conns \ {c} : d \in tran' => d \in tran,
         TranOpen(c)'
  PROVE  Base'
<1>1. cur' = cur /\ Types /\ Accepts
  BY DEF Base, vars
<1>2. \A d \in Conns : Live(d)' <=> Live(d)
  BY DEF Live, Alive
<1>3. ResourcesOwned'
  BY <1>2, OwnsKept
<1>4. BlockedIsWaiting' /\ \A d \in Conns : SlotLive(d)'
  BY <1>2, WaitsKept
<1>5. StackOrdered' /\ FramesOwned'
  BY <1>1, StackStarts, StackEmpty
<1>6. Accepts'
  <2>1. \A d \in Conns : phase[d] = "accepting" => phase'[d] = "accepting"
    BY DEF Alive
  <2>2. IoMoves
    BY DEF IoMoves
  <2> QED
    BY <1>1, <2>1, <2>2, AcceptsKept
<1>7. \A d \in Conns : TranOpen(d)'
  BY DEF Base, TranOpen
<1> QED
  BY <1>3, <1>4, <1>5, <1>6, <1>7, Assembled

\* A completion routine runs, and closes nothing.
LEMMA RoutineBase ==
  ASSUME Base, IInv', Types', IoMoves,
         UNCHANGED <<os, sock, slot, phase, tran>>, cur' = cur,
         done' = done => done = <<>> \/ Head(done)[1] # "accept",
         done # <<>> => Head(done)[1] # "accept",
         BlockedIsWaiting', \A d \in Conns : Live(d) => status'[slot[d]] # "REUSE",
         StackOrdered' /\ FramesOwned'
  PROVE  Base'
<1>1. Types /\ Accepts
  BY DEF Base
<1>2. \A d \in Conns : Live(d)' <=> Live(d)
  BY DEF Live
<1>3. ResourcesOwned'
  BY <1>2, OwnsKept
<1>4. Accepts'
  BY <1>1, AcceptsKept
<1>5. \A d \in Conns : SlotLive(d)' /\ TranOpen(d)'
  BY <1>2 DEF Base, SlotLive, TranOpen
<1> QED
  BY <1>3, <1>4, <1>5, Assembled

\* The fiber that a socket wakes up is its own, and only that one wakes up.
LEMMA WakesKeeps ==
  ASSUME Base, NEW c \in Conns, Wakes(c), UNCHANGED <<phase, slot>>
  PROVE  /\ BlockedIsWaiting' /\ cur' = cur
         /\ blocked' \in [Conns -> Slots] /\ blocked'[c] = MAIN
         /\ \A d \in Conns \ {c} : blocked'[d] = blocked[d]
         /\ \A d \in Conns : Live(d) => status'[slot[d]] # "REUSE"
<1>1. /\ cur' = cur /\ blocked' = [blocked EXCEPT ![c] = MAIN]
      /\ blocked[c] = MAIN => status' = status
      /\ blocked[c] # MAIN => status' = [status EXCEPT ![blocked[c]] = "READY"]
  BY WakesFacts DEF Base, vars
<1>2. /\ blocked \in [Conns -> Slots] /\ slot \in [Conns -> Slots]
      /\ status \in [Slots -> {"READY", "BLOCKED", "REUSE"}]
  BY DEF Base, Types, TypeOK
<1>3. /\ blocked' \in [Conns -> Slots] /\ blocked'[c] = MAIN
      /\ \A d \in Conns \ {c} : blocked'[d] = blocked[d]
  BY <1>1, <1>2, MainIsSlot
<1>4. \A d \in Conns : Live(d)' <=> Live(d)
  BY DEF Live
<1>5. \A d \in Conns : Live(d) => status[slot[d]] # "REUSE"
  BY DEF Base, SlotLive
<1>6. CASE blocked[c] = MAIN
  BY <1>1, <1>2, <1>3, <1>4, <1>5, <1>6 DEF Base, BlockedIsWaiting
<1>7. CASE blocked[c] # MAIN
  <2>1. /\ blocked[c] = slot[c] /\ Live(c)
        /\ \A j \in Slots : status'[j] = IF j = slot[c] THEN "READY" ELSE status[j]
    BY <1>1, <1>2, <1>7 DEF Base, BlockedIsWaiting
  <2>2. \A d \in Conns \ {c} : Live(d) => slot[d] # slot[c]
    BY <2>1 DEF Base, ResourcesOwned
  <2>3. \A d \in Conns : Live(d) => status'[slot[d]] # "REUSE"
    BY <1>2, <1>5, <2>1
  <2>4. \A d \in Conns : blocked'[d] # MAIN =>
          blocked'[d] = slot'[d] /\ Live(d)' /\ status'[slot'[d]] = "BLOCKED"
    BY <1>2, <1>3, <1>4, <2>1, <2>2 DEF Base, BlockedIsWaiting
  <2>5. ASSUME NEW j \in Background, status'[j] = "BLOCKED"
        PROVE  \E d \in Conns : blocked'[d] = j
    <3>1. j # slot[c] /\ status[j] = "BLOCKED"
      BY <2>1, <2>5, MainIsSlot
    <3> QED
      BY <1>3, <2>1, <3>1 DEF Base, BlockedIsWaiting
  <2> QED
    BY <1>1, <1>3, <2>3, <2>4, <2>5 DEF BlockedIsWaiting
<1> QED
  BY <1>6, <1>7

\* A socket that is closed gives up its own handle, and nothing twice.
LEMMA SocketEnds ==
  ASSUME Base, NEW c \in Conns, EndSocket(c),
         \A d \in Conns : slot'[d] = slot[d] /\ (Live(d)' => Live(d))
  PROVE  /\ ResourcesOwned' /\ os' \subseteq Handles
         /\ sock' \in [Conns -> {0} \cup Handles] /\ sock'[c] = 0
         /\ \A d \in Conns \ {c} : sock'[d] = sock[d]
<1>1. sock \in [Conns -> {0} \cup Handles] /\ os \subseteq Handles
  BY DEF Base, Types
<1>2. /\ os' = os \ {sock[c]} /\ sock'[c] = 0
      /\ sock' \in [Conns -> {0} \cup Handles]
      /\ \A d \in Conns \ {c} : sock'[d] = sock[d]
  BY <1>1 DEF EndSocket
<1>3. ASSUME NEW d \in Conns, sock'[d] # 0 PROVE sock'[d] \in os'
  BY <1>2, <1>3 DEF Base, ResourcesOwned
<1> QED
  BY <1>1, <1>2, <1>3 DEF Base, ResourcesOwned

\* The fiber that has the thread is not one that waits for a socket.
LEMMA CurrentWaitsForNone ==
  ASSUME Base, NEW c \in Conns, slot[c] = cur, Live(c)
  PROVE  /\ blocked[c] = MAIN /\ cur \in Background /\ status[cur] = "READY"
         /\ \A d \in Conns \ {c} : Live(d) => slot[d] # cur
<1>1. cur \in Background /\ status[cur] = "READY"
  BY DEF Base, SlotLive, IInv, CurrentIsReady, Runnable
<1>2. blocked[c] = MAIN
  BY <1>1 DEF Base, BlockedIsWaiting
<1>3. \A d \in Conns \ {c} : Live(d) => slot[d] # cur
  BY DEF Base, ResourcesOwned
<1> QED
  BY <1>1, <1>2, <1>3

\* A fiber that blocks for its socket is one that its socket will wake up.
LEMMA Blocks ==
  ASSUME Base, NEW c \in Conns, slot[c] = cur, Live(c), Block,
         blocked' = [blocked EXCEPT ![c] = cur], UNCHANGED <<slot, phase>>
  PROVE  /\ BlockedIsWaiting' /\ cur' = MAIN
         /\ blocked' \in [Conns -> Slots] /\ blocked'[c] # MAIN
         /\ \A d \in Conns \ {c} : blocked'[d] = blocked[d]
         /\ \A d \in Conns : Live(d) => /\ slot[d] # cur'
                                        /\ status'[slot[d]] # "REUSE"
<1>1. /\ blocked[c] = MAIN /\ cur \in Background /\ status[cur] = "READY"
      /\ \A d \in Conns \ {c} : Live(d) => slot[d] # cur
  BY CurrentWaitsForNone
<1>2. /\ blocked \in [Conns -> Slots] /\ slot \in [Conns -> Slots]
      /\ status \in [Slots -> {"READY", "BLOCKED", "REUSE"}]
  BY DEF Base, Types, TypeOK
<1>3. /\ cur' = MAIN
      /\ \A i \in Slots : status'[i] = IF i = cur THEN "BLOCKED" ELSE status[i]
  BY <1>2 DEF Block, SwitchToMain
<1>4. /\ blocked'[c] = cur /\ blocked' \in [Conns -> Slots] /\ cur # MAIN
      /\ \A d \in Conns \ {c} : blocked'[d] = blocked[d]
  BY <1>1, <1>2, MainIsSlot
<1>5. \A d \in Conns : Live(d) => /\ slot[d] \in Background
                                  /\ status[slot[d]] # "REUSE"
  BY DEF Base, SlotLive
<1>6. \A d \in Conns : Live(d) => slot[d] # cur' /\ status'[slot[d]] # "REUSE"
  BY <1>2, <1>3, <1>5, MainIsSlot
<1>7. \A d \in Conns : Live(d)' <=> Live(d)
  BY DEF Live
<1>8. \A d \in Conns : blocked'[d] # MAIN =>
        blocked'[d] = slot'[d] /\ Live(d)' /\ status'[slot'[d]] = "BLOCKED"
  <2>1. status'[slot'[c]] = "BLOCKED" /\ blocked'[c] = slot'[c] /\ Live(c)'
    BY <1>2, <1>3, <1>4, <1>7
  <2> QED
    BY <1>1, <1>2, <1>3, <1>4, <1>7, <2>1 DEF Base, BlockedIsWaiting
<1>9. ASSUME NEW j \in Background, status'[j] = "BLOCKED"
      PROVE  \E d \in Conns : blocked'[d] = j
  <2>1. CASE j = cur
    BY <1>4, <2>1
  <2>2. CASE j # cur
    <3>1. PICK d \in Conns : blocked[d] = j
      BY <1>3, <1>9, <2>2, MainIsSlot DEF Base, BlockedIsWaiting
    <3> QED
      BY <1>1, <1>4, <3>1, MainIsSlot
  <2> QED
    BY <2>1, <2>2
<1> QED
  BY <1>3, <1>4, <1>6, <1>8, <1>9 DEF BlockedIsWaiting

\* The fiber of a connection ends: its slot is free and no one waits in it.
LEMMA FiberEnds ==
  ASSUME Base, NEW c \in Conns, slot[c] = cur, Live(c), End,
         UNCHANGED <<slot, blocked>>, phase'[c] = "ended",
         \A d \in Conns \ {c} : phase'[d] = phase[d]
  PROVE  /\ BlockedIsWaiting' /\ cur' = MAIN
         /\ \A d \in Conns \ {c} : Live(d)' <=> Live(d)
         /\ ~Live(c)' /\ blocked[c] = MAIN
         /\ \A d \in Conns \ {c} : Live(d) => /\ slot[d] # cur'
                                              /\ status'[slot[d]] # "REUSE"
<1>1. /\ blocked[c] = MAIN /\ cur \in Background /\ status[cur] = "READY"
      /\ \A d \in Conns \ {c} : Live(d) => slot[d] # cur
  BY CurrentWaitsForNone
<1>2. /\ blocked \in [Conns -> Slots] /\ slot \in [Conns -> Slots]
      /\ status \in [Slots -> {"READY", "BLOCKED", "REUSE"}]
  BY DEF Base, Types, TypeOK
<1>3. /\ cur' = MAIN
      /\ \A i \in Slots : status'[i] = IF i = cur THEN "REUSE" ELSE status[i]
  BY <1>2 DEF End, SwitchToMain
<1>4. ~Live(c)' /\ \A d \in Conns \ {c} : Live(d)' <=> Live(d)
  BY DEF Live
<1>5. \A d \in Conns : Live(d) => /\ slot[d] \in Background
                                  /\ status[slot[d]] # "REUSE"
  BY DEF Base, SlotLive
<1>6. \A d \in Conns \ {c} : Live(d) => slot[d] # cur' /\ status'[slot[d]] # "REUSE"
  BY <1>1, <1>2, <1>3, <1>5, MainIsSlot
<1>7. \A d \in Conns : blocked'[d] # MAIN =>
        blocked'[d] = slot'[d] /\ Live(d)' /\ status'[slot'[d]] = "BLOCKED"
  BY <1>1, <1>2, <1>3, <1>4 DEF Base, BlockedIsWaiting
<1>8. ASSUME NEW j \in Background, status'[j] = "BLOCKED"
      PROVE  \E d \in Conns : blocked'[d] = j
  <2>1. j # cur /\ status[j] = "BLOCKED"
    BY <1>3, <1>8, MainIsSlot
  <2> QED
    BY <2>1 DEF Base, BlockedIsWaiting
<1> QED
  BY <1>1, <1>3, <1>4, <1>6, <1>7, <1>8 DEF BlockedIsWaiting

\* The thread changes hands, and nothing else is done.
LEMMA SwitchBase ==
  ASSUME Base, IInv', UNCHANGED status, frames' = <<>>,
         UNCHANGED <<kernelVars, done, sock, readVars, blocked, throwVars, phase,
                     back, slot, serverVars>>
  PROVE  Base'
<1>1. \A d \in Conns : Live(d)' <=> Live(d)
  BY DEF Live
<1>2. ResourcesOwned' /\ BlockedIsWaiting' /\ Accepts'
  BY DEF Base, ResourcesOwned, BlockedIsWaiting, Accepts, Live, kernelVars
<1>3. StackOrdered' /\ FramesOwned' /\ frames' \in Seq(FrameType)
  BY StackEmpty
<1>4. \A d \in Conns : SlotLive(d)' /\ TranOpen(d)'
  BY <1>1 DEF Base, SlotLive, TranOpen, serverVars
<1>5. Types'
  BY <1>3 DEF Base, IInv, Types, FrameType, kernelVars, readVars, throwVars, serverVars
<1> QED
  BY <1>2, <1>3, <1>4, <1>5, Assembled

LEMMA ConnectBase ==
  ASSUME Base, IInv', NEW c \in Conns, Connect(c)
  PROVE  Base'
<1>1. PICK h \in Handles \ os : os' = os \cup {h} /\ sock' = [sock EXCEPT ![c] = h]
  BY DEF Connect
<1>2. /\ phase[c] = "none" /\ phase' = [phase EXCEPT ![c] = "accepting"]
      /\ UNCHANGED <<slot, blocked, frames, tran, vars>>
  BY DEF Connect, serverVars
<1>3. h # 0 /\ h \in Handles
  BY <1>1, HandlesAssumption
<1>4. Types
  BY DEF Base
<1>5. PICK e : e = <<"accept", c, 0>>
  OBVIOUS
<1>6. e \in ItemType /\ e[1] = "accept" /\ e[2] = c /\ done' = Append(done, e)
  BY <1>5 DEF Connect, ItemType
<1>7. done \in Seq(ItemType)
  BY <1>4 DEF Types, ItemType
<1>8. /\ done' \in Seq(ItemType) /\ Len(done) \in Nat /\ Len(done') = Len(done) + 1
      /\ \A i \in 1..Len(done) : done'[i] = done[i]
      /\ done'[Len(done) + 1] = e
  BY <1>6, <1>7, Pushed
<1>9. /\ phase'[c] = "accepting" /\ sock'[c] = h
      /\ \A d \in Conns \ {c} : phase'[d] = phase[d] /\ sock'[d] = sock[d]
  BY <1>1, <1>2, <1>4 DEF Types
<1>10. \A d \in Conns : Live(d)' <=> Live(d)
  BY <1>2, <1>9 DEF Live
<1>11. ResourcesOwned'
  BY <1>1, <1>2, <1>9, <1>10 DEF Base, ResourcesOwned
<1>12. BlockedIsWaiting' /\ \A d \in Conns : SlotLive(d)'
  BY <1>2, <1>10, WaitsKept
<1>13. StackOrdered' /\ FramesOwned' /\ frames' \in Seq(FrameType)
  <2>1. cur' = cur /\ \A d \in Conns : phase[d] = "closing" => phase'[d] = "closing"
    BY <1>2, <1>9 DEF vars
  <2>2. \A f \in FrameType : FrameOwned(f) => FrameOwned(f)'
    BY <1>2, <1>10, <2>1, FramesKept
  <2> QED
    BY <1>2, <1>4, <2>1, <2>2, StackKept DEF Base
<1>14. Accepts'
  <2>1. \A i \in 1..Len(done) : done[i][1] = "accept" =>
          phase[done[i][2]] = "accepting" /\ done[i][2] # c
    BY <1>2 DEF Base, Accepts
  <2>2. \A i \in 1..Len(done) : done[i][2] \in Conns
    <3>1. ASSUME NEW i \in 1..Len(done) PROVE done[i][2] \in Conns
      <4>1. PICK x : x = done[i]
        OBVIOUS
      <4>2. x \in ItemType
        BY <1>7, <4>1, ElementOfSeq
      <4> QED
        BY <4>1, <4>2 DEF ItemType
    <3> QED
      BY <3>1
  <2>3. \A i \in 1..Len(done') : i \in 1..Len(done) \/ i = Len(done) + 1
    BY <1>8
  <2>4. \A i \in 1..Len(done') : done'[i][1] = "accept" =>
          phase'[done'[i][2]] = "accepting"
    BY <1>6, <1>8, <1>9, <2>1, <2>2, <2>3
  <2>5. ASSUME NEW i \in 1..Len(done'), NEW j \in 1..Len(done'),
               done'[i][1] = "accept", done'[j][1] = "accept",
               done'[j][2] = done'[i][2]
        PROVE  i = j
    <3>1. CASE i \in 1..Len(done) /\ j \in 1..Len(done)
      BY <1>8, <2>5, <3>1 DEF Base, Accepts
    <3>2. CASE i \in 1..Len(done) /\ j = Len(done) + 1
      BY <1>6, <1>8, <2>1, <2>5, <3>2
    <3>3. CASE i = Len(done) + 1 /\ j \in 1..Len(done)
      BY <1>6, <1>8, <2>1, <2>5, <3>3
    <3> QED
      BY <2>3, <3>1, <3>2, <3>3
  <2> QED
    BY <2>4, <2>5 DEF Accepts
<1>15. \A d \in Conns : TranOpen(d)'
  BY <1>2, <1>9 DEF Base, TranOpen
<1>16. Types'
  <2>1. /\ os' \subseteq Handles /\ sock' \in [Conns -> {0} \cup Handles]
        /\ phase' \in [Conns -> Phases]
    BY <1>1, <1>2, <1>3, <1>4 DEF Types, Phases
  <2> QED
    BY <1>4, <1>8, <1>13, <2>1 DEF Connect, Base, IInv, Types, ItemType, FrameType,
       readVars, throwVars, serverVars
<1> QED
  BY <1>11, <1>12, <1>13, <1>14, <1>15, <1>16, Assembled

LEMMA ClientSendsBase ==
  ASSUME Base, IInv', NEW c \in Conns, ClientSends(c)
  PROVE  Base'
<1>1. PICK n \in 1..asked[c] : /\ asked' = [asked EXCEPT ![c] = @ - n]
                               /\ net' = [net EXCEPT ![c] = @ + n]
  BY DEF ClientSends
<1>2. asked \in [Conns -> 0..(1 + ArgLen)] /\ net \in [Conns -> Nat]
  BY DEF Base, Types
<1>3. asked' \in [Conns -> 0..(1 + ArgLen)] /\ net' \in [Conns -> Nat]
  BY <1>1, <1>2, LengthFacts
<1>4. Types'
  BY <1>3 DEF ClientSends, Base, IInv, Types, readVars, throwVars, serverVars
<1>5. /\ IoMoves /\ done' = done
      /\ UNCHANGED <<os, sock, slot, blocked, frames, phase, tran, vars>>
  BY DEF ClientSends, IoMoves, serverVars
<1> QED
  BY <1>4, <1>5, OutsideBase

LEMMA ClientLeavesBase ==
  ASSUME Base, IInv', NEW c \in Conns, ClientLeaves(c)
  PROVE  Base'
<1>1. Types'
  BY DEF ClientLeaves, Base, IInv, Types, readVars, throwVars, serverVars
<1>2. /\ IoMoves /\ done' = done
      /\ UNCHANGED <<os, sock, slot, blocked, frames, phase, tran, vars>>
  BY DEF ClientLeaves, IoMoves, serverVars
<1> QED
  BY <1>1, <1>2, OutsideBase

LEMMA RecvEndsBase ==
  ASSUME Base, IInv', NEW c \in Conns, RecvEnds(c)
  PROVE  Base'
<1>0. net \in [Conns -> Nat] /\ rcv \in [Conns -> Nat] /\ rcv[c] > 0
  BY DEF RecvEnds, Base, Types
<1>1. PICK n \in Nat : done' = Append(done, <<"recv", c, n>>)
  <2>1. net[c] \in Nat /\ 0 \in Nat
    BY <1>0
  <2>2. CASE sock[c] = 0
    BY <2>1, <2>2 DEF RecvEnds
  <2>3. CASE sock[c] # 0
    BY <2>1, <2>3 DEF RecvEnds
  <2> QED
    BY <2>2, <2>3
<1>2. PICK e : e = <<"recv", c, n>>
  OBVIOUS
<1>3. e \in ItemType /\ e[1] # "accept" /\ done' = Append(done, e)
  BY <1>1, <1>2 DEF ItemType
<1>4. done' \in Seq(ItemType)
  <2>1. done \in Seq(ItemType)
    BY DEF Base, Types, ItemType
  <2> QED
    BY <1>3, <2>1, Pushed
<1>5. net' \in [Conns -> Nat] /\ rcv' \in [Conns -> Nat]
  BY <1>0 DEF RecvEnds
<1>6. Types'
  BY <1>4, <1>5 DEF RecvEnds, Base, IInv, Types, ItemType, readVars, throwVars,
     serverVars
<1>7. IoMoves /\ UNCHANGED <<os, sock, slot, blocked, frames, phase, tran, vars>>
  BY <1>3 DEF RecvEnds, IoMoves, serverVars
<1> QED
  BY <1>3, <1>6, <1>7, OutsideBase

LEMMA SendEndsBase ==
  ASSUME Base, IInv', NEW c \in Conns, SendEnds(c)
  PROVE  Base'
<1>1. PICK n \in Nat : done' = Append(done, <<"send", c, n>>)
  BY DEF SendEnds
<1>2. PICK e : e = <<"send", c, n>>
  OBVIOUS
<1>3. e \in ItemType /\ e[1] # "accept" /\ done' = Append(done, e)
  BY <1>1, <1>2 DEF ItemType
<1>4. done' \in Seq(ItemType)
  <2>1. done \in Seq(ItemType)
    BY DEF Base, Types, ItemType
  <2> QED
    BY <1>3, <2>1, Pushed
<1>5. snd' \in [Conns -> Nat]
  BY DEF SendEnds, Base, Types
<1>6. Types'
  BY <1>4, <1>5 DEF SendEnds, Base, IInv, Types, ItemType, readVars, throwVars,
     serverVars
<1>7. IoMoves /\ UNCHANGED <<os, sock, slot, blocked, frames, phase, tran, vars>>
  BY <1>3 DEF SendEnds, IoMoves, serverVars
<1> QED
  BY <1>3, <1>6, <1>7, OutsideBase

-----------------------------------------------------------------------------
(* The completion routines and the first invariant *)

LEMMA IoFailedBase ==
  ASSUME Base, IInv', IoFailed
  PROVE  Base'
<1>1. /\ Alertable /\ done # <<>> /\ Head(done)[1] # "accept"
      /\ frames' = Append(frames, <<"failed", Owner>>) /\ done' = Tail(done)
      /\ UNCHANGED <<os, sock, slot, blocked, phase, tran, vars>>
  BY DEF IoFailed, Completes, Sleeping, kernelVars, serverVars
<1>2. Types /\ StackOrdered /\ FramesOwned /\ cur' = cur
  BY <1>1 DEF Base, vars
<1>3. Owner \in Conns /\ Tail(done) \in Seq(ItemType)
  BY <1>1, <1>2, QueueHead
<1>4. PICK c \in Conns : c = Owner
  BY <1>3
<1>5. \A d \in Conns : Live(d)' <=> Live(d)
  BY <1>1 DEF Live
<1>6. \A f \in FrameType : FrameOwned(f) => FrameOwned(f)'
  BY <1>1, <1>2, <1>5, FramesKept
<1>7. StackOrdered' /\ FramesOwned' /\ frames' \in Seq(FrameType)
  <2>1. frames' = Append(frames, <<"failed", c>>)
    BY <1>1, <1>4
  <2> QED
    BY <1>1, <1>2, <1>6, <2>1, StackFails
<1>8. BlockedIsWaiting' /\ \A d \in Conns : SlotLive(d)'
  BY <1>1, <1>5, WaitsKept
<1>9. \A d \in Conns : Live(d) => status'[slot[d]] # "REUSE"
  BY <1>1, <1>5, <1>8 DEF SlotLive
<1>10. Types'
  BY <1>1, <1>2, <1>3, <1>7 DEF IoFailed, Base, IInv, Types, ItemType, FrameType,
     kernelVars, readVars, throwVars, serverVars
<1>11. IoMoves
  BY <1>1 DEF IoMoves
<1> QED
  BY <1>1, <1>2, <1>7, <1>8, <1>9, <1>10, <1>11, RoutineBase

LEMMA IoFailedClosedBase ==
  ASSUME Base, IInv', IoFailedClosed
  PROVE  Base'
<1>1. /\ frames # <<>> /\ frames' = Pop(frames) /\ EndSocket(OnTop[2]) /\ Wakes(OnTop[2])
      /\ UNCHANGED <<done, slot, phase, tran>>
  BY DEF IoFailedClosed, Slept, serverVars
<1>2. Types /\ StackOrdered /\ FramesOwned
  BY DEF Base
<1>3. PICK c \in Conns : c = OnTop[2]
  BY <1>1, <1>2, StackTop
<1>4. EndSocket(c) /\ Wakes(c)
  BY <1>1, <1>3
<1>5. \A d \in Conns : Live(d)' <=> Live(d)
  BY <1>1 DEF Live
<1>6. /\ BlockedIsWaiting' /\ cur' = cur /\ blocked' \in [Conns -> Slots]
      /\ \A d \in Conns : Live(d) => status'[slot[d]] # "REUSE"
  BY <1>1, <1>4, WakesKeeps
<1>7. /\ ResourcesOwned' /\ os' \subseteq Handles
      /\ sock' \in [Conns -> {0} \cup Handles]
  BY <1>1, <1>4, <1>5, SocketEnds
<1>8. \A f \in FrameType : FrameOwned(f) => FrameOwned(f)'
  BY <1>1, <1>5, <1>6, FramesKept
<1>9. StackOrdered' /\ FramesOwned' /\ frames' \in Seq(FrameType)
  BY <1>1, <1>2, <1>6, <1>8, StackPopped
<1>10. \A d \in Conns : SlotLive(d)' /\ TranOpen(d)'
  BY <1>1, <1>5, <1>6 DEF Base, SlotLive, TranOpen
<1>11. Accepts'
  BY <1>1 DEF Base, Accepts
<1>12. Types'
  BY <1>2, <1>6, <1>7, <1>9 DEF IoFailedClosed, Base, IInv, Types, FrameType,
     readVars, throwVars, serverVars
<1> QED
  BY <1>6, <1>7, <1>9, <1>10, <1>11, <1>12, Assembled

LEMMA AfterSendBase ==
  ASSUME Base, IInv', AfterSend
  PROVE  Base'
<1>1. /\ done # <<>> /\ Head(done)[1] # "accept" /\ done' = Tail(done) /\ Wakes(Owner)
      /\ UNCHANGED <<os, sock, slot, frames, phase, tran>>
  BY DEF AfterSend, Completes, kernelVars, serverVars
<1>2. Types /\ StackOrdered /\ FramesOwned
  BY DEF Base
<1>3. Owner \in Conns /\ Tail(done) \in Seq(ItemType)
  BY <1>1, <1>2, QueueHead
<1>4. PICK c \in Conns : c = Owner
  BY <1>3
<1>5. Wakes(c)
  BY <1>1, <1>4
<1>6. /\ BlockedIsWaiting' /\ cur' = cur /\ blocked' \in [Conns -> Slots]
      /\ \A d \in Conns : Live(d) => status'[slot[d]] # "REUSE"
  BY <1>1, <1>5, WakesKeeps
<1>7. \A d \in Conns : Live(d)' <=> Live(d)
  BY <1>1 DEF Live
<1>8. \A f \in FrameType : FrameOwned(f) => FrameOwned(f)'
  BY <1>1, <1>6, <1>7, FramesKept
<1>9. StackOrdered' /\ FramesOwned'
  BY <1>1, <1>2, <1>6, <1>8, StackKept
<1>10. Types'
  BY <1>1, <1>2, <1>3, <1>6 DEF AfterSend, Base, IInv, Types, ItemType, kernelVars,
     readVars, throwVars, serverVars
<1>11. IoMoves
  BY <1>1 DEF IoMoves
<1> QED
  BY <1>1, <1>6, <1>9, <1>10, <1>11, RoutineBase

\* What the kernel makes of a receive.
LEMMA RecvTypes ==
  ASSUME Types, NEW c \in Conns, NEW need, NEW q \in Seq(ItemType),
         NEW complete, Recv(c, need, q, complete)
  PROVE  /\ net' \in [Conns -> Nat] /\ rcv' \in [Conns -> Nat]
         /\ done' = q \/ \E e \in ItemType : /\ e[1] # "accept" /\ e[2] = c
                                             /\ done' = Append(q, e)
<1>1. net \in [Conns -> Nat] /\ rcv \in [Conns -> Nat]
  BY DEF Types
<1>2. net' \in [Conns -> Nat] /\ rcv' \in [Conns -> Nat]
  <2>1. UNCHANGED net \/ net' = [net EXCEPT ![c] = 0]
    BY DEF Recv
  <2>2. UNCHANGED rcv \/ rcv' = [rcv EXCEPT ![c] = @ + 1]
    BY DEF Recv
  <2>3. net' \in [Conns -> Nat]
    BY <1>1, <2>1
  <2>4. rcv' \in [Conns -> Nat]
    BY <1>1, <2>2
  <2> QED
    BY <2>3, <2>4
<1>3. PICK n \in Nat : n = net[c]
  BY <1>1
<1>4. PICK e : e = <<"recv", c, n>>
  OBVIOUS
<1>5. e \in ItemType /\ e[1] # "accept" /\ e[2] = c
  BY <1>4 DEF ItemType
<1>6. done' = q \/ done' = Append(q, e)
  BY <1>3, <1>4 DEF Recv
<1> QED
  BY <1>2, <1>5, <1>6

LEMMA ReceivesTypes ==
  ASSUME Types, done # <<>>, Receives
  PROVE  got' \in [Conns -> Nat] /\ required' \in [Conns -> Int]
<1>1. Owner \in Conns /\ Amount \in Nat
  BY QueueHead
<1>2. got \in [Conns -> Nat] /\ required \in [Conns -> Int]
  BY DEF Types
<1> QED
  BY <1>1, <1>2 DEF Receives

LEMMA AfterRecvBase ==
  ASSUME Base, IInv', AfterRecv
  PROVE  Base'
<1>1. /\ Receives /\ done # <<>> /\ Head(done)[1] # "accept"
      /\ UNCHANGED <<os, sock, slot, frames, phase, tran>>
  BY DEF AfterRecv, Receives, Completes, serverVars
<1>2. Types /\ StackOrdered /\ FramesOwned
  BY DEF Base
<1>3. Owner \in Conns /\ Tail(done) \in Seq(ItemType)
  BY <1>1, <1>2, QueueHead
<1>4. PICK c \in Conns : c = Owner
  BY <1>3
<1>5. Wakes(c) \/ UNCHANGED <<blocked, vars>>
  BY <1>4 DEF AfterRecv
<1>6. \A d \in Conns : Live(d)' <=> Live(d)
  BY <1>1 DEF Live
<1>7. /\ BlockedIsWaiting' /\ cur' = cur /\ blocked' \in [Conns -> Slots]
      /\ \A d \in Conns : Live(d) => status'[slot[d]] # "REUSE"
  <2>1. CASE Wakes(c)
    BY <1>1, <2>1, WakesKeeps
  <2>2. CASE UNCHANGED <<blocked, vars>>
    <3>1. BlockedIsWaiting' /\ \A d \in Conns : SlotLive(d)'
      BY <1>1, <1>6, <2>2, WaitsKept
    <3> QED
      BY <1>1, <1>2, <1>6, <2>2, <3>1 DEF SlotLive, Types, vars
  <2> QED
    BY <1>5, <2>1, <2>2
<1>8. \A f \in FrameType : FrameOwned(f) => FrameOwned(f)'
  BY <1>1, <1>6, <1>7, FramesKept
<1>9. StackOrdered' /\ FramesOwned'
  BY <1>1, <1>2, <1>7, <1>8, StackKept
<1>10. /\ net' \in [Conns -> Nat] /\ rcv' \in [Conns -> Nat]
       /\ \/ done' = Tail(done)
          \/ \E e \in ItemType : e[1] # "accept" /\ done' = Append(Tail(done), e)
  <2>1. CASE done' = Tail(done) /\ UNCHANGED <<net, rcv>>
    BY <1>2, <2>1 DEF Types
  <2>2. CASE \E complete \in BOOLEAN :
               Recv(c, required[c] - Amount, Tail(done), complete)
    <3>1. PICK need, q, complete : Recv(c, need, q, complete) /\ q = Tail(done)
      BY <2>2
    <3> QED
      BY <1>2, <1>3, <3>1, RecvTypes
  <2> QED
    BY <1>4, <2>1, <2>2 DEF AfterRecv
<1>11. IoMoves
  BY <1>1, <1>10 DEF IoMoves
<1>12. done' \in Seq(ItemType)
  BY <1>1, <1>2, <1>11, AcceptsKept DEF Base
<1>13. Types'
  <2>1. got' \in [Conns -> Nat] /\ required' \in [Conns -> Int]
    BY <1>1, <1>2, ReceivesTypes
  <2> QED
    BY <1>2, <1>7, <1>10, <1>12, <2>1 DEF AfterRecv, Base, IInv, Types, ItemType,
       throwVars, serverVars
<1> QED
  BY <1>1, <1>7, <1>9, <1>11, <1>13, RoutineBase

LEMMA AfterRecvThrowsBase ==
  ASSUME Base, IInv', AfterRecvThrows
  PROVE  Base'
<1>1. /\ Receives /\ done # <<>> /\ Head(done)[1] # "accept" /\ done' = Tail(done)
      /\ UNCHANGED <<os, sock, slot, blocked, frames, phase, tran, vars>>
  BY DEF AfterRecvThrows, Receives, Completes, kernelVars, serverVars
<1>2. Types /\ StackOrdered /\ FramesOwned /\ cur' = cur
  BY <1>1 DEF Base, vars
<1>3. Owner \in Conns /\ Tail(done) \in Seq(ItemType)
  BY <1>1, <1>2, QueueHead
<1>4. \A d \in Conns : Live(d)' <=> Live(d)
  BY <1>1 DEF Live
<1>5. BlockedIsWaiting' /\ \A d \in Conns : SlotLive(d)'
  BY <1>1, <1>4, WaitsKept
<1>6. \A d \in Conns : Live(d) => status'[slot[d]] # "REUSE"
  BY <1>1, <1>4, <1>5 DEF SlotLive
<1>7. \A f \in FrameType : FrameOwned(f) => FrameOwned(f)'
  BY <1>1, <1>2, <1>4, FramesKept
<1>8. StackOrdered' /\ FramesOwned'
  BY <1>1, <1>2, <1>7, StackKept
<1>9. Types'
  <2>1. got' \in [Conns -> Nat] /\ required' \in [Conns -> Int]
    BY <1>1, <1>2, ReceivesTypes
  <2>2. thrown' \in BOOLEAN /\ struck' \subseteq Conns
    BY <1>2, <1>3 DEF AfterRecvThrows, Types
  <2> QED
    BY <1>1, <1>2, <1>3, <2>1, <2>2 DEF AfterRecvThrows, Base, IInv, Types,
       ItemType, kernelVars, serverVars
<1>10. IoMoves
  BY <1>1 DEF IoMoves
<1> QED
  BY <1>1, <1>2, <1>5, <1>6, <1>8, <1>9, <1>10, RoutineBase


\* The connection that the head of the queue is to accept.
LEMMA Accepted ==
  ASSUME Base, Completes({"accept"})
  PROVE  /\ done # <<>> /\ Head(done)[1] = "accept" /\ Owner \in Conns
         /\ Tail(done) \in Seq(ItemType)
         /\ phase[Owner] = "accepting" /\ blocked[Owner] = MAIN
         /\ ~Live(Owner) /\ Owner \notin tran
<1>1. done # <<>> /\ Head(done)[1] = "accept"
  BY DEF Completes
<1>2. /\ Owner \in Conns /\ Tail(done) \in Seq(ItemType)
      /\ Len(done) \in Nat \ {0} /\ done[1] = Head(done)
  BY <1>1, QueueHead DEF Base
<1>3. 1 \in 1..Len(done)
  BY <1>2
<1>4. phase[Owner] = "accepting"
  BY <1>1, <1>2, <1>3 DEF Base, Accepts, Owner
<1>5. ~Live(Owner) /\ Owner \notin tran /\ blocked[Owner] = MAIN
  BY <1>2, <1>4 DEF Live, Base, TranOpen, BlockedIsWaiting
<1> QED
  BY <1>1, <1>2, <1>4, <1>5

LEMMA FinishAcceptBase ==
  ASSUME Base, IInv', NEW i \in Background, FinishAccept(i)
  PROVE  Base'
<1>1. /\ done' = Tail(done) /\ phase' = [phase EXCEPT ![Owner] = "hello"]
      /\ slot' = [slot EXCEPT ![Owner] = i] /\ Create(i) /\ Completes({"accept"})
      /\ UNCHANGED <<os, sock, blocked, frames, tran>>
  BY DEF FinishAccept, kernelVars, serverVars
<1>2. /\ Types /\ StackOrdered /\ FramesOwned /\ Accepts
      /\ \A d \in Conns : SlotLive(d) /\ TranOpen(d)
  BY DEF Base
<1>3. /\ done # <<>> /\ Head(done)[1] = "accept" /\ Owner \in Conns
      /\ Tail(done) \in Seq(ItemType) /\ phase[Owner] = "accepting"
      /\ blocked[Owner] = MAIN /\ ~Live(Owner) /\ Owner \notin tran
  BY <1>1, Accepted
<1>4. PICK c \in Conns : c = Owner
  BY <1>3
<1>5. /\ phase \in [Conns -> Phases] /\ slot \in [Conns -> Slots]
      /\ status \in [Slots -> {"READY", "BLOCKED", "REUSE"}]
  BY <1>2 DEF Types, TypeOK
<1>6. /\ phase'[c] = "hello" /\ slot'[c] = i
      /\ \A d \in Conns \ {c} : phase'[d] = phase[d] /\ slot'[d] = slot[d]
  BY <1>1, <1>4, <1>5
<1>7. /\ status[i] = "REUSE" /\ i \in Slots /\ i # MAIN /\ cur' = cur
      /\ \A j \in Slots : status'[j] = IF j = i THEN "READY" ELSE status[j]
  BY <1>1, <1>5, MainIsSlot DEF Create
<1>8. /\ Live(c)' /\ ~Live(c)
      /\ \A d \in Conns \ {c} : Live(d)' <=> Live(d)
  BY <1>3, <1>4, <1>6 DEF Live
<1>9. \A d \in Conns \ {c} : Live(d) => slot[d] \in Background /\ slot[d] # i
  BY <1>2, <1>7 DEF SlotLive
<1>10. ResourcesOwned'
  BY <1>1, <1>6, <1>8, <1>9 DEF Base, ResourcesOwned
<1>11. BlockedIsWaiting'
  <2>1. \A d \in Conns : blocked'[d] # MAIN =>
          blocked'[d] = slot'[d] /\ Live(d)' /\ status'[slot'[d]] = "BLOCKED"
    BY <1>1, <1>3, <1>4, <1>5, <1>6, <1>7, <1>8, <1>9 DEF Base, BlockedIsWaiting
  <2>2. ASSUME NEW j \in Background, status'[j] = "BLOCKED"
        PROVE  \E d \in Conns : blocked'[d] = j
    BY <1>1, <1>7, <2>2, MainIsSlot DEF Base, BlockedIsWaiting
  <2> QED
    BY <2>1, <2>2 DEF BlockedIsWaiting
<1>12. \A d \in Conns : SlotLive(d)' /\ TranOpen(d)'
  <2>1. SlotLive(c)' /\ TranOpen(c)'
    BY <1>1, <1>3, <1>4, <1>6, <1>7 DEF SlotLive, TranOpen
  <2>2. \A d \in Conns \ {c} : SlotLive(d)' /\ TranOpen(d)'
    BY <1>1, <1>2, <1>6, <1>7, <1>8, <1>9, MainIsSlot DEF SlotLive, TranOpen
  <2> QED
    BY <2>1, <2>2
<1>13. \A f \in FrameType : FrameOwned(f) => FrameOwned(f)'
  <2>1. \A f \in FrameType : f[2] \in Conns
    BY DEF FrameType
  <2>2. phase[c] # "closing"
    BY <1>3, <1>4
  <2> QED
    BY <1>6, <1>7, <1>8, <2>1, <2>2 DEF FrameOwned
<1>14. StackOrdered' /\ FramesOwned'
  BY <1>1, <1>2, <1>7, <1>13, StackKept
<1>15. Accepts'
  <2>1. IoMoves
    BY <1>1, <1>3 DEF IoMoves
  <2>2. \A d \in Conns \ {c} : phase[d] = "accepting" => phase'[d] = "accepting"
    BY <1>6
  <2> QED
    BY <1>1, <1>2, <1>3, <1>4, <2>1, <2>2, AcceptsKept
<1>16. Types'
  <2>1. phase' \in [Conns -> Phases] /\ slot' \in [Conns -> Slots]
    BY <1>1, <1>5, <1>7 DEF Phases
  <2> QED
    BY <1>1, <1>2, <1>3, <2>1 DEF FinishAccept, Base, IInv, Types, ItemType,
       kernelVars, readVars, throwVars, serverVars
<1> QED
  BY <1>10, <1>11, <1>12, <1>14, <1>15, <1>16, Assembled

LEMMA AcceptFailsBase ==
  ASSUME Base, IInv', AcceptFails
  PROVE  Base'
<1>1. /\ done' = Tail(done) /\ phase' = [phase EXCEPT ![Owner] = "refused"]
      /\ Completes({"accept"})
      /\ UNCHANGED <<os, sock, slot, blocked, frames, tran>>
  BY DEF AcceptFails, kernelVars, serverVars
<1>2. cur' = cur /\ status' = status
  BY DEF AcceptFails, CreateFails, NoResources, vars
<1>3. /\ Types /\ StackOrdered /\ FramesOwned /\ Accepts
      /\ \A d \in Conns : SlotLive(d) /\ TranOpen(d)
  BY DEF Base
<1>4. /\ done # <<>> /\ Head(done)[1] = "accept" /\ Owner \in Conns
      /\ Tail(done) \in Seq(ItemType) /\ phase[Owner] = "accepting"
      /\ ~Live(Owner) /\ Owner \notin tran
  BY <1>1, Accepted
<1>5. PICK c \in Conns : c = Owner
  BY <1>4
<1>6. phase \in [Conns -> Phases]
  BY <1>3 DEF Types
<1>7. phase'[c] = "refused" /\ \A d \in Conns \ {c} : phase'[d] = phase[d]
  BY <1>1, <1>5, <1>6
<1>8. \A d \in Conns : Live(d)' <=> Live(d)
  BY <1>4, <1>5, <1>7 DEF Live
<1>9. ResourcesOwned'
  BY <1>1, <1>8, OwnsKept
<1>10. BlockedIsWaiting' /\ \A d \in Conns : SlotLive(d)'
  BY <1>1, <1>2, <1>3, <1>8 DEF Base, BlockedIsWaiting, SlotLive
<1>11. StackOrdered' /\ FramesOwned'
  <2>1. \A d \in Conns : phase[d] = "closing" => phase'[d] = "closing"
    BY <1>4, <1>5, <1>7
  <2>2. \A f \in FrameType : FrameOwned(f) => FrameOwned(f)'
    BY <1>1, <1>2, <1>8, <2>1, FramesKept
  <2> QED
    BY <1>1, <1>2, <1>3, <2>2, StackKept
<1>12. Accepts'
  <2>1. IoMoves
    BY <1>1, <1>4 DEF IoMoves
  <2> QED
    BY <1>1, <1>3, <1>4, <1>5, <1>7, <2>1, AcceptsKept
<1>13. \A d \in Conns : TranOpen(d)'
  BY <1>1, <1>3, <1>4, <1>5, <1>7 DEF TranOpen
<1>14. Types'
  <2>1. phase' \in [Conns -> Phases]
    BY <1>1, <1>6 DEF Phases
  <2>2. thrown' \in BOOLEAN
    BY <1>3 DEF AcceptFails, Types
  <2> QED
    BY <1>1, <1>3, <1>4, <2>1, <2>2 DEF AcceptFails, Base, IInv, Types, ItemType,
       kernelVars, readVars, serverVars
<1> QED
  BY <1>9, <1>10, <1>11, <1>12, <1>13, <1>14, Assembled

-----------------------------------------------------------------------------
(* The fibers and the first invariant *)

LEMMA GoesTypes ==
  ASSUME Types, NEW c \in Conns, NEW q \in Phases, Goes(c, q)
  PROVE  /\ phase' \in [Conns -> Phases] /\ back' \in [Conns -> BOOLEAN]
         /\ phase'[c] = q /\ ~back'[c]
         /\ \A d \in Conns \ {c} : phase'[d] = phase[d] /\ back'[d] = back[d]
<1>1. phase \in [Conns -> Phases] /\ back \in [Conns -> BOOLEAN]
  BY DEF Types
<1>2. phase' = [phase EXCEPT ![c] = q] /\ back' = [back EXCEPT ![c] = FALSE]
  BY DEF Goes
<1>3. back' \in [Conns -> BOOLEAN]
  BY <1>1, <1>2
<1>4. phase' \in [Conns -> Phases]
  BY <1>1, <1>2
<1> QED
  BY <1>1, <1>2, <1>3, <1>4

\* A fiber goes on to another phase and touches neither queue nor stack.
LEMMA GoesBase ==
  ASSUME Base, IInv', Types', NEW c \in Conns, frames = <<>>, cur # MAIN,
         phase[c] \in Alive,
         NEW q \in {"command", "argument", "execute", "reply", "destroy", "caught"},
         Goes(c, q), q = "caught" => phase[c] = "hello",
         UNCHANGED <<os, sock, slot, blocked, done, frames, tran, vars>>
  PROVE  Base'
<1>1. q \in Phases /\ q \in Alive
  BY DEF Phases, Alive
<1>2. q = phase'[c] /\ \A d \in Conns \ {c} : phase'[d] = phase[d]
  BY <1>1, GoesTypes DEF Base
<1>3. TranOpen(c)'
  BY <1>2 DEF Base, TranOpen
<1>4. /\ done' = done \/ \E e \in ItemType : e[1] # "accept" /\ done' = Append(done, e)
      /\ \/ frames' = frames
         \/ \E f \in FrameType : /\ f[1] # "failed" /\ FrameOwned(f)'
                                 /\ frames' = Append(frames, f)
      /\ \A d \in Conns \ {c} : d \in tran' => d \in tran
      /\ UNCHANGED <<os, sock, slot, blocked, vars>>
  OBVIOUS
<1> QED
  BY <1>1, <1>2, <1>3, <1>4, MovesBase

LEMMA CatchFacts ==
  ASSUME NEW c \in Conns, phase[c] \in {"hello", "command", "argument", "reply"}
  PROVE  /\ Catch(c) \in {"reply", "destroy", "caught"}
         /\ Catch(c) = "caught" => phase[c] = "hello"
         /\ Catch(c) = "reply" => phase[c] = "argument"
         /\ Catch(c) = "caught" <=> phase[c] = "hello"
         /\ Catch(c) = "reply" <=> phase[c] = "argument"
BY DEF Catch

LEMMA WriteThrowsBase ==
  ASSUME Base, IInv', NEW c \in Conns, WriteThrows(c)
  PROVE  Base'
<1>1. /\ frames = <<>> /\ cur # MAIN /\ phase[c] \in {"hello", "reply"}
      /\ Goes(c, Catch(c))
      /\ UNCHANGED <<os, sock, slot, blocked, done, frames, tran, vars>>
  BY DEF WriteThrows, Runs, kernelVars
<1>2. PICK q : q = Catch(c)
  OBVIOUS
<1>3. /\ q \in {"command", "argument", "execute", "reply", "destroy", "caught"}
      /\ q = "caught" => phase[c] = "hello"
      /\ Goes(c, q)
  BY <1>1, <1>2, CatchFacts
<1>4. q \in Phases /\ phase[c] \in Alive
  BY <1>1, <1>3 DEF Phases, Alive
<1>5. Types'
  <2>1. phase' \in [Conns -> Phases] /\ back' \in [Conns -> BOOLEAN]
    BY <1>3, <1>4, GoesTypes DEF Base
  <2>2. servers' \subseteq Conns
    BY DEF WriteThrows, Enlisted, Base, Types
  <2> QED
    BY <2>1, <2>2 DEF WriteThrows, Base, IInv, Types, kernelVars, readVars, throwVars
<1> QED
  BY <1>1, <1>3, <1>4, <1>5, GoesBase

LEMMA WrittenBase ==
  ASSUME Base, IInv', NEW c \in Conns, Written(c)
  PROVE  Base'
<1>1. /\ frames = <<>> /\ cur # MAIN /\ phase[c] \in {"hello", "reply"}
      /\ Goes(c, "command") /\ have' = [have EXCEPT ![c] = 0]
      /\ UNCHANGED <<os, sock, slot, blocked, done, frames, tran, vars>>
  BY DEF Written, Runs, serverVars
<1>2. phase[c] \in Alive /\ "command" \in Phases
  BY <1>1 DEF Phases, Alive
<1>3. left \in [Conns -> 0..Requests] /\ asked \in [Conns -> 0..(1 + ArgLen)]
  BY DEF Base, Types
<1>4. left' \in [Conns -> 0..Requests] /\ asked' \in [Conns -> 0..(1 + ArgLen)]
  <2>1. CASE UNCHANGED <<left, asked>>
    BY <1>3, <2>1
  <2>2. CASE /\ left[c] > 0 /\ left' = [left EXCEPT ![c] = @ - 1]
             /\ asked' = [asked EXCEPT ![c] = 1 + ArgLen]
    BY <1>3, <2>2, LengthFacts
  <2> QED
    BY <2>1, <2>2 DEF Written
<1>5. Types'
  <2>1. phase' \in [Conns -> Phases] /\ back' \in [Conns -> BOOLEAN]
    BY <1>1, <1>2, GoesTypes DEF Base
  <2>2. have' \in [Conns -> Nat]
    BY <1>1 DEF Base, Types
  <2> QED
    BY <1>4, <2>1, <2>2 DEF Written, Base, IInv, Types, throwVars, serverVars
<1> QED
  BY <1>1, <1>2, <1>5, GoesBase

LEMMA ReadThrowsBase ==
  ASSUME Base, IInv', NEW c \in Conns, ReadThrows(c) \/ LostConnection(c)
  PROVE  Base'
<1>1. /\ frames = <<>> /\ cur # MAIN /\ phase[c] \in {"command", "argument"}
      /\ Goes(c, Catch(c)) /\ have' \in {have, [have EXCEPT ![c] = 0]}
      /\ UNCHANGED <<kernelVars, done, sock, required, got, blocked, frames,
                     throwVars, slot, serverVars, vars>>
  BY DEF ReadThrows, LostConnection, Runs, readVars
<1>2. PICK q : q = Catch(c)
  OBVIOUS
<1>3. /\ q \in {"command", "argument", "execute", "reply", "destroy", "caught"}
      /\ q = "caught" => phase[c] = "hello"
      /\ Goes(c, q)
  BY <1>1, <1>2, CatchFacts
<1>4. q \in Phases /\ phase[c] \in Alive
  BY <1>1, <1>3 DEF Phases, Alive
<1>5. Types'
  <2>1. phase' \in [Conns -> Phases] /\ back' \in [Conns -> BOOLEAN]
    BY <1>3, <1>4, GoesTypes DEF Base
  <2>2. have' \in [Conns -> Nat]
    BY <1>1 DEF Base, Types
  <2> QED
    BY <1>1, <2>1, <2>2 DEF Base, IInv, Types, kernelVars, throwVars, serverVars
<1>6. UNCHANGED <<os, sock, slot, blocked, done, frames, tran, vars>>
  BY <1>1 DEF kernelVars, serverVars
<1> QED
  BY <1>1, <1>3, <1>4, <1>5, <1>6, GoesBase

LEMMA GotCommandBase ==
  ASSUME Base, IInv', NEW c \in Conns, GotCommand(c)
  PROVE  Base'
<1>1. /\ frames = <<>> /\ cur # MAIN /\ phase[c] = "command"
      /\ Goes(c, "argument")
      /\ UNCHANGED <<os, sock, slot, blocked, done, frames, tran, vars>>
  BY DEF GotCommand, Runs, kernelVars, serverVars
<1>2. phase[c] \in Alive /\ "argument" \in Phases
  BY <1>1 DEF Phases, Alive
<1>3. Types'
  <2>1. phase' \in [Conns -> Phases] /\ back' \in [Conns -> BOOLEAN]
    BY <1>1, <1>2, GoesTypes DEF Base
  <2>2. have' \in [Conns -> Nat]
    <3>1. have \in [Conns -> Nat] /\ got[c] \in Nat /\ got[c] > 0
      BY DEF GotCommand, Base, Types
    <3> QED
      BY <3>1 DEF GotCommand
  <2> QED
    BY <2>1, <2>2 DEF GotCommand, Base, IInv, Types, kernelVars, throwVars, serverVars
<1> QED
  BY <1>1, <1>2, <1>3, GoesBase

LEMMA GotArgumentBase ==
  ASSUME Base, IInv', NEW c \in Conns, GotArgument(c) \/ GotLess(c)
  PROVE  Base'
<1>1. PICK q \in {"reply", "execute"} : Goes(c, q)
  BY DEF GotArgument, GotLess
<1>2. /\ frames = <<>> /\ cur # MAIN /\ phase[c] = "argument"
      /\ short' \subseteq short \cup {c} /\ garbled' \subseteq garbled \cup {c}
      /\ UNCHANGED <<kernelVars, done, sock, readVars, blocked, frames, throwVars,
                     slot, servers, tran, vars>>
  BY DEF GotArgument, GotLess, Runs, serverVars
<1>3. phase[c] \in Alive /\ q \in Phases
  BY <1>1, <1>2 DEF Phases, Alive
<1>4. Types'
  <2>1. phase' \in [Conns -> Phases] /\ back' \in [Conns -> BOOLEAN]
    BY <1>1, <1>3, GoesTypes DEF Base
  <2> QED
    BY <1>2, <2>1 DEF Base, IInv, Types, kernelVars, readVars, throwVars
<1>5. UNCHANGED <<os, sock, slot, blocked, done, frames, tran, vars>>
  BY <1>2 DEF kernelVars
<1> QED
  BY <1>1, <1>2, <1>3, <1>4, <1>5, GoesBase

LEMMA ExecuteBase ==
  ASSUME Base, IInv', NEW c \in Conns, Execute(c)
  PROVE  Base'
<1>1. /\ frames = <<>> /\ cur # MAIN /\ phase[c] = "execute" /\ Goes(c, "reply")
      /\ tran' \in {tran \cup {c}, tran \ {c}}
      /\ UNCHANGED <<os, sock, slot, blocked, done, frames, vars>>
  BY DEF Execute, Runs, kernelVars
<1>2. phase[c] \in Alive /\ "reply" \in Alive /\ "reply" \in Phases
  BY <1>1 DEF Alive, Phases
<1>3. /\ phase' \in [Conns -> Phases] /\ back' \in [Conns -> BOOLEAN]
      /\ "reply" = phase'[c] /\ \A d \in Conns \ {c} : phase'[d] = phase[d]
  BY <1>1, <1>2, GoesTypes DEF Base
<1>4. Types'
  BY <1>1, <1>3 DEF Execute, Base, IInv, Types, kernelVars, readVars, throwVars
<1>5. TranOpen(c)' /\ \A d \in Conns \ {c} : d \in tran' => d \in tran
  BY <1>1, <1>3 DEF TranOpen
<1> QED
  BY <1>1, <1>2, <1>3, <1>4, <1>5, MovesBase

\* A frame that a fiber pushes.
LEMMA FramePushed ==
  ASSUME Types, frames = <<>>, NEW f \in FrameType, frames' = Append(frames, f)
  PROVE  frames' \in Seq(FrameType)
<1>1. frames \in Seq(FrameType)
  BY DEF Types, FrameType
<1> QED
  BY <1>1, Pushed

LEMMA WriteNowBase ==
  ASSUME Base, IInv', NEW c \in Conns, WriteNow(c)
  PROVE  Base'
<1>1. /\ frames = <<>> /\ cur # MAIN /\ slot[c] = cur
      /\ phase[c] \in {"hello", "reply"}
      /\ UNCHANGED <<os, sock, slot, blocked, phase, tran, vars>>
  BY DEF WriteNow, Runs, kernelVars
<1>2. PICK e, f : e = <<"send", c, 1>> /\ f = <<"wrote", c>>
  OBVIOUS
<1>3. /\ e \in ItemType /\ e[1] # "accept" /\ done' = Append(done, e)
      /\ f \in FrameType /\ f[1] = "wrote" /\ f[2] = c /\ frames' = Append(frames, f)
  BY <1>2 DEF WriteNow, Sleeping, ItemType, FrameType
<1>4. phase[c] \in Alive
  BY <1>1 DEF Alive
<1>5. FrameOwned(f)'
  BY <1>1, <1>3 DEF FrameOwned, Live, vars
<1>6. Types'
  <2>1. done' \in Seq(ItemType)
    <3>1. done \in Seq(ItemType)
      BY DEF Base, Types, ItemType
    <3> QED
      BY <1>3, <3>1, Pushed
  <2>2. frames' \in Seq(FrameType)
    BY <1>1, <1>3, FramePushed DEF Base
  <2>3. back' \in [Conns -> BOOLEAN]
    <3>1. back \in [Conns -> BOOLEAN] /\ back' = [back EXCEPT ![c] = TRUE]
      BY DEF WriteNow, Returns, Base, Types
    <3> QED
      BY <3>1
  <2>4. servers' \subseteq Conns
    BY DEF WriteNow, Enlisted, Base, Types
  <2> QED
    BY <2>1, <2>2, <2>3, <2>4 DEF WriteNow, Base, IInv, Types, ItemType, FrameType,
       kernelVars, readVars, throwVars
<1>7. TranOpen(c)' /\ \A d \in Conns \ {c} : d \in tran' => d \in tran
  BY <1>1 DEF Base, TranOpen
<1>8. phase[c] = phase'[c] /\ \A d \in Conns \ {c} : phase'[d] = phase[d]
  BY <1>1
<1>9. frames' = frames \/ \E g \in FrameType : /\ g[1] # "failed" /\ FrameOwned(g)'
                                               /\ frames' = Append(frames, g)
  BY <1>3, <1>5
<1>10. done' = done \/ \E x \in ItemType : x[1] # "accept" /\ done' = Append(done, x)
  BY <1>3
<1> QED
  BY <1>1, <1>4, <1>6, <1>7, <1>8, <1>9, <1>10, MovesBase

LEMMA ReadBase ==
  ASSUME Base, IInv', NEW c \in Conns, Read(c)
  PROVE  Base'
<1>1. /\ frames = <<>> /\ cur # MAIN /\ slot[c] = cur
      /\ phase[c] \in {"command", "argument"}
      /\ UNCHANGED <<os, sock, slot, blocked, phase, tran, vars>>
  BY DEF Read, Runs, serverVars
<1>2. PICK complete \in BOOLEAN :
        /\ Recv(c, Wanted(c), done, complete)
        /\ frames' = Append(frames, <<IF complete THEN "read" ELSE "poll", c>>)
  BY DEF Read, Sleeping
<1>3. PICK f : f = <<IF complete THEN "read" ELSE "poll", c>>
  OBVIOUS
<1>4. /\ f \in FrameType /\ f[1] \in {"read", "poll"} /\ f[2] = c
      /\ frames' = Append(frames, f)
  BY <1>2, <1>3 DEF FrameType
<1>5. Types /\ done \in Seq(ItemType)
  BY DEF Base, Types, ItemType
<1>6. PICK need : need = Wanted(c)
  OBVIOUS
<1>7. /\ net' \in [Conns -> Nat] /\ rcv' \in [Conns -> Nat]
      /\ done' = done \/ \E e \in ItemType : e[1] # "accept" /\ done' = Append(done, e)
  BY <1>2, <1>5, <1>6, RecvTypes
<1>8. phase[c] \in Alive
  BY <1>1 DEF Alive
<1>9. FrameOwned(f)'
  BY <1>1, <1>4 DEF FrameOwned, Live, vars
<1>10. Types'
  <2>1. done' \in Seq(ItemType)
    <3>1. ASSUME NEW e \in ItemType, done' = Append(done, e)
          PROVE  done' \in Seq(ItemType)
      BY <1>5, <3>1, Pushed
    <3> QED
      BY <1>5, <1>7, <3>1
  <2>2. frames' \in Seq(FrameType)
    BY <1>1, <1>4, <1>5, FramePushed
  <2>3. back' \in [Conns -> BOOLEAN]
    <3>1. back \in [Conns -> BOOLEAN] /\ back' = [back EXCEPT ![c] = TRUE]
      BY DEF Read, Returns, Base, Types
    <3> QED
      BY <3>1
  <2>4. required' \in [Conns -> Int] /\ got' \in [Conns -> Nat]
    <3>1. Wanted(c) \in Int
      BY <1>5, LengthFacts DEF Wanted, Types
    <3> QED
      BY <1>5, <3>1 DEF Read, Types
  <2> QED
    BY <1>5, <1>7, <2>1, <2>2, <2>3, <2>4 DEF Read, Base, IInv, Types, ItemType,
       FrameType, throwVars, serverVars
<1>11. TranOpen(c)' /\ \A d \in Conns \ {c} : d \in tran' => d \in tran
  BY <1>1 DEF Base, TranOpen
<1>12. phase[c] = phase'[c] /\ \A d \in Conns \ {c} : phase'[d] = phase[d]
  BY <1>1
<1>13. frames' = frames \/ \E g \in FrameType : /\ g[1] # "failed" /\ FrameOwned(g)'
                                                /\ frames' = Append(frames, g)
  BY <1>4, <1>9
<1> QED
  BY <1>1, <1>7, <1>8, <1>10, <1>11, <1>12, <1>13, MovesBase

LEMMA KillBase ==
  ASSUME Base, IInv', NEW c \in Conns, NEW b \in Conns, Kill(c, b)
  PROVE  Base'
<1>1. /\ frames = <<>> /\ cur # MAIN /\ phase[c] = "execute" /\ Goes(c, "reply")
      /\ UNCHANGED <<os, sock, slot, blocked, done, tran, vars>>
  BY DEF Kill, Runs, kernelVars, serverVars
<1>2. PICK f : f = <<"kill", b>>
  OBVIOUS
<1>3. f \in FrameType /\ f[1] = "kill" /\ frames' = Append(frames, f)
  BY <1>2 DEF Kill, Sleeping, FrameType
<1>4. phase[c] \in Alive /\ "reply" \in Alive /\ "reply" \in Phases
  BY <1>1 DEF Alive, Phases
<1>5. /\ phase' \in [Conns -> Phases] /\ back' \in [Conns -> BOOLEAN]
      /\ "reply" = phase'[c] /\ \A d \in Conns \ {c} : phase'[d] = phase[d]
  BY <1>1, <1>4, GoesTypes DEF Base
<1>6. FrameOwned(f)'
  BY <1>3 DEF FrameOwned
<1>7. Types'
  <2>1. frames' \in Seq(FrameType)
    BY <1>1, <1>3, FramePushed DEF Base
  <2> QED
    BY <1>1, <1>5, <2>1 DEF Kill, Base, IInv, Types, FrameType, kernelVars, readVars,
       throwVars, serverVars
<1>8. TranOpen(c)' /\ \A d \in Conns \ {c} : d \in tran' => d \in tran
  BY <1>1, <1>5 DEF TranOpen
<1>9. frames' = frames \/ \E g \in FrameType : /\ g[1] # "failed" /\ FrameOwned(g)'
                                               /\ frames' = Append(frames, g)
  BY <1>3, <1>6
<1> QED
  BY <1>1, <1>4, <1>5, <1>7, <1>8, <1>9, MovesBase

LEMMA DestroyBase ==
  ASSUME Base, IInv', NEW c \in Conns, Destroy(c)
  PROVE  Base'
<1>1. /\ frames = <<>> /\ cur # MAIN /\ slot[c] = cur /\ phase[c] = "destroy"
      /\ Goes(c, "closing") /\ tran' = tran \ {c}
      /\ UNCHANGED <<os, sock, slot, blocked, done, vars>>
  BY DEF Destroy, Runs, kernelVars
<1>2. PICK f : f = <<"destroy", c>>
  OBVIOUS
<1>3. f \in FrameType /\ f[1] = "destroy" /\ f[2] = c /\ frames' = Append(frames, f)
  BY <1>2 DEF Destroy, Sleeping, FrameType
<1>4. phase[c] \in Alive /\ "closing" \in Alive /\ "closing" \in Phases
  BY <1>1 DEF Alive, Phases
<1>5. /\ phase' \in [Conns -> Phases] /\ back' \in [Conns -> BOOLEAN]
      /\ "closing" = phase'[c] /\ \A d \in Conns \ {c} : phase'[d] = phase[d]
  BY <1>1, <1>4, GoesTypes DEF Base
<1>6. FrameOwned(f)'
  BY <1>1, <1>3, <1>5 DEF FrameOwned, Live, vars
<1>7. Types'
  <2>1. frames' \in Seq(FrameType)
    BY <1>1, <1>3, FramePushed DEF Base
  <2> QED
    BY <1>1, <1>5, <2>1 DEF Destroy, Base, IInv, Types, FrameType, kernelVars, readVars,
       throwVars
<1>8. TranOpen(c)' /\ \A d \in Conns \ {c} : d \in tran' => d \in tran
  BY <1>1 DEF TranOpen
<1>9. frames' = frames \/ \E g \in FrameType : /\ g[1] # "failed" /\ FrameOwned(g)'
                                               /\ frames' = Append(frames, g)
  BY <1>3, <1>6
<1> QED
  BY <1>1, <1>4, <1>5, <1>7, <1>8, <1>9, MovesBase

LEMMA ExecuteYieldsBase ==
  ASSUME Base, IInv', NEW c \in Conns, ExecuteYields(c)
  PROVE  Base'
<1>1. /\ frames = <<>> /\ cur # MAIN /\ slot[c] = cur /\ phase[c] = "execute"
      /\ UNCHANGED <<kernelVars, done, sock, readVars, blocked, throwVars, phase,
                     back, slot, serverVars>>
  BY DEF ExecuteYields, Runs
<1>2. ASSUME YieldIf, UNCHANGED frames PROVE Base'
  <2>1. status' = status
    <3>1. status' = [status EXCEPT ![cur] = "READY"] /\ status[cur] = "READY"
      BY <1>2 DEF YieldIf, SwitchToMain, Base, IInv, CurrentIsReady, Runnable
    <3> QED
      BY <3>1 DEF Base, Types, TypeOK
  <2> QED
    BY <1>1, <1>2, <2>1, SwitchBase
<1>3. ASSUME Sleeping("yield", c), UNCHANGED vars PROVE Base'
  <2>1. PICK f : f = <<"yield", c>>
    OBVIOUS
  <2>2. f \in FrameType /\ f[1] = "yield" /\ f[2] = c /\ frames' = Append(frames, f)
    BY <1>3, <2>1 DEF Sleeping, FrameType
  <2>3. phase[c] \in Alive /\ phase[c] = phase'[c] /\ FrameOwned(f)'
    BY <1>1, <1>3, <2>2 DEF Alive, FrameOwned, Live, vars
  <2>4. Types'
    <3>1. frames' \in Seq(FrameType)
      BY <1>1, <2>2, FramePushed DEF Base
    <3> QED
      BY <1>1, <1>3, <3>1 DEF Base, IInv, Types, FrameType, kernelVars, readVars,
         throwVars, serverVars
  <2>5. TranOpen(c)' /\ \A d \in Conns \ {c} : d \in tran' => d \in tran
    BY <1>1 DEF Base, TranOpen, serverVars
  <2>6. frames' = frames \/ \E g \in FrameType : /\ g[1] # "failed" /\ FrameOwned(g)'
                                                 /\ frames' = Append(frames, g)
    BY <2>2, <2>3
  <2>7. UNCHANGED <<os, sock, slot, blocked, vars>> /\ done' = done
        /\ \A d \in Conns \ {c} : phase'[d] = phase[d]
    BY <1>1, <1>3 DEF kernelVars
  <2> QED
    BY <1>1, <2>3, <2>4, <2>5, <2>6, <2>7, MovesBase
<1> QED
  BY <1>2, <1>3 DEF ExecuteYields

\* Blocking and ending: the thread is with the main fiber again.
LEMMA BlocksBase ==
  ASSUME Base, IInv', Types', NEW c \in Conns, slot[c] = cur, Live(c), Block,
         blocked' = [blocked EXCEPT ![c] = cur], frames' = <<>>,
         UNCHANGED <<os, sock, done, slot, phase, tran>>
  PROVE  Base'
<1>1. /\ BlockedIsWaiting'
      /\ \A d \in Conns : Live(d) => status'[slot[d]] # "REUSE"
  BY Blocks
<1>2. \A d \in Conns : Live(d)' <=> Live(d)
  BY DEF Live
<1>3. ResourcesOwned'
  BY <1>2, OwnsKept
<1>4. \A d \in Conns : SlotLive(d)' /\ TranOpen(d)'
  BY <1>1, <1>2 DEF Base, SlotLive, TranOpen
<1>5. Accepts'
  BY DEF Base, Accepts
<1> QED
  BY <1>1, <1>3, <1>4, <1>5, StackEmpty, Assembled

LEMMA WriteLaterBase ==
  ASSUME Base, IInv', NEW c \in Conns, WriteLater(c)
  PROVE  Base'
<1>1. /\ frames = <<>> /\ slot[c] = cur /\ phase[c] \in {"hello", "reply"}
      /\ Block /\ blocked' = [blocked EXCEPT ![c] = cur]
      /\ UNCHANGED <<os, sock, done, slot, phase, tran, frames>>
  BY DEF WriteLater, Runs
<1>2. Live(c)
  BY <1>1 DEF Live
<1>3. Types'
  <2>1. blocked' \in [Conns -> Slots]
    BY <1>1, <1>2, Blocks
  <2>2. back' \in [Conns -> BOOLEAN]
    <3>1. back \in [Conns -> BOOLEAN] /\ back' = [back EXCEPT ![c] = TRUE]
      BY DEF WriteLater, Returns, Base, Types
    <3> QED
      BY <3>1
  <2>3. servers' \subseteq Conns
    BY DEF WriteLater, Enlisted, Base, Types
  <2>4. snd' \in [Conns -> Nat]
    BY DEF WriteLater, Base, Types
  <2> QED
    BY <2>1, <2>2, <2>3, <2>4 DEF WriteLater, Base, IInv, Types, readVars, throwVars
<1> QED
  BY <1>1, <1>2, <1>3, BlocksBase

LEMMA PollBlocksBase ==
  ASSUME Base, IInv', PollBlocks
  PROVE  Base'
<1>1. /\ frames # <<>> /\ OnTop[1] = "poll" /\ frames' = Pop(frames)
      /\ blocked' = [blocked EXCEPT ![OnTop[2]] = cur] /\ Block
      /\ UNCHANGED <<kernelVars, done, sock, readVars, throwVars, phase, back, slot,
                     serverVars>>
  BY DEF PollBlocks, Slept
<1>2. PICK c \in Conns : c = OnTop[2]
  BY <1>1, StackTop DEF Base
<1>3. frames' = <<>> /\ slot[c] = cur /\ Live(c)
  BY <1>1, <1>2, OwnFrame DEF FrameOwned
<1>4. blocked' = [blocked EXCEPT ![c] = cur]
  BY <1>1, <1>2
<1>5. blocked' \in [Conns -> Slots]
  BY <1>1, <1>3, <1>4, Blocks
<1>6. Types'
  <2>1. frames' \in Seq(FrameType)
    BY <1>3, StackEmpty
  <2> QED
    BY <1>1, <1>5, <2>1 DEF Base, IInv, Types, FrameType, kernelVars, readVars,
       throwVars, serverVars
<1>7. UNCHANGED <<os, sock, done, slot, phase, tran>>
  BY <1>1 DEF kernelVars, serverVars
<1> QED
  BY <1>1, <1>3, <1>4, <1>6, <1>7, BlocksBase

LEMMA EndsBase ==
  ASSUME Base, IInv', Types', NEW c \in Conns, slot[c] = cur, Live(c), End,
         Goes(c, "ended"), frames' = <<>>, c \notin tran, ResourcesOwned',
         UNCHANGED <<done, slot, blocked, tran>>
  PROVE  Base'
<1>1. phase'[c] = "ended" /\ \A d \in Conns \ {c} : phase'[d] = phase[d]
  BY GoesTypes DEF Base, Phases
<1>2. /\ BlockedIsWaiting' /\ ~Live(c)'
      /\ \A d \in Conns \ {c} : Live(d)' <=> Live(d)
      /\ \A d \in Conns \ {c} : Live(d) => status'[slot[d]] # "REUSE"
  BY <1>1, FiberEnds
<1>3. \A d \in Conns : SlotLive(d)' /\ TranOpen(d)'
  BY <1>1, <1>2 DEF Base, SlotLive, TranOpen
<1>4. Accepts'
  <2>1. \A d \in Conns : phase[d] = "accepting" => phase'[d] = "accepting"
    BY <1>1 DEF Live
  <2>2. IoMoves
    BY DEF IoMoves
  <2> QED
    BY <2>1, <2>2, AcceptsKept DEF Base
<1> QED
  BY <1>2, <1>3, <1>4, StackEmpty, Assembled

LEMMA CaughtEndsBase ==
  ASSUME Base, IInv', NEW c \in Conns, Ends(c)
  PROVE  Base'
<1>1. /\ frames = <<>> /\ slot[c] = cur /\ phase[c] = "caught"
      /\ Goes(c, "ended") /\ End
      /\ UNCHANGED <<kernelVars, done, sock, readVars, blocked, frames, throwVars,
                     slot, serverVars>>
  BY DEF Ends, Runs
<1>2. Live(c) /\ c \notin tran
  BY <1>1 DEF Live, Base, TranOpen
<1>3. /\ phase' \in [Conns -> Phases] /\ back' \in [Conns -> BOOLEAN]
      /\ phase'[c] = "ended" /\ \A d \in Conns \ {c} : phase'[d] = phase[d]
  BY <1>1, GoesTypes DEF Base, Phases
<1>4. ResourcesOwned'
  <2>1. \A d \in Conns : Live(d)' => Live(d)
    BY <1>2, <1>3 DEF Live
  <2> QED
    BY <1>1, <2>1, OwnsKept DEF kernelVars
<1>5. Types'
  BY <1>1, <1>3 DEF Base, IInv, Types, kernelVars, readVars, throwVars, serverVars
<1> QED
  BY <1>1, <1>2, <1>4, <1>5, EndsBase DEF serverVars

LEMMA DestroyedBase ==
  ASSUME Base, IInv', Destroyed
  PROVE  Base'
<1>1. /\ frames # <<>> /\ OnTop[1] = "destroy" /\ frames' = Pop(frames)
      /\ EndSocket(OnTop[2]) /\ Goes(OnTop[2], "ended") /\ End
      /\ UNCHANGED <<gone, left, asked, net, rcv, snd, done, readVars, blocked,
                     throwVars, slot, serverVars>>
  BY DEF Destroyed, Slept
<1>2. PICK c \in Conns : c = OnTop[2]
  BY <1>1, StackTop DEF Base
<1>3. EndSocket(c) /\ Goes(c, "ended")
  BY <1>1, <1>2
<1>4. frames' = <<>> /\ slot[c] = cur /\ Live(c) /\ phase[c] = "closing"
  BY <1>1, <1>2, OwnFrame DEF FrameOwned
<1>5. c \notin tran
  BY <1>4 DEF Base, TranOpen
<1>6. /\ phase' \in [Conns -> Phases] /\ back' \in [Conns -> BOOLEAN]
      /\ phase'[c] = "ended" /\ \A d \in Conns \ {c} : phase'[d] = phase[d]
  BY <1>3, GoesTypes DEF Base, Phases
<1>7. /\ ResourcesOwned' /\ os' \subseteq Handles
      /\ sock' \in [Conns -> {0} \cup Handles]
  <2>1. \A d \in Conns : slot'[d] = slot[d] /\ (Live(d)' => Live(d))
    BY <1>1, <1>4, <1>6 DEF Live
  <2> QED
    BY <1>3, <2>1, SocketEnds
<1>8. Types'
  <2>1. frames' \in Seq(FrameType)
    BY <1>4, StackEmpty
  <2> QED
    BY <1>1, <1>6, <1>7, <2>1 DEF Base, IInv, Types, FrameType, readVars, throwVars,
       serverVars
<1> QED
  BY <1>1, <1>3, <1>4, <1>5, <1>7, <1>8, EndsBase DEF serverVars

LEMMA MainYieldsBase ==
  ASSUME Base, IInv', MainYields
  PROVE  Base'
<1>1. /\ frames' = <<>> /\ status' = status
      /\ UNCHANGED <<kernelVars, done, sock, readVars, blocked, throwVars, phase,
                     back, slot, serverVars>>
  BY DEF MainYields, RunNext, RunNone
<1> QED
  BY <1>1, SwitchBase

LEMMA YieldSleptBase ==
  ASSUME Base, IInv', YieldSlept
  PROVE  Base'
<1>1. /\ frames # <<>> /\ OnTop[1] = "yield" /\ frames' = Pop(frames) /\ YieldIf
      /\ UNCHANGED <<kernelVars, done, sock, readVars, blocked, throwVars, phase,
                     back, slot, serverVars>>
  BY DEF YieldSlept, Slept
<1>2. frames' = <<>> /\ cur \in Background /\ status[cur] = "READY"
  BY <1>1, OwnFrame
<1>3. status' = status
  <2>1. status' = [status EXCEPT ![cur] = "READY"]
    BY <1>1 DEF YieldIf, SwitchToMain
  <2> QED
    BY <1>2, <2>1 DEF Base, Types, TypeOK
<1> QED
  BY <1>1, <1>2, <1>3, SwitchBase

-----------------------------------------------------------------------------
(* Calls that return or are unwound, and the first invariant *)

\* A call is off the stack, and no one has moved but, maybe, its own fiber.
LEMMA PopBase ==
  ASSUME Base, IInv', Types', frames # <<>>, frames' = Pop(frames),
         UNCHANGED <<slot, blocked, done, tran, vars>>, ResourcesOwned',
         \A d \in Conns : \/ phase'[d] = phase[d]
                          \/ /\ d = OnTop[2] /\ OnTop[1] \notin {"failed", "kill"}
                             /\ phase[d] \in Alive /\ phase'[d] \in Alive
                             /\ d \in tran =>
                                  phase'[d] \in {"command", "reply", "destroy"}
  PROVE  Base'
<1>1. Types /\ StackOrdered /\ FramesOwned /\ Accepts /\ cur' = cur
  BY DEF Base, vars
<1>2. \A d \in Conns : Live(d)' <=> Live(d)
  BY DEF Live, Alive
<1>3. BlockedIsWaiting' /\ \A d \in Conns : SlotLive(d)'
  BY <1>2, WaitsKept
<1>4. StackOrdered' /\ FramesOwned'
  <2>1. CASE \A d \in Conns : phase'[d] = phase[d]
    <3>1. \A f \in FrameType : FrameOwned(f) => FrameOwned(f)'
      BY <1>1, <1>2, <2>1, FramesKept
    <3> QED
      BY <1>1, <3>1, StackPopped
  <2>2. CASE OnTop[1] # "failed"
    <3>1. frames' = <<>>
      BY <2>2, OwnFrame
    <3> QED
      BY <3>1, StackEmpty
  <2> QED
    BY <2>1, <2>2
<1>5. Accepts'
  <2>1. \A d \in Conns : phase[d] = "accepting" => phase'[d] = "accepting"
    BY DEF Alive
  <2>2. IoMoves
    BY DEF IoMoves
  <2> QED
    BY <1>1, <2>1, <2>2, AcceptsKept
<1>6. \A d \in Conns : TranOpen(d)'
  BY DEF Base, TranOpen
<1> QED
  BY <1>3, <1>4, <1>5, <1>6, Assembled

LEMMA SleepReturnsBase ==
  ASSUME Base, IInv', SleepReturns
  PROVE  Base'
<1>1. /\ frames # <<>> /\ frames' = Pop(frames)
      /\ UNCHANGED <<kernelVars, done, sock, readVars, blocked, throwVars, phase,
                     back, slot, serverVars, vars>>
  BY DEF SleepReturns, Slept
<1>2. frames' \in Seq(FrameType)
  BY <1>1, StackTop DEF Base
<1>3. Types'
  BY <1>1, <1>2 DEF Base, IInv, Types, FrameType, kernelVars, readVars, throwVars,
     serverVars
<1>4. UNCHANGED <<os, sock, slot, blocked, done, phase, tran, vars>>
  BY <1>1 DEF kernelVars, serverVars
<1>5. ResourcesOwned'
  BY <1>4, OwnsKept DEF Live
<1> QED
  BY <1>1, <1>3, <1>4, <1>5, PopBase

LEMMA KilledBase ==
  ASSUME Base, IInv', Killed
  PROVE  Base'
<1>1. /\ frames # <<>> /\ frames' = Pop(frames) /\ EndSocket(OnTop[2])
      /\ UNCHANGED <<gone, left, asked, net, rcv, snd, done, readVars, blocked,
                     throwVars, phase, back, slot, serverVars, vars>>
  BY DEF Killed, Slept
<1>2. PICK c \in Conns : c = OnTop[2]
  BY <1>1, StackTop DEF Base
<1>3. EndSocket(c)
  BY <1>1, <1>2
<1>4. /\ ResourcesOwned' /\ os' \subseteq Handles
      /\ sock' \in [Conns -> {0} \cup Handles]
  BY <1>1, <1>3, SocketEnds DEF Live
<1>5. frames' \in Seq(FrameType)
  BY <1>1, StackTop DEF Base
<1>6. Types'
  BY <1>1, <1>4, <1>5 DEF Base, IInv, Types, FrameType, readVars, throwVars, serverVars
<1>7. UNCHANGED <<slot, blocked, done, phase, tran, vars>>
  BY <1>1 DEF serverVars
<1> QED
  BY <1>1, <1>4, <1>6, <1>7, PopBase

LEMMA UnwindStillBase ==
  ASSUME Base, IInv', UnwindClose \/ UnwindDestructor
  PROVE  Base'
<1>1. /\ frames # <<>> /\ frames' = Pop(frames) /\ struck' \subseteq struck \cup {OnTop[2]}
      /\ UNCHANGED <<kernelVars, done, sock, readVars, blocked, thrown, phase, back,
                     slot, serverVars, vars>>
  BY DEF UnwindClose, UnwindDestructor, throwVars
<1>2. frames' \in Seq(FrameType) /\ OnTop[2] \in Conns
  BY <1>1, StackTop DEF Base
<1>3. Types'
  BY <1>1, <1>2 DEF Base, IInv, Types, FrameType, kernelVars, readVars, serverVars
<1>4. UNCHANGED <<os, sock, slot, blocked, done, phase, tran, vars>>
  BY <1>1 DEF kernelVars, serverVars
<1>5. ResourcesOwned'
  BY <1>4, OwnsKept DEF Live
<1> QED
  BY <1>1, <1>3, <1>4, <1>5, PopBase

\* An exception in the SleepEx of the fiber's own read, write or command.
LEMMA UnwindGoesBase ==
  ASSUME Base, IInv', frames # <<>>, frames' = Pop(frames),
         OnTop[1] \in {"wrote", "read", "poll", "yield"},
         NEW q \in {"reply", "destroy", "caught"}, Goes(OnTop[2], q),
         q = "caught" => phase[OnTop[2]] = "hello",
         struck' \subseteq Conns, thrown' \in BOOLEAN,
         UNCHANGED <<kernelVars, done, sock, readVars, blocked, slot, serverVars, vars>>
  PROVE  Base'
<1>1. PICK c \in Conns : c = OnTop[2]
  BY StackTop DEF Base
<1>2. frames' \in Seq(FrameType)
  BY StackTop DEF Base
<1>3. Live(c)
  BY <1>1, OwnFrame DEF FrameOwned
<1>4. phase[c] \in Alive /\ q \in Alive /\ q \in Phases
  BY <1>3, AliveIsLive DEF Base, Alive, Phases
<1>5. Goes(c, q)
  BY <1>1
<1>6. /\ phase' \in [Conns -> Phases] /\ back' \in [Conns -> BOOLEAN]
      /\ phase'[c] = q /\ \A d \in Conns \ {c} : phase'[d] = phase[d]
  BY <1>4, <1>5, GoesTypes DEF Base
<1>7. Types'
  BY <1>2, <1>6 DEF Base, IInv, Types, FrameType, kernelVars, readVars, serverVars
<1>8. UNCHANGED <<os, sock, slot, blocked, done, tran, vars>>
  BY DEF kernelVars, serverVars
<1>9. ResourcesOwned'
  <2>1. \A d \in Conns : Live(d)' => Live(d)
    BY <1>3, <1>6 DEF Live
  <2> QED
    BY <1>8, <2>1, OwnsKept
<1>10. c \in tran => phase'[c] \in {"command", "reply", "destroy"}
  BY <1>1, <1>6 DEF Base, TranOpen
<1> QED
  BY <1>1, <1>4, <1>6, <1>7, <1>8, <1>9, <1>10, PopBase

LEMMA UnwindIoBase ==
  ASSUME Base, IInv', UnwindIo
  PROVE  Base'
<1>1. /\ frames # <<>> /\ frames' = Pop(frames) /\ OnTop[1] \in {"wrote", "read", "poll"}
      /\ Goes(OnTop[2], Catch(OnTop[2]))
      /\ struck' = struck \cup {OnTop[2]} /\ thrown' = FALSE
      /\ UNCHANGED <<kernelVars, done, sock, readVars, blocked, slot, serverVars, vars>>
  BY DEF UnwindIo
<1>2. PICK q : q = Catch(OnTop[2])
  OBVIOUS
<1>3. q \in {"reply", "destroy", "caught"} /\ (q = "caught" => phase[OnTop[2]] = "hello")
  BY <1>2 DEF Catch
<1>4. struck' \subseteq Conns
  BY <1>1, StackTop DEF Base, Types
<1>5. Goes(OnTop[2], q)
  BY <1>1, <1>2
<1> QED
  BY <1>1, <1>3, <1>4, <1>5, UnwindGoesBase

LEMMA UnwindCommandBase ==
  ASSUME Base, IInv', UnwindCommand
  PROVE  Base'
<1>1. /\ frames # <<>> /\ frames' = Pop(frames) /\ OnTop[1] \in {"kill", "yield"}
      /\ thrown' = FALSE
      /\ UNCHANGED <<kernelVars, done, sock, readVars, blocked, struck, slot,
                     serverVars, vars>>
  BY DEF UnwindCommand
<1>2. struck' \subseteq Conns
  BY <1>1 DEF Base, Types
<1>3. CASE OnTop[1] = "yield" /\ Goes(OnTop[2], "reply")
  BY <1>1, <1>2, <1>3, UnwindGoesBase
<1>4. CASE UNCHANGED <<phase, back>>
  <2>1. frames' \in Seq(FrameType)
    BY <1>1, StackTop DEF Base
  <2>2. Types'
    BY <1>1, <1>4, <2>1 DEF Base, IInv, Types, FrameType, kernelVars, readVars,
       serverVars
  <2>3. UNCHANGED <<os, sock, slot, blocked, done, phase, tran, vars>>
    BY <1>1, <1>4 DEF kernelVars, serverVars
  <2>4. ResourcesOwned'
    BY <2>3, OwnsKept DEF Live
  <2> QED
    BY <1>1, <2>2, <2>3, <2>4, PopBase
<1> QED
  BY <1>3, <1>4 DEF UnwindCommand

-----------------------------------------------------------------------------
LEMMA StillBase ==
  ASSUME Base, UNCHANGED svars
  PROVE  Base'
<1>1. UNCHANGED <<gone, left, asked, net, os, rcv, snd, done, sock, required, got,
                  have, blocked, frames, thrown, struck, phase, back, slot, servers,
                  tran, short, garbled, cur, fi, status, fiber, asleep, sync, leaked>>
  BY DEF svars, kernelVars, throwVars, readVars, serverVars, vars
<1>2. IInv' /\ Types'
  <2>1. IInv'
    BY <1>1, NextIInv DEF Base, vars
  <2> QED
    BY <1>1, <2>1 DEF Base, IInv, Types
<1>3. IoMoves /\ UNCHANGED <<os, sock, slot, blocked, frames, phase, tran, vars>>
  BY <1>1 DEF IoMoves, vars
<1> QED
  BY <1>1, <1>2, <1>3, OutsideBase

LEMMA InitBase == SInit => Base
<1> SUFFICES ASSUME SInit PROVE Base
  OBVIOUS
<1>1. IInv
  BY InitIInv DEF SInit
<1>2. /\ phase = [c \in Conns |-> "none"] /\ blocked = [c \in Conns |-> MAIN]
      /\ sock = [c \in Conns |-> 0] /\ tran = {} /\ done = <<>> /\ frames = <<>>
      /\ status = [i \in Slots |-> IF i = MAIN THEN "READY" ELSE "REUSE"]
  BY DEF SInit, Init
<1>3. done \in Seq(ItemType) /\ Len(done) = 0 /\ frames \in Seq(FrameType) /\ Len(frames) = 0
  BY <1>2
<1>4. Types
  <2>1. /\ sock \in [Conns -> {0} \cup Handles] /\ required \in [Conns -> Int]
        /\ got \in [Conns -> Nat] /\ have \in [Conns -> Nat]
        /\ net \in [Conns -> Nat] /\ rcv \in [Conns -> Nat] /\ snd \in [Conns -> Nat]
    BY DEF SInit
  <2>2. /\ left \in [Conns -> 0..Requests] /\ asked \in [Conns -> 0..(1 + ArgLen)]
    BY LengthFacts DEF SInit
  <2>3. /\ blocked \in [Conns -> Slots] /\ slot \in [Conns -> Slots]
        /\ back \in [Conns -> BOOLEAN] /\ phase \in [Conns -> Phases]
    BY MainIsSlot DEF SInit, Phases
  <2>4. /\ thrown \in BOOLEAN /\ struck \subseteq Conns /\ gone \subseteq Conns
        /\ os \subseteq Handles /\ servers \subseteq Conns /\ tran \subseteq Conns
        /\ short \subseteq Conns /\ garbled \subseteq Conns
    BY DEF SInit
  <2> QED
    BY <1>1, <1>3, <2>1, <2>2, <2>3, <2>4 DEF IInv, Types, ItemType, FrameType
<1>5. \A c \in Conns : ~Live(c)
  BY <1>2 DEF Live
<1>6. ResourcesOwned /\ \A c \in Conns : SlotLive(c) /\ TranOpen(c)
  BY <1>2, <1>5 DEF ResourcesOwned, SlotLive, TranOpen
<1>7. BlockedIsWaiting
  BY <1>2, MainIsSlot DEF BlockedIsWaiting
<1>8. StackOrdered /\ FramesOwned /\ Accepts
  BY <1>3 DEF StackOrdered, FramesOwned, Accepts
<1> QED
  BY <1>1, <1>4, <1>6, <1>7, <1>8 DEF Base

LEMMA NextBase == Base /\ [SNext]_svars => Base'
<1> SUFFICES ASSUME Base, [SNext]_svars PROVE Base'
  OBVIOUS
<1>1. IInv'
  <2>1. [Next]_vars
    BY FibersStep DEF Base
  <2> QED
    BY <2>1, NextIInv DEF Base
<1>2. ASSUME Completion PROVE Base'
  BY <1>1, <1>2, IoFailedBase, IoFailedClosedBase, AfterSendBase, AfterRecvBase,
     AfterRecvThrowsBase, AcceptFailsBase, FinishAcceptBase DEF Completion
<1>3. ASSUME NEW c \in Conns, FiberStep(c) PROVE Base'
  BY <1>1, <1>3, WriteNowBase, WriteLaterBase, WriteThrowsBase, WrittenBase,
     CaughtEndsBase, ReadBase, ReadThrowsBase, GotCommandBase, GotArgumentBase,
     ExecuteBase, DestroyBase, KillBase DEF FiberStep
<1>4. ASSUME Unwind PROVE Base'
  BY <1>1, <1>4, UnwindStillBase, UnwindIoBase, UnwindCommandBase DEF Unwind
<1>5. ASSUME \/ SleepReturns \/ PollBlocks \/ YieldSlept \/ Killed \/ Destroyed
             \/ MainYields
      PROVE  Base'
  BY <1>1, <1>5, SleepReturnsBase, PollBlocksBase, YieldSleptBase, KilledBase,
     DestroyedBase, MainYieldsBase
<1>6. ASSUME NEW c \in Conns,
             \/ Connect(c) \/ ClientSends(c) \/ ClientLeaves(c)
             \/ RecvEnds(c) \/ SendEnds(c) \/ ExecuteYields(c)
      PROVE  Base'
  BY <1>1, <1>6, ConnectBase, ClientSendsBase, ClientLeavesBase, RecvEndsBase,
     SendEndsBase, ExecuteYieldsBase
<1>7. ASSUME Stopped \/ UNCHANGED svars PROVE Base'
  BY <1>7, StillBase DEF Stopped
<1> QED
  BY <1>2, <1>3, <1>4, <1>5, <1>6, <1>7 DEF SNext, ThreadStep

\* The first invariant, of all connections, whatever exceptions have cut short:
\* the call at the bottom of the SleepEx calls is that of the fiber that has the
\* thread, a connection is accepted once, it owns its handle and its fiber alone
\* and is the one that its fiber blocks for, and its transaction does not outlive
\* its destructor.
THEOREM BaseHolds == SSpec => []Base
  BY InitBase, NextBase, PTL DEF SSpec

-----------------------------------------------------------------------------
(* The second invariant: a connection that no exception has struck *)

\* What is queued for a connection, and the calls made for it.
QueuedIn(s, c) == {x \in {s[i] : i \in 1..Len(s)} : x[2] = c}
OneIn(s, c) == \A i, j \in 1..Len(s) : s[i][2] = c /\ s[j][2] = c => i = j
Queued(c) == QueuedIn(done, c)
Called(w, c) == \E i \in 1..Len(frames) : frames[i] = <<w, c>>
OneFailed(c) ==
  \A i, j \in 1..Len(frames) :
    frames[i] = <<"failed", c>> /\ frames[j] = <<"failed", c>> => i = j

Writing(c) == phase[c] \in {"hello", "reply"} /\ back[c]
Reading(c) == phase[c] \in {"command", "argument"} /\ back[c]

\* Its operation is in one place at most: in the kernel, in the queue, or in the
\* close() of a completion routine.
InKernel(c) == rcv[c] > 0 \/ snd[c] > 0
Alone(c) ==
  /\ OneIn(done, c) /\ OneFailed(c)
  /\ rcv[c] + snd[c] <= 1
  /\ InKernel(c) => Queued(c) = {}
  /\ InKernel(c) \/ Queued(c) # {} => ~Called("failed", c)

Outstanding(c) == InKernel(c) \/ Queued(c) # {} \/ Called("failed", c)

\* It is of the kind that its fiber waits for.
Kinds(c) ==
  /\ rcv[c] > 0 => Reading(c) /\ required[c] > 0
  /\ snd[c] > 0 => Writing(c)
  /\ \A x \in Queued(c) : \/ x[1] = "accept" /\ phase[c] = "accepting"
                          \/ x[1] = "send" /\ Writing(c)
                          \/ x[1] = "recv" /\ Reading(c) /\ required[c] > 0
  /\ Called("failed", c) => Writing(c) \/ Reading(c)
  /\ Called("wrote", c) => Writing(c)
  /\ Called("read", c) \/ Called("poll", c) => Reading(c)
  /\ Called("yield", c) => phase[c] = "execute"

\* What is queued ends the current read or write, with an error or without.
LastPiece(c) ==
  /\ ~InKernel(c)
  /\ \A x \in Queued(c) : x[1] = "recv" => x[3] = 0 \/ required[c] <= x[3]

\* The fiber of a connection goes on only when nothing is outstanding for it.
Awaited(c) ==
  Outstanding(c) /\ phase[c] # "accepting" =>
    \/ blocked[c] # MAIN
    \/ Called("poll", c)
    \/ LastPiece(c) /\ (slot[c] # cur \/ Called("wrote", c) \/ Called("read", c))

\* A read returns with less than it needs only when the socket is closed.
Returned(c) ==
  Reading(c) /\ ~Outstanding(c) /\ blocked[c] = MAIN /\ ~Called("poll", c) =>
    required[c] <= 0 \/ sock[c] = 0

BlockedInIo(c) == blocked[c] # MAIN => Writing(c) \/ Reading(c)

IoFits(c) == Alone(c) /\ Kinds(c) /\ Awaited(c) /\ Returned(c) /\ BlockedInIo(c)

\* The bytes of a request, wherever they are, are at most those of one request.
Unsent(c) == IF c \in gone THEN 0 ELSE asked[c]
Taken(c) == CASE phase[c] = "command" -> IF back[c] THEN got[c] ELSE 0
              [] phase[c] = "argument" -> IF back[c] THEN 1 + have[c] + got[c]
                                          ELSE 1 + have[c]
              [] OTHER -> 0
Bytes(c) ==
  /\ Taken(c) + net[c] + Unsent(c) <= 1 + ArgLen
  /\ \A x \in Queued(c) : x[1] = "recv" =>
       Taken(c) + x[3] + net[c] + Unsent(c) <= 1 + ArgLen

Counted(c) ==
  /\ phase[c] = "command" => have[c] = 0
  /\ phase[c] = "command" /\ back[c] => got[c] + required[c] = 1
  /\ phase[c] = "argument" => have[c] <= ArgLen
  /\ phase[c] = "argument" /\ back[c] => /\ have[c] < ArgLen
                                         /\ got[c] + required[c] = ArgLen - have[c]

\* Between two requests nothing is on the way.
AllCame(c) == asked[c] = 0 /\ net[c] = 0
Quiet(c) ==
  /\ phase[c] \in {"none", "accepting"} => ~back[c]
  /\ phase[c] \in {"none", "accepting", "hello"} => AllCame(c)
  /\ phase[c] \in {"execute", "reply"} /\ sock[c] # 0 /\ c \notin gone => AllCame(c)
  /\ phase[c] = "reply" /\ back[c] /\ c \notin gone => AllCame(c)

GarbledEnds(c) ==
  c \in garbled => /\ sock[c] = 0
                   /\ \/ phase[c] \in {"execute", "destroy", "closing", "ended"}
                      \/ phase[c] = "reply" /\ ~back[c]

BytesFit(c) == Bytes(c) /\ Counted(c) /\ Quiet(c) /\ GarbledEnds(c) /\ Bounded(c)

ConnFits(c) == IoFits(c) /\ BytesFit(c)
Fits == \A c \in Conns \ struck : ConnFits(c)

SInv == Base /\ Fits

-----------------------------------------------------------------------------
(* What a connection has in the queue and on the stack *)

LEMMA PushedSeen ==
  ASSUME NEW s \in Seq(ItemType), NEW e \in ItemType
  PROVE  \A c : /\ QueuedIn(Append(s, e), c) =
                     IF c = e[2] THEN QueuedIn(s, c) \cup {e} ELSE QueuedIn(s, c)
                /\ OneIn(s, c) /\ (c # e[2] \/ QueuedIn(s, c) = {}) =>
                     OneIn(Append(s, e), c)
<1>1. PICK t : t = Append(s, e)
  OBVIOUS
<1>2. /\ t \in Seq(ItemType)
      /\ Len(s) \in Nat /\ Len(t) = Len(s) + 1
      /\ \A i \in 1..Len(s) : t[i] = s[i]
      /\ t[Len(s) + 1] = e
  BY <1>1, Pushed
<1>3. {t[i] : i \in 1..Len(t)} = {s[i] : i \in 1..Len(s)} \cup {e}
  <2>1. 1..Len(t) = (1..Len(s)) \cup {Len(s) + 1}
    BY <1>2
  <2> QED
    BY <1>2, <2>1
<1>4. \A c : QueuedIn(t, c) = IF c = e[2] THEN QueuedIn(s, c) \cup {e} ELSE QueuedIn(s, c)
  BY <1>3 DEF QueuedIn
<1>5. ASSUME NEW c, OneIn(s, c), c # e[2] \/ QueuedIn(s, c) = {}
      PROVE  OneIn(t, c)
  <2>1. CASE c # e[2]
    BY <1>2, <1>5, <2>1 DEF OneIn
  <2>2. CASE QueuedIn(s, c) = {}
    <3>1. \A i \in 1..Len(s) : s[i][2] # c
      BY <2>2 DEF QueuedIn
    <3> QED
      BY <1>2, <3>1 DEF OneIn
  <2> QED
    BY <1>5, <2>1, <2>2
<1> QED
  BY <1>1, <1>4, <1>5

LEMMA TakenSeen ==
  ASSUME NEW s \in Seq(ItemType), s # <<>>
  PROVE  \A c : /\ c # Head(s)[2] => QueuedIn(Tail(s), c) = QueuedIn(s, c)
                /\ OneIn(s, c) => OneIn(Tail(s), c)
                /\ c = Head(s)[2] /\ OneIn(s, c) =>
                     QueuedIn(s, c) = {Head(s)} /\ QueuedIn(Tail(s), c) = {}
<1>1. PICK t, x : t = Tail(s) /\ x = Head(s)
  OBVIOUS
<1>2. /\ t \in Seq(ItemType) /\ x = s[1]
      /\ Len(s) \in Nat \ {0} /\ Len(t) = Len(s) - 1
      /\ \A i \in 1..(Len(s) - 1) : t[i] = s[i + 1]
  BY <1>1, HeadTaken
<1>3. {s[i] : i \in 1..Len(s)} = {x} \cup {t[i] : i \in 1..Len(t)}
  <2>1. \A i \in 1..Len(s) : i = 1 \/ (i - 1 \in 1..Len(t) /\ t[i - 1] = s[i])
    BY <1>2
  <2>2. \A i \in 1..Len(t) : i + 1 \in 1..Len(s) /\ t[i] = s[i + 1]
    BY <1>2
  <2>3. 1 \in 1..Len(s)
    BY <1>2
  <2>4. PICK T, U : T = {t[i] : i \in 1..Len(t)} /\ U = {s[i] : i \in 1..Len(s)}
    OBVIOUS
  <2>5. U \subseteq {x} \cup T
    <3>1. ASSUME NEW i \in 1..Len(s) PROVE s[i] \in {x} \cup T
      <4>1. PICK k : k = i - 1
        OBVIOUS
      <4> QED
        BY <1>2, <2>1, <2>4, <4>1
    <3> QED
      BY <2>4, <3>1
  <2>6. T \subseteq U
    BY <2>2, <2>4
  <2>7. x \in U
    BY <1>2, <2>3, <2>4
  <2> QED
    BY <2>4, <2>5, <2>6, <2>7
<1>4. \A c : c # x[2] => QueuedIn(t, c) = QueuedIn(s, c)
  BY <1>3 DEF QueuedIn
<1>5. ASSUME NEW c, OneIn(s, c) PROVE OneIn(t, c)
  <2>1. ASSUME NEW i \in 1..Len(t), NEW j \in 1..Len(t), t[i][2] = c, t[j][2] = c
        PROVE  i = j
    <3>1. PICK k, l : k = i + 1 /\ l = j + 1
      OBVIOUS
    <3>2. /\ k \in 1..Len(s) /\ l \in 1..Len(s) /\ t[i] = s[k] /\ t[j] = s[l]
          /\ i \in Int /\ j \in Int
      BY <1>2, <3>1
    <3>3. k = l
      BY <1>5, <2>1, <3>2 DEF OneIn
    <3> QED
      BY <3>1, <3>2, <3>3
  <2> QED
    BY <2>1 DEF OneIn
<1>6. ASSUME NEW c, c = x[2], OneIn(s, c)
      PROVE  QueuedIn(s, c) = {x} /\ QueuedIn(t, c) = {}
  <2>1. \A i \in 1..Len(t) : t[i][2] # c
    <3>1. ASSUME NEW i \in 1..Len(t), t[i][2] = c PROVE FALSE
      <4>1. PICK k : k = i + 1
        OBVIOUS
      <4>2. k \in 1..Len(s) /\ k # 1 /\ t[i] = s[k] /\ 1 \in 1..Len(s)
        BY <1>2, <4>1
      <4> QED
        BY <1>2, <1>6, <3>1, <4>2 DEF OneIn
    <3> QED
      BY <3>1
  <2> QED
    BY <1>3, <1>6, <2>1 DEF QueuedIn
<1> QED
  BY <1>1, <1>4, <1>5, <1>6

LEMMA QueuedTypes ==
  ASSUME Types
  PROVE  \A c : \A x \in Queued(c) : x \in ItemType /\ x[2] = c /\ x[3] \in Nat
<1>1. done \in Seq(ItemType)
  BY DEF Types, ItemType
<1>2. \A i \in 1..Len(done) : done[i] \in ItemType
  BY <1>1, ElementOfSeq
<1>3. \A x \in ItemType : x[3] \in Nat
  BY DEF ItemType
<1> QED
  BY <1>2, <1>3 DEF Queued, QueuedIn

\* The queue of a connection after each thing that a step does to the queue.
LEMMA QueuedMore ==
  ASSUME Types, NEW e \in ItemType, done' = Append(done, e)
  PROVE  \A c : /\ Queued(c)' = IF c = e[2] THEN Queued(c) \cup {e} ELSE Queued(c)
                /\ OneIn(done, c) /\ (c # e[2] \/ Queued(c) = {}) => OneIn(done', c)
<1>1. done \in Seq(ItemType)
  BY DEF Types, ItemType
<1> QED
  BY <1>1, PushedSeen DEF Queued

LEMMA QueuedLess ==
  ASSUME Types, done # <<>>, done' = Tail(done)
  PROVE  \A c : /\ c # Owner => Queued(c)' = Queued(c)
                /\ OneIn(done, c) => OneIn(done', c)
                /\ c = Owner /\ OneIn(done, c) =>
                     Queued(c) = {Head(done)} /\ Queued(c)' = {}
<1>1. done \in Seq(ItemType)
  BY DEF Types, ItemType
<1> QED
  BY <1>1, TakenSeen DEF Queued, Owner

LEMMA QueuedTurned ==
  ASSUME Types, done # <<>>, NEW e \in ItemType, e[2] = Owner,
         done' = Append(Tail(done), e)
  PROVE  \A c : /\ c # Owner => Queued(c)' = Queued(c)
                /\ OneIn(done, c) => OneIn(done', c)
                /\ c = Owner /\ OneIn(done, c) =>
                     Queued(c) = {Head(done)} /\ Queued(c)' = {e}
<1>1. done \in Seq(ItemType)
  BY DEF Types, ItemType
<1>2. PICK t : t = Tail(done)
  OBVIOUS
<1>3. t \in Seq(ItemType)
  BY <1>1, <1>2, HeadTaken
<1>4. \A c : /\ c # Owner => QueuedIn(t, c) = QueuedIn(done, c)
             /\ OneIn(done, c) => OneIn(t, c)
             /\ c = Owner /\ OneIn(done, c) =>
                  QueuedIn(done, c) = {Head(done)} /\ QueuedIn(t, c) = {}
  BY <1>1, <1>2, TakenSeen DEF Owner
<1>5. \A c : /\ QueuedIn(Append(t, e), c) =
                  IF c = e[2] THEN QueuedIn(t, c) \cup {e} ELSE QueuedIn(t, c)
             /\ OneIn(t, c) /\ (c # e[2] \/ QueuedIn(t, c) = {}) =>
                  OneIn(Append(t, e), c)
  BY <1>3, PushedSeen
<1>6. done' = Append(t, e)
  BY <1>2
<1>7. ASSUME NEW c
      PROVE  /\ c # Owner => QueuedIn(done', c) = QueuedIn(done, c)
             /\ OneIn(done, c) => OneIn(done', c)
             /\ c = Owner /\ OneIn(done, c) =>
                  QueuedIn(done, c) = {Head(done)} /\ QueuedIn(done', c) = {e}
  BY <1>4, <1>5, <1>6
<1> QED
  BY <1>7 DEF Queued

\* The calls of a connection after each thing that a step does to the stack.
LEMMA CalledFails ==
  ASSUME Types, NEW c \in Conns, frames' = Append(frames, <<"failed", c>>)
  PROVE  \A w, d : /\ Called(w, d)' <=> Called(w, d) \/ (w = "failed" /\ d = c)
                   /\ OneFailed(d) /\ (d # c \/ ~Called("failed", d)) => OneFailed(d)'
<1>1. frames \in Seq(FrameType)
  BY DEF Types, FrameType
<1>2. PICK f : f = <<"failed", c>>
  OBVIOUS
<1>3. f \in FrameType
  BY <1>2 DEF FrameType
<1>4. /\ Len(frames) \in Nat /\ Len(frames') = Len(frames) + 1
      /\ \A i \in 1..Len(frames) : frames'[i] = frames[i]
      /\ frames'[Len(frames) + 1] = f
  BY <1>1, <1>2, <1>3, Pushed
<1>5. 1..Len(frames') = (1..Len(frames)) \cup {Len(frames) + 1}
  BY <1>4
<1>6. \A w, d : Called(w, d)' <=> Called(w, d) \/ <<w, d>> = f
  BY <1>4, <1>5 DEF Called
<1>7. \A w, d : <<w, d>> = f <=> w = "failed" /\ d = c
  BY <1>2
<1>8. ASSUME NEW d, OneFailed(d), d # c \/ ~Called("failed", d) PROVE OneFailed(d)'
  BY <1>4, <1>5, <1>7, <1>8 DEF OneFailed, Called
<1> QED
  BY <1>6, <1>7, <1>8

LEMMA CalledStarts ==
  ASSUME Types, frames = <<>>, NEW f \in FrameType, f[1] # "failed",
         frames' = Append(frames, f)
  PROVE  \A w, d : ~Called(w, d) /\ (Called(w, d)' <=> f = <<w, d>>) /\ OneFailed(d)'
<1>1. frames \in Seq(FrameType) /\ Len(frames) = 0
  BY DEF Types, FrameType
<1>2. Len(frames') = 1 /\ frames'[1] = f
  BY <1>1, Pushed
<1> QED
  BY <1>1, <1>2 DEF Called, OneFailed

LEMMA CalledPops ==
  ASSUME Types, frames # <<>>, frames' = Pop(frames)
  PROVE  \A w, d : /\ Called(w, d) <=> Called(w, d)' \/ OnTop = <<w, d>>
                   /\ OneFailed(d) => /\ OneFailed(d)'
                                      /\ OnTop = <<"failed", d>> => ~Called("failed", d)'
<1>1. /\ Len(frames) \in Nat \ {0} /\ Len(frames') = Len(frames) - 1
      /\ \A i \in 1..Len(frames') : frames'[i] = frames[i]
  BY StackTop
<1>2. 1..Len(frames) = (1..Len(frames')) \cup {Len(frames)} /\ Len(frames) \notin 1..Len(frames')
  BY <1>1
<1>3. \A w, d : Called(w, d) <=> Called(w, d)' \/ OnTop = <<w, d>>
  BY <1>1, <1>2 DEF Called, OnTop
<1>4. ASSUME NEW d, OneFailed(d)
      PROVE  OneFailed(d)' /\ (OnTop = <<"failed", d>> => ~Called("failed", d)')
  BY <1>1, <1>2, <1>4 DEF OneFailed, Called, OnTop
<1> QED
  BY <1>3, <1>4

LEMMA CalledNone ==
  ASSUME frames = <<>>
  PROVE  \A w, d : ~Called(w, d) /\ OneFailed(d)
<1>1. Len(frames) = 0
  OBVIOUS
<1> QED
  BY <1>1 DEF Called, OneFailed

-----------------------------------------------------------------------------
(* Connections that a step does not touch *)

\* ... but that it may close the socket of.
SameIo(c) ==
  /\ rcv'[c] = rcv[c] /\ snd'[c] = snd[c]
  /\ sock'[c] = sock[c] \/ sock'[c] = 0
  /\ blocked'[c] = blocked[c] /\ slot'[c] = slot[c]
  /\ phase'[c] = phase[c] /\ back'[c] = back[c]
  /\ required'[c] = required[c]

SameConn(c) ==
  /\ SameIo(c)
  /\ got'[c] = got[c] /\ have'[c] = have[c]
  /\ asked'[c] = asked[c] /\ net'[c] = net[c]
  /\ c \in gone' <=> c \in gone
  /\ c \in garbled' <=> c \in garbled

IoWords == {"failed", "wrote", "read", "poll", "yield"}

SameSeen(c) ==
  /\ Queued(c)' = Queued(c) /\ (OneIn(done, c) => OneIn(done', c))
  /\ \A w \in IoWords : Called(w, c)' <=> Called(w, c)
  /\ OneFailed(c) => OneFailed(c)'

\* The thread does not go to the fiber of the connection, unless nothing of it is
\* queued.
NotSwitchedTo(c) ==
  Live(c) => cur' = cur \/ slot[c] # cur' \/ (Queued(c) = {} /\ ~Called("failed", c))

LEMMA BytesKept ==
  ASSUME NEW c \in Conns, BytesFit(c),
         sock'[c] = sock[c] \/ sock'[c] = 0,
         phase'[c] = phase[c], back'[c] = back[c],
         required'[c] = required[c], got'[c] = got[c], have'[c] = have[c],
         asked'[c] = asked[c], net'[c] = net[c],
         c \in gone' <=> c \in gone, c \in garbled' <=> c \in garbled,
         \A x \in Queued(c)' : x[1] = "recv" => x \in Queued(c)
  PROVE  BytesFit(c)'
<1>1. Bytes(c)'
  BY DEF BytesFit, Bytes, Taken, Unsent
<1>2. Counted(c)' /\ Quiet(c)' /\ GarbledEnds(c)' /\ Bounded(c)'
  BY DEF BytesFit, Counted, Quiet, AllCame, GarbledEnds, Bounded
<1> QED
  BY <1>1, <1>2 DEF BytesFit

LEMMA IoKept ==
  ASSUME NEW c \in Conns, IoFits(c), SameIo(c), SameSeen(c), NotSwitchedTo(c)
  PROVE  IoFits(c)'
<1>1. /\ InKernel(c)' <=> InKernel(c)
      /\ Writing(c)' <=> Writing(c)
      /\ Reading(c)' <=> Reading(c)
  BY DEF SameIo, InKernel, Writing, Reading
<1>2. /\ Called("failed", c)' <=> Called("failed", c)
      /\ Called("wrote", c)' <=> Called("wrote", c)
      /\ Called("read", c)' <=> Called("read", c)
      /\ Called("poll", c)' <=> Called("poll", c)
      /\ Called("yield", c)' <=> Called("yield", c)
  BY DEF SameSeen, IoWords
<1>3. Alone(c)'
  BY <1>1, <1>2 DEF IoFits, Alone, SameIo, SameSeen
<1>4. Kinds(c)'
  BY <1>1, <1>2 DEF IoFits, Kinds, SameIo, SameSeen
<1>5. Outstanding(c)' <=> Outstanding(c)
  BY <1>1, <1>2 DEF Outstanding, SameSeen
<1>6. LastPiece(c)' <=> LastPiece(c)
  BY <1>1 DEF LastPiece, SameIo, SameSeen
<1>7. Awaited(c)'
  <2>1. Outstanding(c) /\ phase[c] # "accepting" => Live(c)
    BY DEF IoFits, Kinds, Outstanding, InKernel, Writing, Reading, Live
  <2>2. Queued(c) = {} /\ ~Called("failed", c) => ~Outstanding(c) \/ ~LastPiece(c)
    BY DEF Outstanding, LastPiece
  <2>3. UNCHANGED <<phase[c], blocked[c], slot[c]>> /\ Awaited(c)
    BY DEF SameIo, IoFits
  <2> QED
    BY <1>2, <1>5, <1>6, <2>1, <2>2, <2>3 DEF Awaited, NotSwitchedTo
<1>8. Returned(c)' /\ BlockedInIo(c)'
  BY <1>1, <1>2, <1>5 DEF IoFits, Returned, BlockedInIo, SameIo
<1> QED
  BY <1>3, <1>4, <1>7, <1>8 DEF IoFits

LEMMA Kept ==
  ASSUME NEW c \in Conns, ConnFits(c), SameConn(c), SameSeen(c), NotSwitchedTo(c)
  PROVE  ConnFits(c)'
<1>1. BytesFit(c)'
  BY BytesKept DEF ConnFits, SameConn, SameIo, SameSeen
<1> QED
  BY <1>1, IoKept DEF ConnFits, SameConn

\* A step of one connection: the others fit as before.
LEMMA Others ==
  ASSUME SInv, NEW c \in Conns, struck \subseteq struck',
         \A d \in Conns \ {c} : SameConn(d) /\ SameSeen(d) /\ NotSwitchedTo(d),
         c \notin struck' => ConnFits(c)'
  PROVE  Fits'
<1>1. ASSUME NEW d \in Conns \ struck', d # c PROVE ConnFits(d)'
  <2>1. ConnFits(d) /\ SameConn(d) /\ SameSeen(d) /\ NotSwitchedTo(d)
    BY <1>1 DEF SInv, Fits
  <2> QED
    BY <2>1, Kept
<1>2. \A d \in Conns \ struck' : ConnFits(d)'
  BY <1>1
<1> QED
  BY <1>2 DEF Fits

\* The same of a step of none.
LEMMA NoneMoved ==
  ASSUME SInv, struck \subseteq struck',
         \A d \in Conns : SameConn(d) /\ SameSeen(d) /\ NotSwitchedTo(d)
  PROVE  Fits'
<1>1. ASSUME NEW d \in Conns \ struck' PROVE ConnFits(d)'
  <2>1. ConnFits(d) /\ SameConn(d) /\ SameSeen(d) /\ NotSwitchedTo(d)
    BY <1>1 DEF SInv, Fits
  <2> QED
    BY <2>1, Kept
<1> QED
  BY <1>1 DEF Fits

\* When neither the queue nor the stack moves, or one of the two.
LEMMA SeenSame ==
  ASSUME UNCHANGED <<done, frames>>
  PROVE  \A d \in Conns : SameSeen(d)
BY DEF SameSeen, Queued, Called, OneFailed

\* At rest: nothing is outstanding and no call is waiting.
AtRest(c) == /\ ~Outstanding(c) /\ blocked[c] = MAIN
             /\ \A w \in IoWords : ~Called(w, c)

\* While a fiber runs, nothing is outstanding for its connection.
LEMMA Resting ==
  ASSUME SInv, NEW c \in Conns \ struck, NEW p \in Alive, NEW b, Runs(c, p, b)
  PROVE  /\ AtRest(c) /\ IoFits(c) /\ BytesFit(c)
         /\ rcv[c] = 0 /\ snd[c] = 0 /\ Queued(c) = {}
         /\ Reading(c) => required[c] <= 0 \/ sock[c] = 0
         /\ \A d \in Conns \ {c} : Live(d) => slot[d] # cur
<1>1. frames = <<>> /\ cur # MAIN /\ slot[c] = cur /\ phase[c] = p
  BY DEF Runs
<1>2. Live(c) /\ phase[c] # "accepting"
  BY <1>1 DEF Live, Alive
<1>3. /\ blocked[c] = MAIN
      /\ \A d \in Conns \ {c} : Live(d) => slot[d] # cur
  BY <1>1, <1>2, CurrentWaitsForNone DEF SInv
<1>4. IoFits(c) /\ BytesFit(c)
  BY DEF SInv, Fits, ConnFits
<1>5. \A w \in IoWords : ~Called(w, c)
  BY <1>1, CalledNone
<1>6. ~Outstanding(c)
  BY <1>1, <1>2, <1>3, <1>4, <1>5 DEF IoFits, Awaited, IoWords
<1>7. Reading(c) => required[c] <= 0 \/ sock[c] = 0
  BY <1>3, <1>4, <1>5, <1>6 DEF IoFits, Returned, IoWords
<1>8. rcv[c] = 0 /\ snd[c] = 0 /\ Queued(c) = {}
  <2>1. rcv[c] \in Nat /\ snd[c] \in Nat
    BY DEF SInv, Base, Types
  <2> QED
    BY <1>6, <2>1 DEF Outstanding, InKernel
<1> QED
  BY <1>3, <1>4, <1>5, <1>6, <1>7, <1>8 DEF AtRest

\* A connection at rest after the step, whose fiber is not in a read, fits.
LEMMA RestFits ==
  ASSUME NEW c \in Conns, rcv'[c] = 0, snd'[c] = 0, Queued(c)' = {},
         blocked'[c] = MAIN, \A w \in IoWords \ {"yield"} : ~Called(w, c)',
         Called("yield", c)' => phase'[c] = "execute",
         ~Reading(c)' \/ required'[c] <= 0 \/ sock'[c] = 0
  PROVE  IoFits(c)'
<1>1. /\ ~Called("failed", c)' /\ ~Called("wrote", c)'
      /\ ~Called("read", c)' /\ ~Called("poll", c)'
  BY DEF IoWords
<1>2. ~InKernel(c)' /\ ~Outstanding(c)'
  BY <1>1 DEF InKernel, Outstanding
<1>3. OneIn(done', c) /\ OneFailed(c)'
  <2>1. \A i \in 1..Len(done') : done'[i][2] # c
    BY DEF Queued, QueuedIn
  <2>2. \A i \in 1..Len(frames') : frames'[i] # <<"failed", c>>
    BY <1>1 DEF Called
  <2> QED
    BY <2>1, <2>2 DEF OneIn, OneFailed
<1>4. Alone(c)' /\ Kinds(c)'
  BY <1>1, <1>2, <1>3 DEF Alone, Kinds
<1>5. Awaited(c)' /\ Returned(c)' /\ BlockedInIo(c)'
  BY <1>2 DEF Awaited, Returned, BlockedInIo
<1> QED
  BY <1>4, <1>5 DEF IoFits

\* The numbers of a connection.
LEMMA Numbers ==
  ASSUME Types, NEW c \in Conns
  PROVE  /\ left[c] \in Nat /\ asked[c] \in Nat /\ net[c] \in Nat
         /\ asked[c] <= 1 + ArgLen
         /\ got[c] \in Nat /\ have[c] \in Nat /\ required[c] \in Int
         /\ rcv[c] \in Nat /\ snd[c] \in Nat
         /\ Unsent(c) \in Nat /\ Taken(c) \in Nat
<1>1. /\ left[c] \in Nat /\ asked[c] \in Nat /\ net[c] \in Nat
      /\ asked[c] <= 1 + ArgLen
      /\ got[c] \in Nat /\ have[c] \in Nat /\ required[c] \in Int
      /\ rcv[c] \in Nat /\ snd[c] \in Nat
  BY LengthFacts DEF Types
<1>2. Unsent(c) \in Nat
  BY <1>1 DEF Unsent
<1>3. Taken(c) \in Nat
  BY <1>1 DEF Taken
<1> QED
  BY <1>1, <1>2, <1>3

-----------------------------------------------------------------------------
(* The fiber of a connection and the second invariant *)

\* The fiber goes on to another phase; it has nothing outstanding.
LEMMA GoesFits ==
  ASSUME SInv, NEW c \in Conns, NEW p \in Alive, NEW b, Runs(c, p, b),
         NEW q \in Phases, Goes(c, q),
         UNCHANGED <<rcv, snd, done, sock, blocked, frames, throwVars, slot>>,
         cur' \in {cur, MAIN},
         \A d \in Conns \ {c} :
           /\ required'[d] = required[d] /\ got'[d] = got[d] /\ have'[d] = have[d]
           /\ asked'[d] = asked[d] /\ net'[d] = net[d]
           /\ d \in gone' <=> d \in gone
           /\ d \in garbled' <=> d \in garbled,
         c \notin struck => BytesFit(c)'
  PROVE  Fits'
<1>1. /\ phase'[c] = q /\ ~back'[c]
      /\ \A d \in Conns \ {c} : phase'[d] = phase[d] /\ back'[d] = back[d]
  BY GoesTypes DEF SInv, Base
<1>2. struck' = struck
  BY DEF throwVars
<1>3. \A d \in Conns \ {c} : SameConn(d)
  BY <1>1 DEF SameConn, SameIo
<1>4. \A d \in Conns : SameSeen(d)
  BY SeenSame
<1>5. \A d \in Conns : NotSwitchedTo(d)
  BY MainIsSlot DEF SInv, Base, SlotLive, NotSwitchedTo
<1>6. ASSUME c \notin struck PROVE ConnFits(c)'
  <2>1. AtRest(c) /\ rcv[c] = 0 /\ snd[c] = 0 /\ Queued(c) = {}
    BY <1>6, Resting
  <2>2. rcv'[c] = 0 /\ snd'[c] = 0 /\ Queued(c)' = {} /\ blocked'[c] = MAIN
    BY <2>1 DEF AtRest, Queued
  <2>3. \A w \in IoWords : ~Called(w, c)'
    BY <2>1 DEF AtRest, Called
  <2>4. ~Reading(c)'
    BY <1>1 DEF Reading
  <2>5. ~Called("yield", c)'
    BY <2>3 DEF IoWords
  <2>6. IoFits(c)'
    BY <2>2, <2>3, <2>4, <2>5, RestFits
  <2> QED
    BY <1>6, <2>6 DEF ConnFits
<1> QED
  BY <1>2, <1>3, <1>4, <1>5, <1>6, Others

\* The bytes of a request may be dropped, and counted elsewhere.
LEMMA BytesMoved ==
  ASSUME Types, NEW c \in Conns, BytesFit(c), Queued(c)' = {},
         UNCHANGED <<gone, asked, net>>,
         Taken(c)' \in Nat, Taken(c)' <= Taken(c)
  PROVE  Bytes(c)'
<1>1. Taken(c) + net[c] + Unsent(c) <= 1 + ArgLen
  BY DEF BytesFit, Bytes
<1>2. Unsent(c)' = Unsent(c) /\ net' = net
  BY DEF Unsent
<1> QED
  BY <1>1, <1>2, Numbers, LengthFacts DEF Bytes

LEMMA WriteThrowsFits ==
  ASSUME SInv, NEW c \in Conns, WriteThrows(c)
  PROVE  Fits'
<1>1. PICK p \in {"hello", "reply"} : p = phase[c] /\ Runs(c, p, FALSE)
  BY DEF WriteThrows, Runs
<1>2. PICK q : q = Catch(c)
  OBVIOUS
<1>3. /\ q \in {"destroy", "caught"} /\ q \in Phases /\ p \in Alive
      /\ q = "caught" => p = "hello"
      /\ Goes(c, q) /\ Types
  BY <1>1, <1>2 DEF WriteThrows, Catch, Phases, Alive, SInv, Base
<1>4. /\ UNCHANGED <<gone, asked, net, rcv, snd, done, sock, required, got, have,
                     blocked, frames, throwVars, slot, garbled>>
      /\ cur' = cur
  BY DEF WriteThrows, kernelVars, readVars, vars
<1>5. ASSUME c \notin struck PROVE BytesFit(c)'
  <2>1. BytesFit(c) /\ Queued(c) = {}
    BY <1>1, <1>3, <1>5, Resting
  <2>2. phase'[c] = q /\ ~back'[c]
    BY <1>3, GoesTypes
  <2>3. Queued(c)' = {}
    BY <1>4, <2>1 DEF Queued
  <2>4. Taken(c)' = 0
    BY <1>3, <2>2 DEF Taken
  <2>5. Bytes(c)'
    BY <1>3, <1>4, <2>1, <2>3, <2>4, BytesMoved, Numbers
  <2>6. Counted(c)' /\ Quiet(c)' /\ GarbledEnds(c)'
    BY <1>1, <1>3, <1>4, <2>1, <2>2 DEF BytesFit, Counted, Quiet, GarbledEnds
  <2>7. Bounded(c)'
    BY <1>4, <2>1 DEF BytesFit, Bounded
  <2> QED
    BY <2>5, <2>6, <2>7 DEF BytesFit
<1> QED
  BY <1>1, <1>3, <1>4, <1>5, GoesFits

LEMMA EndsFits ==
  ASSUME SInv, NEW c \in Conns, Ends(c)
  PROVE  Fits'
<1>1. Runs(c, "caught", FALSE) /\ phase[c] = "caught" /\ Goes(c, "ended") /\ Types
      /\ "caught" \in Alive /\ "ended" \in Phases
  BY DEF Ends, Runs, Alive, Phases, SInv, Base
<1>2. /\ UNCHANGED <<gone, asked, net, rcv, snd, done, sock, required, got, have,
                     blocked, frames, throwVars, slot, garbled>>
      /\ cur' = MAIN
  BY DEF Ends, End, SwitchToMain, kernelVars, readVars, serverVars
<1>3. ASSUME c \notin struck PROVE BytesFit(c)'
  <2>1. BytesFit(c) /\ Queued(c) = {}
    BY <1>1, <1>3, Resting
  <2>2. phase'[c] = "ended" /\ ~back'[c]
    BY <1>1, GoesTypes
  <2>3. Queued(c)' = {}
    BY <1>2, <2>1 DEF Queued
  <2>4. Taken(c)' = 0
    BY <2>2 DEF Taken
  <2>5. Bytes(c)'
    BY <1>1, <1>2, <2>1, <2>3, <2>4, BytesMoved, Numbers
  <2>6. Counted(c)' /\ Quiet(c)' /\ GarbledEnds(c)'
    BY <1>1, <1>2, <2>1, <2>2 DEF BytesFit, Counted, Quiet, GarbledEnds
  <2>7. Bounded(c)'
    BY <1>2, <2>1 DEF BytesFit, Bounded
  <2> QED
    BY <2>5, <2>6, <2>7 DEF BytesFit
<1> QED
  BY <1>1, <1>2, <1>3, GoesFits

LEMMA WrittenFits ==
  ASSUME SInv, NEW c \in Conns, Written(c)
  PROVE  Fits'
<1>1. PICK p \in {"hello", "reply"} : p = phase[c] /\ Runs(c, p, TRUE)
  BY DEF Written, Runs
<1>2. p \in Alive /\ "command" \in Phases /\ Types /\ Goes(c, "command")
  BY DEF Written, Phases, Alive, SInv, Base
<1>3. /\ have \in [Conns -> Nat] /\ asked \in [Conns -> 0..(1 + ArgLen)]
      /\ left \in [Conns -> 0..Requests]
  BY <1>2 DEF Types
<1>4. /\ UNCHANGED <<gone, net, rcv, snd, done, sock, required, got, blocked, frames,
                     throwVars, slot, garbled>>
      /\ cur' = cur /\ have' = [have EXCEPT ![c] = 0]
      /\ asked' = asked \/ asked' = [asked EXCEPT ![c] = 1 + ArgLen]
  BY DEF Written, serverVars, vars
<1>5. /\ have'[c] = 0
      /\ asked'[c] = asked[c] \/ asked'[c] = 1 + ArgLen
      /\ \A d \in Conns \ {c} : have'[d] = have[d] /\ asked'[d] = asked[d]
  BY <1>3, <1>4
<1>6. ASSUME c \notin struck PROVE BytesFit(c)'
  <2>1. BytesFit(c) /\ Queued(c) = {}
    BY <1>1, <1>2, <1>6, Resting
  <2>2. phase'[c] = "command" /\ ~back'[c] /\ phase[c] = p /\ back[c]
    BY <1>1, <1>2, GoesTypes DEF Runs
  <2>3. Queued(c)' = {}
    BY <1>4, <2>1 DEF Queued
  <2>4. Bytes(c)'
    <3>1. Taken(c)' = 0 /\ net'[c] = net[c]
      BY <1>4, <2>2 DEF Taken
    <3>2. c \notin gone => asked[c] = 0 /\ net[c] = 0
      BY <1>1, <2>1, <2>2 DEF BytesFit, Quiet, AllCame
    <3>3. net[c] <= 1 + ArgLen
      BY <2>1 DEF BytesFit, Bounded
    <3>4. net[c] + Unsent(c)' <= 1 + ArgLen /\ Unsent(c)' \in Nat
      BY <1>2, <1>4, <1>5, <3>2, <3>3, LengthFacts, Numbers DEF Unsent
    <3> QED
      BY <1>2, <2>3, <3>1, <3>4, LengthFacts, Numbers DEF Bytes
  <2>5. Counted(c)' /\ Quiet(c)' /\ GarbledEnds(c)'
    BY <1>1, <1>4, <1>5, <2>1, <2>2 DEF BytesFit, Counted, Quiet, GarbledEnds
  <2>6. Bounded(c)'
    BY <1>4, <1>5, <2>1, LengthFacts DEF BytesFit, Bounded
  <2> QED
    BY <2>4, <2>5, <2>6 DEF BytesFit
<1> QED
  BY <1>1, <1>2, <1>4, <1>5, <1>6, GoesFits

\* A read or need() throws.  It was answered "lost connection" only when the
\* socket was closed.
LEMMA ReadThrowsFits ==
  ASSUME SInv, NEW c \in Conns, ReadThrows(c) \/ LostConnection(c)
  PROVE  Fits'
<1>1. PICK p \in {"command", "argument"}, b \in BOOLEAN : p = phase[c] /\ Runs(c, p, b)
  BY DEF ReadThrows, LostConnection, Runs
<1>2. PICK q : q = Catch(c)
  OBVIOUS
<1>3. /\ q \in {"destroy", "reply"} /\ q \in Phases /\ p \in Alive
      /\ Goes(c, q) /\ Types
  BY <1>1, <1>2 DEF ReadThrows, LostConnection, Catch, Phases, Alive, SInv, Base
<1>4. /\ UNCHANGED <<gone, asked, net, rcv, snd, done, sock, required, got,
                     blocked, frames, throwVars, slot, garbled>>
      /\ cur' = cur /\ (have' = have \/ have' = [have EXCEPT ![c] = 0])
  BY DEF ReadThrows, LostConnection, kernelVars, readVars, serverVars, vars
<1>5. /\ have'[c] = have[c] \/ have'[c] = 0
      /\ \A d \in Conns \ {c} : have'[d] = have[d]
  BY <1>3, <1>4 DEF Types
<1>6. ASSUME c \notin struck PROVE BytesFit(c)'
  <2>1. /\ BytesFit(c) /\ Queued(c) = {}
        /\ Reading(c) => required[c] <= 0 \/ sock[c] = 0
    BY <1>1, <1>3, <1>6, Resting
  <2>2. phase'[c] = q /\ ~back'[c] /\ phase[c] = p /\ back[c] = b
    BY <1>1, <1>3, GoesTypes DEF Runs
  <2>3. Queued(c)' = {}
    BY <1>4, <2>1 DEF Queued
  <2>4. Taken(c)' = 0
    BY <1>3, <2>2 DEF Taken
  <2>5. Bytes(c)'
    BY <1>3, <1>4, <2>1, <2>3, <2>4, BytesMoved, Numbers
  <2>6. c \in gone \/ sock[c] = 0
    <3>1. CASE ReadThrows(c)
      BY <3>1 DEF ReadThrows
    <3>2. CASE LostConnection(c)
      <4>1. back[c] /\ got[c] = 0
        BY <3>2 DEF LostConnection, Runs
      <4>2. required[c] > 0
        BY <1>1, <1>3, <2>1, <2>2, <4>1, Numbers, LengthFacts DEF BytesFit, Counted
      <4> QED
        BY <1>1, <1>3, <2>1, <2>2, <4>1, <4>2, Numbers DEF Reading
    <3> QED
      BY <3>1, <3>2
  <2>7. Counted(c)' /\ Quiet(c)' /\ GarbledEnds(c)'
    BY <1>1, <1>3, <1>4, <2>1, <2>2, <2>6 DEF BytesFit, Counted, Quiet, GarbledEnds
  <2>8. Bounded(c)'
    BY <1>4, <1>5, <2>1, LengthFacts DEF BytesFit, Bounded
  <2> QED
    BY <2>5, <2>7, <2>8 DEF BytesFit
<1> QED
  BY <1>1, <1>3, <1>4, <1>5, <1>6, GoesFits

LEMMA GotCommandFits ==
  ASSUME SInv, NEW c \in Conns, GotCommand(c)
  PROVE  Fits'
<1>1. /\ Runs(c, "command", TRUE) /\ Goes(c, "argument") /\ Types /\ got[c] > 0
      /\ "command" \in Alive /\ "argument" \in Phases
  BY DEF GotCommand, Alive, Phases, SInv, Base
<1>2. /\ UNCHANGED <<gone, asked, net, rcv, snd, done, sock, required, got,
                     blocked, frames, throwVars, slot, garbled>>
      /\ cur' = cur /\ have' = [have EXCEPT ![c] = got[c] - 1]
  BY DEF GotCommand, kernelVars, serverVars, vars
<1>3. have'[c] = got[c] - 1 /\ \A d \in Conns \ {c} : have'[d] = have[d]
  BY <1>1, <1>2 DEF Types
<1>4. ASSUME c \notin struck PROVE BytesFit(c)'
  <2>1. BytesFit(c) /\ Queued(c) = {}
    BY <1>1, <1>4, Resting
  <2>2. phase'[c] = "argument" /\ ~back'[c] /\ phase[c] = "command" /\ back[c]
    BY <1>1, GoesTypes DEF Runs
  <2>3. Queued(c)' = {}
    BY <1>2, <2>1 DEF Queued
  <2>4. Taken(c)' = got[c] /\ Taken(c) = got[c]
    <3>1. Taken(c)' = 1 + (got[c] - 1) /\ Taken(c) = got[c]
      BY <1>3, <2>2 DEF Taken
    <3> QED
      BY <1>1, <3>1, Numbers
  <2>5. Bytes(c)'
    BY <1>1, <1>2, <2>1, <2>3, <2>4, BytesMoved, Numbers
  <2>6. got[c] <= 1 + ArgLen
    BY <2>1 DEF BytesFit, Bounded
  <2>7. Counted(c)' /\ Quiet(c)' /\ GarbledEnds(c)'
    BY <1>1, <1>2, <1>3, <2>1, <2>2, <2>6, Numbers, LengthFacts
       DEF BytesFit, Counted, Quiet, GarbledEnds
  <2>8. Bounded(c)'
    BY <1>1, <1>2, <1>3, <2>1, <2>6, Numbers, LengthFacts DEF BytesFit, Bounded
  <2> QED
    BY <2>5, <2>7, <2>8 DEF BytesFit
<1> QED
  BY <1>1, <1>2, <1>3, <1>4, GoesFits

\* Only a request that has come as a whole is executed on an open socket.
LEMMA GotArgumentFits ==
  ASSUME SInv, NEW c \in Conns, GotArgument(c)
  PROVE  Fits'
<1>1. PICK b \in BOOLEAN : Runs(c, "argument", b)
  BY DEF GotArgument
<1>2. /\ Goes(c, "execute") /\ Types /\ "argument" \in Alive /\ "execute" \in Phases
  BY DEF GotArgument, Alive, Phases, SInv, Base
<1>3. /\ UNCHANGED <<gone, asked, net, rcv, snd, done, sock, required, got, have,
                     blocked, frames, throwVars, slot, garbled>>
      /\ cur' = cur
  BY DEF GotArgument, kernelVars, readVars, serverVars, vars
<1>4. ASSUME c \notin struck PROVE BytesFit(c)'
  <2>1. BytesFit(c) /\ Queued(c) = {}
    BY <1>1, <1>2, <1>4, Resting
  <2>2. phase'[c] = "execute" /\ ~back'[c] /\ phase[c] = "argument" /\ back[c] = b
    BY <1>1, <1>2, GoesTypes DEF Runs
  <2>3. Queued(c)' = {}
    BY <1>3, <2>1 DEF Queued
  <2>4. Taken(c)' = 0
    BY <2>2 DEF Taken
  <2>5. Bytes(c)'
    BY <1>2, <1>3, <2>1, <2>3, <2>4, BytesMoved, Numbers
  <2>6. c \notin gone => asked[c] = 0 /\ net[c] = 0
    <3>1. Taken(c) >= 1 + ArgLen
      BY <1>1, <1>2, <2>2, Numbers, LengthFacts DEF GotArgument, Taken, Runs
    <3>2. Taken(c) + net[c] + Unsent(c) <= 1 + ArgLen
      BY <2>1 DEF BytesFit, Bytes
    <3>3. c \notin gone => Unsent(c) = asked[c]
      BY DEF Unsent
    <3> QED
      BY <1>2, <3>1, <3>2, <3>3, Numbers, LengthFacts
  <2>7. Counted(c)' /\ Quiet(c)' /\ GarbledEnds(c)'
    BY <1>3, <2>1, <2>2, <2>6 DEF BytesFit, Counted, Quiet, AllCame, GarbledEnds
  <2>8. Bounded(c)'
    BY <1>3, <2>1 DEF BytesFit, Bounded
  <2> QED
    BY <2>5, <2>7, <2>8 DEF BytesFit
<1> QED
  BY <1>1, <1>2, <1>3, <1>4, GoesFits

\* A read returns less than it was asked for only when the socket is closed.
LEMMA GotLessFits ==
  ASSUME SInv, NEW c \in Conns, GotLess(c)
  PROVE  Fits'
<1>1. Runs(c, "argument", TRUE) /\ Types /\ "argument" \in Alive
  BY DEF GotLess, Alive, SInv, Base
<1>2. PICK q \in {"reply", "execute"} :
        /\ Goes(c, q)
        /\ q = "reply" => UNCHANGED garbled
        /\ q = "execute" => garbled' = garbled \cup {c}
  BY DEF GotLess
<1>3. /\ UNCHANGED <<gone, asked, net, rcv, snd, done, sock, required, got, have,
                     blocked, frames, throwVars, slot>>
      /\ cur' = cur /\ q \in Phases
      /\ \A d \in Conns \ {c} : d \in garbled' <=> d \in garbled
  BY <1>2 DEF GotLess, kernelVars, readVars, vars, Phases
<1>4. ASSUME c \notin struck PROVE BytesFit(c)'
  <2>1. /\ BytesFit(c) /\ Queued(c) = {}
        /\ Reading(c) => required[c] <= 0 \/ sock[c] = 0
    BY <1>1, <1>4, Resting
  <2>2. phase'[c] = q /\ ~back'[c] /\ phase[c] = "argument" /\ back[c]
    BY <1>1, <1>2, <1>3, GoesTypes DEF Runs
  <2>3. Queued(c)' = {}
    BY <1>3, <2>1 DEF Queued
  <2>4. Taken(c)' = 0
    BY <2>2 DEF Taken
  <2>5. Bytes(c)'
    BY <1>1, <1>3, <2>1, <2>3, <2>4, BytesMoved, Numbers
  <2>6. sock[c] = 0
    <3>1. required[c] > 0
      BY <1>1, <2>1, <2>2, Numbers, LengthFacts DEF BytesFit, Counted, GotLess
    <3> QED
      BY <1>1, <2>1, <2>2, <3>1, Numbers DEF Reading
  <2>7. Counted(c)' /\ Quiet(c)' /\ GarbledEnds(c)'
    BY <1>2, <1>3, <2>1, <2>2, <2>6 DEF BytesFit, Counted, Quiet, GarbledEnds
  <2>8. Bounded(c)'
    BY <1>3, <2>1 DEF BytesFit, Bounded
  <2> QED
    BY <2>5, <2>7, <2>8 DEF BytesFit
<1> QED
  BY <1>1, <1>2, <1>3, <1>4, GoesFits

\* After "execute" the fiber answers, or it ends what it was doing.
LEMMA AnsweredBytes ==
  ASSUME Types, NEW c \in Conns, BytesFit(c), Queued(c)' = {}, phase[c] = "execute",
         phase'[c] \in {"execute", "reply"}, ~back'[c],
         UNCHANGED <<gone, asked, net, sock, required, got, have, garbled>>
  PROVE  BytesFit(c)'
<1>1. Taken(c)' = 0
  BY DEF Taken
<1>2. Bytes(c)'
  BY <1>1, BytesMoved, Numbers
<1>3. Counted(c)' /\ Quiet(c)' /\ GarbledEnds(c)'
  BY DEF BytesFit, Counted, Quiet, AllCame, GarbledEnds
<1>4. Bounded(c)'
  BY DEF BytesFit, Bounded
<1> QED
  BY <1>2, <1>3, <1>4 DEF BytesFit

LEMMA ExecuteFits ==
  ASSUME SInv, NEW c \in Conns, Execute(c)
  PROVE  Fits'
<1>1. /\ Runs(c, "execute", FALSE) /\ Goes(c, "reply") /\ Types
      /\ "execute" \in Alive /\ "reply" \in Phases /\ phase[c] = "execute"
  BY DEF Execute, Runs, Alive, Phases, SInv, Base
<1>2. /\ UNCHANGED <<gone, asked, net, rcv, snd, done, sock, required, got, have,
                     blocked, frames, throwVars, slot, garbled>>
      /\ cur' = cur
  BY DEF Execute, kernelVars, readVars, vars
<1>3. ASSUME c \notin struck PROVE BytesFit(c)'
  <2>1. BytesFit(c) /\ Queued(c) = {}
    BY <1>1, <1>3, Resting
  <2>2. phase'[c] = "reply" /\ ~back'[c]
    BY <1>1, GoesTypes
  <2>3. Queued(c)' = {}
    BY <1>2, <2>1 DEF Queued
  <2> QED
    BY <1>1, <1>2, <2>1, <2>2, <2>3, AnsweredBytes
<1> QED
  BY <1>1, <1>2, <1>3, GoesFits

\* A fiber calls SleepEx: the others have nothing of it, on the stack or queued.
LEMMA StartsSeen ==
  ASSUME Types, frames = <<>>, NEW c \in Conns, NEW f \in FrameType,
         f[1] # "failed", f[2] = c \/ f[1] \notin IoWords, frames' = Append(frames, f),
         \A d \in Conns \ {c} : /\ Queued(d)' = Queued(d)
                                /\ OneIn(done, d) => OneIn(done', d)
  PROVE  /\ \A d \in Conns \ {c} : SameSeen(d)
         /\ \A w \in IoWords : Called(w, c)' <=> f = <<w, c>>
         /\ OneFailed(c)'
<1>1. \A w, d : ~Called(w, d) /\ (Called(w, d)' <=> f = <<w, d>>) /\ OneFailed(d)'
  BY CalledStarts
<1>2. ASSUME NEW d \in Conns \ {c}, NEW w \in IoWords PROVE ~Called(w, d)'
  <2>1. f # <<w, d>>
    BY <1>2
  <2> QED
    BY <1>1, <2>1
<1> QED
  BY <1>1, <1>2 DEF SameSeen

\* The bytes of a connection whose fiber writes.
LEMMA WriteBytes ==
  ASSUME Types, NEW c \in Conns, BytesFit(c), phase[c] \in {"hello", "reply"},
         sock[c] # 0, \A x \in Queued(c)' : x[1] # "recv",
         UNCHANGED <<gone, asked, net, sock, phase, required, got, have, garbled>>
  PROVE  BytesFit(c)'
<1>1. Taken(c)' = 0 /\ Taken(c) = 0 /\ Unsent(c)' = Unsent(c)
  BY DEF Taken, Unsent
<1>2. Bytes(c)'
  BY <1>1 DEF BytesFit, Bytes
<1>3. Counted(c)' /\ Quiet(c)' /\ GarbledEnds(c)'
  BY DEF BytesFit, Counted, Quiet, AllCame, GarbledEnds
<1>4. Bounded(c)'
  BY DEF BytesFit, Bounded
<1> QED
  BY <1>2, <1>3, <1>4 DEF BytesFit

LEMMA ReturnsTypes ==
  ASSUME Types, NEW c \in Conns, Returns(c)
  PROVE  back'[c] /\ \A d \in Conns \ {c} : back'[d] = back[d]
BY DEF Types, Returns

LEMMA WriteNowFits ==
  ASSUME SInv, NEW c \in Conns, WriteNow(c)
  PROVE  Fits'
<1>1. PICK p \in {"hello", "reply"} : p = phase[c] /\ Runs(c, p, FALSE)
  BY DEF WriteNow, Runs
<1>2. p \in Alive /\ Types /\ frames = <<>> /\ sock[c] # 0 /\ Returns(c)
  BY <1>1 DEF WriteNow, Runs, Alive, SInv, Base
<1>3. PICK e, f : e = <<"send", c, 1>> /\ f = <<"wrote", c>>
  OBVIOUS
<1>4. /\ e \in ItemType /\ e[1] = "send" /\ e[2] = c /\ done' = Append(done, e)
      /\ f \in FrameType /\ f[1] = "wrote" /\ f[2] = c /\ frames' = Append(frames, f)
  BY <1>3 DEF WriteNow, Sleeping, ItemType, FrameType
<1>5. /\ UNCHANGED <<gone, asked, net, rcv, snd, sock, phase, required, got, have,
                     blocked, throwVars, slot, garbled>>
      /\ cur' = cur /\ struck' = struck
  BY DEF WriteNow, kernelVars, readVars, throwVars, vars
<1>6. back'[c] /\ \A d \in Conns \ {c} : back'[d] = back[d]
  BY <1>2, ReturnsTypes
<1>7. \A d \in Conns :
        /\ Queued(d)' = IF d = c THEN Queued(d) \cup {e} ELSE Queued(d)
        /\ OneIn(done, d) /\ (d # c \/ Queued(d) = {}) => OneIn(done', d)
  BY <1>2, <1>4, QueuedMore
<1>8. /\ \A d \in Conns \ {c} : SameSeen(d)
      /\ \A w \in IoWords : Called(w, c)' <=> f = <<w, c>>
      /\ OneFailed(c)'
  BY <1>2, <1>4, <1>7, StartsSeen
<1>9. \A d \in Conns \ {c} : SameConn(d) /\ NotSwitchedTo(d)
  BY <1>5, <1>6 DEF SameConn, SameIo, NotSwitchedTo
<1>10. ASSUME c \notin struck PROVE ConnFits(c)'
  <2>1. /\ BytesFit(c) /\ IoFits(c) /\ AtRest(c)
        /\ rcv[c] = 0 /\ snd[c] = 0 /\ Queued(c) = {}
    BY <1>1, <1>2, <1>10, Resting
  <2>2. Queued(c)' = {e} /\ OneIn(done', c)
    BY <1>7, <2>1 DEF IoFits, Alone
  <2>3. /\ Called("wrote", c)' /\ ~Called("failed", c)' /\ ~Called("read", c)'
        /\ ~Called("poll", c)' /\ ~Called("yield", c)'
    BY <1>3, <1>8 DEF IoWords
  <2>4. Writing(c)' /\ ~Reading(c)' /\ ~InKernel(c)'
    BY <1>1, <1>5, <1>6, <2>1 DEF Writing, Reading, InKernel
  <2>5. Alone(c)' /\ Kinds(c)'
    BY <1>4, <1>5, <1>8, <2>1, <2>2, <2>3, <2>4 DEF Alone, Kinds
  <2>6. LastPiece(c)'
    BY <1>4, <2>2, <2>4 DEF LastPiece
  <2>7. Awaited(c)' /\ Returned(c)' /\ BlockedInIo(c)'
    BY <2>3, <2>4, <2>6 DEF Awaited, Returned, BlockedInIo
  <2>8. BytesFit(c)'
    BY <1>1, <1>2, <1>4, <1>5, <2>1, <2>2, WriteBytes
  <2> QED
    BY <2>5, <2>7, <2>8 DEF ConnFits, IoFits
<1> QED
  BY <1>5, <1>8, <1>9, <1>10, Others

LEMMA WriteLaterFits ==
  ASSUME SInv, NEW c \in Conns, WriteLater(c)
  PROVE  Fits'
<1>1. PICK p \in {"hello", "reply"} : p = phase[c] /\ Runs(c, p, FALSE)
  BY DEF WriteLater, Runs
<1>2. /\ p \in Alive /\ Types /\ frames = <<>> /\ sock[c] # 0 /\ Returns(c)
      /\ cur \in Slots /\ cur # MAIN
  BY <1>1 DEF WriteLater, Runs, Alive, SInv, Base, Types, TypeOK
<1>3. /\ UNCHANGED <<gone, asked, net, rcv, sock, phase, required, got, have,
                     done, frames, throwVars, slot, garbled>>
      /\ snd' = [snd EXCEPT ![c] = @ + 1] /\ blocked' = [blocked EXCEPT ![c] = cur]
      /\ cur' = MAIN /\ struck' = struck
  BY DEF WriteLater, Block, SwitchToMain, readVars, throwVars
<1>4. back'[c] /\ \A d \in Conns \ {c} : back'[d] = back[d]
  BY <1>2, ReturnsTypes
<1>5. /\ snd'[c] = snd[c] + 1 /\ blocked'[c] = cur
      /\ \A d \in Conns \ {c} : snd'[d] = snd[d] /\ blocked'[d] = blocked[d]
  BY <1>2, <1>3 DEF Types
<1>6. \A d \in Conns : SameSeen(d)
  BY <1>3, SeenSame
<1>7. \A d \in Conns \ {c} : SameConn(d) /\ NotSwitchedTo(d)
  BY <1>3, <1>4, <1>5, MainIsSlot DEF SameConn, SameIo, NotSwitchedTo, SInv, Base, SlotLive
<1>8. ASSUME c \notin struck PROVE ConnFits(c)'
  <2>1. /\ BytesFit(c) /\ IoFits(c) /\ AtRest(c)
        /\ rcv[c] = 0 /\ snd[c] = 0 /\ Queued(c) = {}
    BY <1>1, <1>2, <1>8, Resting
  <2>2. Queued(c)' = {} /\ OneIn(done', c) /\ OneFailed(c)'
    BY <1>3, <2>1 DEF IoFits, Alone, Queued, OneFailed
  <2>3. /\ ~Called("wrote", c)' /\ ~Called("failed", c)' /\ ~Called("read", c)'
        /\ ~Called("poll", c)' /\ ~Called("yield", c)'
    BY <1>3, <2>1 DEF AtRest, IoWords, Called
  <2>4. Writing(c)' /\ ~Reading(c)' /\ rcv'[c] = 0 /\ snd'[c] = 1 /\ blocked'[c] # MAIN
    BY <1>1, <1>2, <1>3, <1>4, <1>5, <2>1 DEF Writing, Reading
  <2>5. Alone(c)' /\ Kinds(c)'
    BY <2>2, <2>3, <2>4 DEF Alone, Kinds
  <2>6. Awaited(c)' /\ Returned(c)' /\ BlockedInIo(c)'
    BY <2>4 DEF Awaited, Returned, BlockedInIo
  <2>7. BytesFit(c)'
    BY <1>1, <1>2, <1>3, <2>1, <2>2, WriteBytes
  <2> QED
    BY <2>5, <2>6, <2>7 DEF ConnFits, IoFits
<1> QED
  BY <1>3, <1>6, <1>7, <1>8, Others

\* A read starts to count; q is the completion that the kernel queues at once.
LEMMA ReadBytes ==
  ASSUME Types, NEW c \in Conns, BytesFit(c), phase[c] \in {"command", "argument"},
         ~back[c], back'[c], Wanted(c) > 0, required'[c] = Wanted(c), got'[c] = 0,
         UNCHANGED <<gone, asked, sock, phase, have, garbled>>,
         net'[c] \in Nat, net'[c] <= net[c],
         \A x \in Queued(c)' : x[1] = "recv" => x[3] \in Nat /\ x[3] + net'[c] = net[c]
  PROVE  BytesFit(c)'
<1>1. Taken(c)' = Taken(c) /\ Unsent(c)' = Unsent(c)
  BY Numbers DEF Taken, Unsent
<1>2. Bytes(c)'
  <2>1. Taken(c) + net[c] + Unsent(c) <= 1 + ArgLen
    BY DEF BytesFit, Bytes
  <2>2. Taken(c)' + net'[c] + Unsent(c)' <= 1 + ArgLen
    BY <1>1, <2>1, Numbers, LengthFacts
  <2>3. ASSUME NEW x \in Queued(c)', x[1] = "recv"
        PROVE  Taken(c)' + x[3] + net'[c] + Unsent(c)' <= 1 + ArgLen
    <3>1. x[3] \in Nat /\ x[3] + net'[c] = net[c]
      BY <2>3
    <3> QED
      BY <1>1, <2>1, <3>1, Numbers, LengthFacts
  <2> QED
    BY <2>2, <2>3 DEF Bytes
<1>3. Counted(c)'
  BY Numbers, LengthFacts DEF BytesFit, Counted, Wanted
<1>4. Quiet(c)' /\ GarbledEnds(c)'
  BY DEF BytesFit, Quiet, GarbledEnds
<1>5. Bounded(c)'
  <2>1. Wanted(c) \in 1..ArgLen
    BY Numbers, LengthFacts DEF Wanted
  <2> QED
    BY <2>1, Numbers, LengthFacts DEF BytesFit, Bounded
<1> QED
  BY <1>2, <1>3, <1>4, <1>5 DEF BytesFit

LEMMA ReadFits ==
  ASSUME SInv, NEW c \in Conns, Read(c)
  PROVE  Fits'
<1>1. PICK p \in {"command", "argument"} : p = phase[c] /\ Runs(c, p, FALSE)
  BY DEF Read, Runs
<1>2. /\ p \in Alive /\ Types /\ frames = <<>> /\ Wanted(c) > 0 /\ Returns(c)
      /\ phase[c] = p /\ ~back[c]
  BY <1>1 DEF Read, Runs, Alive, SInv, Base
<1>3. PICK complete \in BOOLEAN :
        /\ Recv(c, Wanted(c), done, complete)
        /\ frames' = Append(frames, <<IF complete THEN "read" ELSE "poll", c>>)
  BY DEF Read, Sleeping
<1>4. PICK w \in {"read", "poll"} : /\ w = IF complete THEN "read" ELSE "poll"
                                    /\ w = "poll" <=> ~complete
  OBVIOUS
<1>5. PICK f : f = <<w, c>>
  OBVIOUS
<1>6. /\ f \in FrameType /\ f[1] # "failed" /\ f[2] = c /\ frames' = Append(frames, f)
  BY <1>3, <1>4, <1>5 DEF FrameType
<1>7. /\ UNCHANGED <<gone, asked, snd, sock, phase, have, blocked, throwVars, slot,
                     garbled>>
      /\ cur' = cur /\ struck' = struck
      /\ required' = [required EXCEPT ![c] = Wanted(c)] /\ got' = [got EXCEPT ![c] = 0]
  BY DEF Read, throwVars, serverVars, vars
<1>8. back'[c] /\ \A d \in Conns \ {c} : back'[d] = back[d]
  BY <1>2, ReturnsTypes
<1>9. /\ required'[c] = Wanted(c) /\ got'[c] = 0
      /\ \A d \in Conns \ {c} : required'[d] = required[d] /\ got'[d] = got[d]
  BY <1>2, <1>7 DEF Types
<1>10. PICK n \in Nat, e \in ItemType : n = net[c] /\ e = <<"recv", c, n>>
  BY <1>2, Numbers DEF ItemType
<1>11. e \in ItemType /\ e[1] = "recv" /\ e[2] = c /\ e[3] = n
  BY <1>10 DEF ItemType
<1>12. net \in [Conns -> Nat] /\ rcv \in [Conns -> Nat]
  BY <1>2 DEF Types
<1>13. \/ /\ sock[c] = 0 /\ complete /\ done' = done /\ net' = net /\ rcv' = rcv
       \/ /\ complete = (n = 0 \/ n >= Wanted(c))
          /\ done' = Append(done, e)
          /\ net' = [net EXCEPT ![c] = 0] /\ rcv' = rcv
       \/ /\ net[c] = 0 /\ ~complete
          /\ done' = done /\ rcv' = [rcv EXCEPT ![c] = @ + 1] /\ net' = net
  BY <1>3, <1>10 DEF Recv
<1>14. \A d \in Conns \ {c} : net'[d] = net[d] /\ rcv'[d] = rcv[d]
  BY <1>12, <1>13
<1>15. done' = done =>
         \A d \in Conns : Queued(d)' = Queued(d) /\ (OneIn(done, d) => OneIn(done', d))
  BY DEF Queued
<1>16. done' = Append(done, e) =>
         \A d \in Conns :
           /\ Queued(d)' = IF d = c THEN Queued(d) \cup {e} ELSE Queued(d)
           /\ OneIn(done, d) /\ (d # c \/ Queued(d) = {}) => OneIn(done', d)
  BY <1>2, <1>11, QueuedMore
<1>17. \A d \in Conns \ {c} : /\ Queued(d)' = Queued(d)
                              /\ OneIn(done, d) => OneIn(done', d)
  BY <1>13, <1>15, <1>16
<1>18. /\ \A d \in Conns \ {c} : SameSeen(d)
       /\ \A v \in IoWords : Called(v, c)' <=> f = <<v, c>>
       /\ OneFailed(c)'
  BY <1>2, <1>6, <1>17, StartsSeen
<1>19. \A d \in Conns \ {c} : SameConn(d) /\ NotSwitchedTo(d)
  BY <1>7, <1>8, <1>9, <1>14 DEF SameConn, SameIo, NotSwitchedTo
<1>20. ASSUME c \notin struck PROVE ConnFits(c)'
  <2>1. /\ BytesFit(c) /\ IoFits(c) /\ AtRest(c)
        /\ rcv[c] = 0 /\ snd[c] = 0 /\ Queued(c) = {}
    BY <1>1, <1>2, <1>20, Resting
  <2>2. /\ Called("read", c)' <=> w = "read"
        /\ Called("poll", c)' <=> w = "poll"
        /\ ~Called("failed", c)' /\ ~Called("wrote", c)' /\ ~Called("yield", c)'
    BY <1>4, <1>5, <1>18 DEF IoWords
  <2>3. Reading(c)' /\ ~Writing(c)' /\ snd'[c] = 0 /\ blocked'[c] = MAIN
    BY <1>1, <1>2, <1>7, <1>8, <2>1 DEF Reading, Writing, AtRest
  <2>4. required'[c] > 0
    BY <1>2, <1>9
  <2>5. OneIn(done, c)
    BY <2>1 DEF IoFits, Alone
  <2>6. CASE /\ sock[c] = 0 /\ complete /\ done' = done /\ net' = net /\ rcv' = rcv
    <3>1. Queued(c)' = {} /\ OneIn(done', c) /\ rcv'[c] = 0 /\ sock'[c] = 0
      BY <1>7, <1>15, <2>1, <2>5, <2>6
    <3>2. ~InKernel(c)' /\ ~Outstanding(c)'
      BY <2>2, <2>3, <3>1 DEF InKernel, Outstanding
    <3>3. Alone(c)' /\ Kinds(c)'
      BY <1>18, <2>2, <2>3, <3>1, <3>2 DEF Alone, Kinds
    <3>4. Awaited(c)' /\ Returned(c)' /\ BlockedInIo(c)'
      BY <2>3, <3>1, <3>2 DEF Awaited, Returned, BlockedInIo
    <3>5. BytesFit(c)'
      BY <1>1, <1>2, <1>7, <1>8, <1>9, <2>1, <2>6, <3>1, Numbers, ReadBytes
    <3> QED
      BY <3>3, <3>4, <3>5 DEF ConnFits, IoFits
  <2>7. CASE /\ complete = (n = 0 \/ n >= Wanted(c))
             /\ done' = Append(done, e)
             /\ net' = [net EXCEPT ![c] = 0] /\ rcv' = rcv
    <3>1. Queued(c)' = {e} /\ OneIn(done', c) /\ rcv'[c] = 0 /\ net'[c] = 0
      BY <1>12, <1>16, <2>1, <2>5, <2>7
    <3>2. ~InKernel(c)'
      BY <2>3, <3>1 DEF InKernel
    <3>3. Alone(c)' /\ Kinds(c)'
      BY <1>11, <1>18, <2>2, <2>3, <2>4, <3>1, <3>2 DEF Alone, Kinds
    <3>4. w = "read" => LastPiece(c)'
      <4>1. complete => n = 0 \/ Wanted(c) <= n
        BY <1>2, <2>7, Numbers, LengthFacts DEF Wanted
      <4> QED
        BY <1>4, <1>9, <1>11, <3>1, <3>2, <4>1 DEF LastPiece
    <3>5. Awaited(c)' /\ BlockedInIo(c)'
      BY <2>2, <2>3, <3>4 DEF Awaited, BlockedInIo
    <3>6. Returned(c)'
      BY <3>1 DEF Returned, Outstanding
    <3>7. BytesFit(c)'
      <4>1. \A x \in Queued(c)' : x[1] = "recv" => x[3] \in Nat /\ x[3] + net'[c] = net[c]
        BY <1>10, <1>11, <3>1
      <4>2. net'[c] \in Nat /\ net'[c] <= net[c]
        BY <1>10, <3>1
      <4> QED
        BY <1>1, <1>2, <1>7, <1>8, <1>9, <2>1, <4>1, <4>2, ReadBytes
    <3> QED
      BY <3>3, <3>5, <3>6, <3>7 DEF ConnFits, IoFits
  <2>8. CASE /\ net[c] = 0 /\ ~complete
             /\ done' = done /\ rcv' = [rcv EXCEPT ![c] = @ + 1] /\ net' = net
    <3>1. Queued(c)' = {} /\ OneIn(done', c) /\ rcv'[c] = 1 /\ Called("poll", c)'
      BY <1>4, <1>12, <1>15, <2>1, <2>2, <2>5, <2>8
    <3>2. Alone(c)' /\ Kinds(c)'
      BY <1>18, <2>2, <2>3, <2>4, <3>1 DEF Alone, Kinds
    <3>3. Awaited(c)' /\ Returned(c)' /\ BlockedInIo(c)'
      BY <2>3, <3>1 DEF Awaited, Returned, BlockedInIo
    <3>4. BytesFit(c)'
      BY <1>1, <1>2, <1>7, <1>8, <1>9, <2>1, <2>8, <3>1, Numbers, ReadBytes
    <3> QED
      BY <3>2, <3>3, <3>4 DEF ConnFits, IoFits
  <2> QED
    BY <1>13, <2>6, <2>7, <2>8
<1> QED
  BY <1>7, <1>18, <1>19, <1>20, Others

\* The fiber calls SleepEx in a close() or in yieldif, with nothing outstanding.
LEMMA PausesFits ==
  ASSUME SInv, NEW c \in Conns, NEW p \in Alive, NEW b, Runs(c, p, b),
         NEW f \in FrameType, f[1] \in {"kill", "destroy", "yield"},
         f[1] = "yield" => f[2] = c /\ phase'[c] = "execute",
         frames' = Append(frames, f), ~back'[c],
         \A d \in Conns \ {c} : phase'[d] = phase[d] /\ back'[d] = back[d],
         UNCHANGED <<gone, asked, net, rcv, snd, done, sock, required, got, have,
                     blocked, throwVars, slot, garbled>>,
         cur' = cur, c \notin struck => BytesFit(c)'
  PROVE  Fits'
<1>1. /\ Types /\ frames = <<>> /\ struck' = struck
      /\ f[1] # "failed" /\ (f[2] = c \/ f[1] \notin IoWords)
  BY DEF SInv, Base, Runs, throwVars, IoWords
<1>2. \A d \in Conns \ {c} : Queued(d)' = Queued(d) /\ (OneIn(done, d) => OneIn(done', d))
  BY DEF Queued
<1>3. /\ \A d \in Conns \ {c} : SameSeen(d)
      /\ \A w \in IoWords : Called(w, c)' <=> f = <<w, c>>
  BY <1>1, <1>2, StartsSeen
<1>4. \A d \in Conns \ {c} : SameConn(d) /\ NotSwitchedTo(d)
  BY DEF SameConn, SameIo, NotSwitchedTo
<1>5. ASSUME c \notin struck PROVE ConnFits(c)'
  <2>1. AtRest(c) /\ rcv[c] = 0 /\ snd[c] = 0 /\ Queued(c) = {}
    BY <1>5, Resting
  <2>2. rcv'[c] = 0 /\ snd'[c] = 0 /\ Queued(c)' = {} /\ blocked'[c] = MAIN
    BY <2>1 DEF AtRest, Queued
  <2>3. \A w \in IoWords \ {"yield"} : ~Called(w, c)'
    BY <1>3 DEF IoWords
  <2>4. Called("yield", c)' => phase'[c] = "execute"
    BY <1>3 DEF IoWords
  <2>5. ~Reading(c)'
    BY DEF Reading
  <2>6. IoFits(c)'
    BY <2>2, <2>3, <2>4, <2>5, RestFits
  <2> QED
    BY <1>5, <2>6 DEF ConnFits
<1> QED
  BY <1>1, <1>3, <1>4, <1>5, Others

LEMMA KillFits ==
  ASSUME SInv, NEW c \in Conns, NEW b \in Conns, Kill(c, b)
  PROVE  Fits'
<1>1. /\ Runs(c, "execute", FALSE) /\ Goes(c, "reply") /\ Types
      /\ "execute" \in Alive /\ "reply" \in Phases /\ phase[c] = "execute"
  BY DEF Kill, Runs, Alive, Phases, SInv, Base
<1>2. PICK f : f = <<"kill", b>>
  OBVIOUS
<1>3. /\ f \in FrameType /\ f[1] \in {"kill", "destroy", "yield"} /\ f[1] # "yield"
      /\ frames' = Append(frames, f)
  BY <1>2 DEF Kill, Sleeping, FrameType
<1>4. /\ UNCHANGED <<gone, asked, net, rcv, snd, done, sock, required, got, have,
                     blocked, throwVars, slot, garbled>>
      /\ cur' = cur
  BY DEF Kill, kernelVars, readVars, serverVars, vars
<1>5. /\ phase'[c] = "reply" /\ ~back'[c]
      /\ \A d \in Conns \ {c} : phase'[d] = phase[d] /\ back'[d] = back[d]
  BY <1>1, GoesTypes
<1>6. ASSUME c \notin struck PROVE BytesFit(c)'
  <2>1. BytesFit(c) /\ Queued(c) = {}
    BY <1>1, <1>6, Resting
  <2>2. Queued(c)' = {}
    BY <1>4, <2>1 DEF Queued
  <2> QED
    BY <1>1, <1>4, <1>5, <2>1, <2>2, AnsweredBytes
<1> QED
  BY <1>1, <1>3, <1>4, <1>5, <1>6, PausesFits

LEMMA DestroyFits ==
  ASSUME SInv, NEW c \in Conns, Destroy(c)
  PROVE  Fits'
<1>1. /\ Runs(c, "destroy", FALSE) /\ Goes(c, "closing") /\ Types
      /\ "destroy" \in Alive /\ "closing" \in Phases /\ phase[c] = "destroy"
  BY DEF Destroy, Runs, Alive, Phases, SInv, Base
<1>2. PICK f : f = <<"destroy", c>>
  OBVIOUS
<1>3. /\ f \in FrameType /\ f[1] \in {"kill", "destroy", "yield"} /\ f[1] # "yield"
      /\ frames' = Append(frames, f)
  BY <1>2 DEF Destroy, Sleeping, FrameType
<1>4. /\ UNCHANGED <<gone, asked, net, rcv, snd, done, sock, required, got, have,
                     blocked, throwVars, slot, garbled>>
      /\ cur' = cur
  BY DEF Destroy, kernelVars, readVars, vars
<1>5. /\ phase'[c] = "closing" /\ ~back'[c]
      /\ \A d \in Conns \ {c} : phase'[d] = phase[d] /\ back'[d] = back[d]
  BY <1>1, GoesTypes
<1>6. ASSUME c \notin struck PROVE BytesFit(c)'
  <2>1. BytesFit(c) /\ Queued(c) = {}
    BY <1>1, <1>6, Resting
  <2>2. Queued(c)' = {}
    BY <1>4, <2>1 DEF Queued
  <2>3. Taken(c)' = 0
    BY <1>5 DEF Taken
  <2>4. Bytes(c)'
    BY <1>1, <1>4, <2>1, <2>2, <2>3, BytesMoved, Numbers
  <2>5. Counted(c)' /\ Quiet(c)' /\ GarbledEnds(c)'
    BY <1>1, <1>4, <1>5, <2>1 DEF BytesFit, Counted, Quiet, GarbledEnds
  <2>6. Bounded(c)'
    BY <1>4, <2>1 DEF BytesFit, Bounded
  <2> QED
    BY <2>4, <2>5, <2>6 DEF BytesFit
<1> QED
  BY <1>1, <1>3, <1>4, <1>5, <1>6, PausesFits

LEMMA ExecuteYieldsFits ==
  ASSUME SInv, NEW c \in Conns, ExecuteYields(c)
  PROVE  Fits'
<1>1. /\ Runs(c, "execute", FALSE) /\ "execute" \in Alive
      /\ phase[c] = "execute" /\ ~back[c] /\ Types
  BY DEF ExecuteYields, Runs, Alive, SInv, Base
<1>2. /\ UNCHANGED <<gone, asked, net, rcv, snd, done, sock, required, got, have,
                     blocked, throwVars, slot, garbled, phase, back>>
      /\ struck' = struck
  BY DEF ExecuteYields, kernelVars, readVars, serverVars, throwVars
<1>3. ASSUME YieldIf, UNCHANGED frames PROVE Fits'
  <2>1. \A d \in Conns : SameConn(d)
    BY <1>2 DEF SameConn, SameIo
  <2>2. \A d \in Conns : SameSeen(d)
    BY <1>2, <1>3, SeenSame
  <2>3. \A d \in Conns : NotSwitchedTo(d)
    BY <1>3, MainIsSlot DEF YieldIf, SwitchToMain, SInv, Base, SlotLive, NotSwitchedTo
  <2> QED
    BY <1>2, <2>1, <2>2, <2>3, NoneMoved
<1>4. ASSUME Sleeping("yield", c), UNCHANGED vars PROVE Fits'
  <2>1. PICK f : f = <<"yield", c>>
    OBVIOUS
  <2>2. /\ f \in FrameType /\ f[1] \in {"kill", "destroy", "yield"} /\ f[2] = c
        /\ frames' = Append(frames, f)
    BY <1>4, <2>1 DEF Sleeping, FrameType
  <2>3. cur' = cur /\ phase'[c] = "execute" /\ ~back'[c]
    BY <1>1, <1>2, <1>4 DEF vars
  <2>4. ASSUME c \notin struck PROVE BytesFit(c)'
    <3>1. BytesFit(c) /\ Queued(c) = {}
      BY <1>1, <2>4, Resting
    <3>2. Queued(c)' = {}
      BY <1>2, <3>1 DEF Queued
    <3> QED
      BY <1>1, <1>2, <2>3, <3>1, <3>2, AnsweredBytes
  <2> QED
    BY <1>1, <1>2, <2>2, <2>3, <2>4, PausesFits
<1> QED
  BY <1>3, <1>4 DEF ExecuteYields

-----------------------------------------------------------------------------
(* Calls that return or are unwound, and the second invariant *)

\* A call that is off the stack is missed by its own connection at most.
LEMMA PopSeen ==
  ASSUME Types, frames # <<>>, frames' = Pop(frames), done' = done
  PROVE  \A d \in Conns : d # OnTop[2] \/ OnTop[1] \notin IoWords => SameSeen(d)
<1>1. \A w, d : /\ Called(w, d) <=> Called(w, d)' \/ OnTop = <<w, d>>
                /\ OneFailed(d) => OneFailed(d)'
  BY CalledPops
<1>2. ASSUME NEW d \in Conns, d # OnTop[2] \/ OnTop[1] \notin IoWords PROVE SameSeen(d)
  <2>1. \A w \in IoWords : OnTop # <<w, d>>
    <3>1. ASSUME NEW w \in IoWords, OnTop = <<w, d>> PROVE FALSE
      <4>1. OnTop[1] = w /\ OnTop[2] = d
        BY <3>1
      <4> QED
        BY <1>2, <4>1
    <3> QED
      BY <3>1
  <2> QED
    BY <1>1, <2>1 DEF SameSeen, Queued
<1> QED
  BY <1>2

\* The call of the fiber that has the thread is the only one.
LEMMA OwnPops ==
  ASSUME Base, frames # <<>>, OnTop[1] # "failed", frames' = Pop(frames)
  PROVE  \A w, d : ~Called(w, d)' /\ OneFailed(d)' /\ (Called(w, d) <=> OnTop = <<w, d>>)
<1>1. frames' = <<>> /\ Types
  BY OwnFrame DEF Base
<1>2. \A w, d : ~Called(w, d)' /\ OneFailed(d)'
  <2>1. Len(frames') = 0
    BY <1>1
  <2> QED
    BY <2>1 DEF Called, OneFailed
<1>3. \A w, d : Called(w, d) <=> Called(w, d)' \/ OnTop = <<w, d>>
  BY <1>1, CalledPops
<1> QED
  BY <1>2, <1>3

\* The fiber's own SleepEx is over, and nothing is outstanding.
LEMMA RestReturns ==
  ASSUME SInv, NEW c \in Conns, frames # <<>>, frames' = Pop(frames), c = OnTop[2],
         OnTop[1] \in {"wrote", "read", "poll", "yield", "destroy"},
         UNCHANGED <<rcv, snd, done, blocked>>, struck' = struck,
         \A d \in Conns \ {c} : SameConn(d) /\ NotSwitchedTo(d),
         c \notin struck => /\ rcv[c] = 0 /\ snd[c] = 0 /\ Queued(c) = {}
                            /\ ~Reading(c)' \/ required'[c] <= 0 \/ sock'[c] = 0
                            /\ BytesFit(c)'
  PROVE  Fits'
<1>1. Base /\ Types /\ OnTop[1] # "failed"
  BY DEF SInv, Base
<1>2. slot[c] = cur /\ Live(c)
  BY <1>1, OwnFrame DEF FrameOwned
<1>3. blocked[c] = MAIN
  BY <1>1, <1>2, CurrentWaitsForNone
<1>4. \A w, d : ~Called(w, d)'
  BY <1>1, OwnPops
<1>5. \A d \in Conns \ {c} : SameSeen(d)
  BY <1>1, PopSeen
<1>6. ASSUME c \notin struck PROVE ConnFits(c)'
  <2>1. rcv'[c] = 0 /\ snd'[c] = 0 /\ Queued(c)' = {} /\ blocked'[c] = MAIN
    BY <1>3, <1>6 DEF Queued
  <2>2. IoFits(c)'
    BY <1>4, <1>6, <2>1, RestFits
  <2> QED
    BY <1>6, <2>2 DEF ConnFits
<1> QED
  BY <1>5, <1>6, Others

\* A command or the destructor waits for nothing.
LEMMA NothingWaits ==
  ASSUME SInv, NEW c \in Conns \ struck, phase[c] \in {"none", "execute", "closing"}
  PROVE  /\ rcv[c] = 0 /\ snd[c] = 0 /\ Queued(c) = {}
         /\ ~Called("failed", c) /\ BytesFit(c)
<1>1. Kinds(c) /\ BytesFit(c) /\ ~Reading(c) /\ ~Writing(c)
  BY DEF SInv, Fits, ConnFits, IoFits, Reading, Writing
<1>2. rcv[c] \in Nat /\ snd[c] \in Nat
  BY DEF SInv, Base, Types
<1>3. Queued(c) = {}
  BY <1>1 DEF Kinds
<1> QED
  BY <1>1, <1>2, <1>3 DEF Kinds

LEMMA SleepReturnsFits ==
  ASSUME SInv, SleepReturns
  PROVE  Fits'
<1>1. /\ frames # <<>> /\ frames' = Pop(frames) /\ done = <<>>
      /\ OnTop[1] \in {"wrote", "read", "poll"}
      /\ OnTop[1] = "poll" => required[OnTop[2]] <= 0
      /\ UNCHANGED <<kernelVars, done, sock, readVars, blocked, throwVars, phase,
                     back, slot, serverVars, vars>>
  BY DEF SleepReturns, Slept
<1>2. Base /\ Types
  BY DEF SInv, Base
<1>3. PICK c \in Conns : c = OnTop[2]
  BY <1>1, <1>2, StackTop
<1>4. /\ UNCHANGED <<gone, asked, net, rcv, snd, sock, required, got, have,
                     blocked, phase, back, slot, garbled>>
      /\ cur' = cur /\ struck' = struck
  BY <1>1 DEF kernelVars, readVars, throwVars, serverVars, vars
<1>5. \A d \in Conns \ {c} : SameConn(d) /\ NotSwitchedTo(d)
  BY <1>4 DEF SameConn, SameIo, NotSwitchedTo
<1>6. ASSUME c \notin struck
      PROVE  /\ rcv[c] = 0 /\ snd[c] = 0 /\ Queued(c) = {}
             /\ ~Reading(c)' \/ required'[c] <= 0 \/ sock'[c] = 0
             /\ BytesFit(c)'
  <2>1. PICK w \in {"wrote", "read", "poll"} : w = OnTop[1] /\ OnTop = <<w, c>>
    BY <1>1, <1>2, <1>3, StackTop DEF FrameType
  <2>2. \A v : Called(v, c) <=> v = w
    BY <1>1, <1>2, <2>1, OwnPops
  <2>3. IoFits(c) /\ BytesFit(c)
    BY <1>6 DEF SInv, Fits, ConnFits
  <2>4. blocked[c] = MAIN /\ phase[c] # "accepting"
    <3>1. slot[c] = cur /\ Live(c)
      BY <1>1, <1>2, <1>3, OwnFrame DEF FrameOwned
    <3> QED
      BY <1>2, <3>1, CurrentWaitsForNone DEF Live
  <2>5. rcv[c] \in Nat /\ snd[c] \in Nat /\ Queued(c) = {}
    <3>1. Len(done) = 0
      BY <1>1
    <3> QED
      BY <1>2, <3>1 DEF Types, Queued, QueuedIn
  <2>6. ~InKernel(c)
    <3>1. CASE w = "poll"
      <4>1. required[c] <= 0 /\ Reading(c) /\ ~Writing(c)
        BY <1>1, <1>3, <2>1, <2>2, <2>3, <3>1 DEF IoFits, Kinds, Reading, Writing
      <4> QED
        BY <1>2, <2>3, <2>5, <4>1, Numbers DEF IoFits, Kinds, InKernel
    <3>2. CASE w # "poll"
      BY <2>2, <2>3, <2>4, <3>2 DEF IoFits, Awaited, LastPiece, Outstanding
    <3> QED
      BY <3>1, <3>2
  <2>7. ~Outstanding(c)
    BY <2>1, <2>2, <2>5, <2>6 DEF Outstanding
  <2>8. Reading(c) => required[c] <= 0 \/ sock[c] = 0
    BY <1>1, <1>3, <2>1, <2>2, <2>3, <2>4, <2>7 DEF IoFits, Returned
  <2>9. Reading(c)' <=> Reading(c)
    BY <1>4 DEF Reading
  <2>10. BytesFit(c)'
    <3>1. Queued(c)' = Queued(c)
      BY <1>1 DEF Queued
    <3> QED
      BY <1>4, <2>3, <3>1, BytesKept
  <2> QED
    BY <1>4, <2>5, <2>6, <2>8, <2>9, <2>10 DEF InKernel
<1> QED
  BY <1>1, <1>3, <1>4, <1>5, <1>6, RestReturns

LEMMA YieldSleptFits ==
  ASSUME SInv, YieldSlept
  PROVE  Fits'
<1>1. /\ frames # <<>> /\ frames' = Pop(frames) /\ OnTop[1] = "yield" /\ YieldIf
      /\ UNCHANGED <<kernelVars, done, sock, readVars, blocked, throwVars, phase,
                     back, slot, serverVars>>
  BY DEF YieldSlept, Slept
<1>2. Base /\ Types
  BY DEF SInv, Base
<1>3. PICK c \in Conns : c = OnTop[2]
  BY <1>1, <1>2, StackTop
<1>4. /\ UNCHANGED <<gone, asked, net, rcv, snd, sock, required, got, have,
                     blocked, phase, back, slot, garbled>>
      /\ cur' = MAIN /\ struck' = struck
  BY <1>1 DEF YieldIf, SwitchToMain, kernelVars, readVars, throwVars, serverVars
<1>5. \A d \in Conns \ {c} : SameConn(d) /\ NotSwitchedTo(d)
  BY <1>2, <1>4, MainIsSlot DEF SameConn, SameIo, NotSwitchedTo, Base, SlotLive
<1>6. ASSUME c \notin struck
      PROVE  /\ rcv[c] = 0 /\ snd[c] = 0 /\ Queued(c) = {}
             /\ ~Reading(c)' \/ required'[c] <= 0 \/ sock'[c] = 0
             /\ BytesFit(c)'
  <2>1. OnTop = <<"yield", c>>
    BY <1>1, <1>2, <1>3, StackTop DEF FrameType
  <2>2. Called("yield", c)
    BY <1>1, <1>2, <2>1, OwnPops
  <2>3. phase[c] = "execute"
    BY <1>6, <2>2 DEF SInv, Fits, ConnFits, IoFits, Kinds
  <2>4. rcv[c] = 0 /\ snd[c] = 0 /\ Queued(c) = {} /\ BytesFit(c)
    BY <1>6, <2>3, NothingWaits
  <2>5. ~Reading(c)'
    BY <1>4, <2>3 DEF Reading
  <2>6. Queued(c)' = Queued(c)
    BY <1>1 DEF Queued
  <2> QED
    BY <1>4, <2>4, <2>5, <2>6, BytesKept
<1> QED
  BY <1>1, <1>3, <1>4, <1>5, <1>6, RestReturns

LEMMA PollBlocksFits ==
  ASSUME SInv, PollBlocks
  PROVE  Fits'
<1>1. /\ frames # <<>> /\ OnTop[1] = "poll" /\ frames' = Pop(frames) /\ done = <<>>
      /\ required[OnTop[2]] > 0
      /\ blocked' = [blocked EXCEPT ![OnTop[2]] = cur] /\ Block
      /\ UNCHANGED <<kernelVars, done, sock, readVars, throwVars, phase, back, slot,
                     serverVars>>
  BY DEF PollBlocks, Slept
<1>2. Base /\ Types
  BY DEF SInv, Base
<1>3. PICK c \in Conns : c = OnTop[2]
  BY <1>1, <1>2, StackTop
<1>4. /\ UNCHANGED <<gone, asked, net, rcv, snd, sock, required, got, have,
                     phase, back, slot, garbled>>
      /\ cur' = MAIN /\ struck' = struck
  BY <1>1 DEF Block, SwitchToMain, kernelVars, readVars, throwVars, serverVars
<1>5. blocked'[c] # MAIN /\ \A d \in Conns \ {c} : blocked'[d] = blocked[d]
  <2>1. slot[c] = cur /\ Live(c)
    BY <1>1, <1>2, <1>3, OwnFrame DEF FrameOwned
  <2>2. blocked' = [blocked EXCEPT ![c] = cur] /\ UNCHANGED <<slot, phase>> /\ Block
    BY <1>1, <1>3
  <2> QED
    BY <1>2, <2>1, <2>2, Blocks
<1>6. \A d \in Conns \ {c} : SameConn(d) /\ SameSeen(d) /\ NotSwitchedTo(d)
  <2>1. \A d \in Conns \ {c} : SameSeen(d)
    BY <1>1, <1>2, <1>3, PopSeen
  <2>2. \A d \in Conns \ {c} : SameConn(d) /\ NotSwitchedTo(d)
    BY <1>2, <1>4, <1>5, MainIsSlot DEF SameConn, SameIo, NotSwitchedTo, Base, SlotLive
  <2> QED
    BY <2>1, <2>2
<1>7. ASSUME c \notin struck PROVE ConnFits(c)'
  <2>1. IoFits(c) /\ BytesFit(c)
    BY <1>7 DEF SInv, Fits, ConnFits
  <2>2. OnTop = <<"poll", c>>
    BY <1>1, <1>2, <1>3, StackTop DEF FrameType
  <2>3. Called("poll", c) /\ \A w : ~Called(w, c)' /\ OneFailed(c)'
    BY <1>1, <1>2, <2>2, OwnPops
  <2>4. Reading(c) /\ Reading(c)' /\ (Writing(c)' <=> Writing(c))
    BY <1>4, <2>1, <2>3 DEF IoFits, Kinds, Reading, Writing
  <2>5. Queued(c)' = Queued(c) /\ (OneIn(done, c) => OneIn(done', c))
        /\ (InKernel(c)' <=> InKernel(c))
    BY <1>1, <1>4 DEF Queued, InKernel
  <2>6. Alone(c)' /\ Kinds(c)'
    BY <1>4, <2>1, <2>3, <2>4, <2>5 DEF IoFits, Alone, Kinds
  <2>7. Awaited(c)' /\ Returned(c)' /\ BlockedInIo(c)'
    BY <1>5, <2>4 DEF Awaited, Returned, BlockedInIo
  <2>8. BytesFit(c)'
    BY <1>4, <2>1, <2>5, BytesKept
  <2> QED
    BY <2>6, <2>7, <2>8 DEF ConnFits, IoFits
<1> QED
  BY <1>4, <1>6, <1>7, Others

LEMMA KilledFits ==
  ASSUME SInv, Killed
  PROVE  Fits'
<1>1. /\ frames # <<>> /\ OnTop[1] = "kill" /\ frames' = Pop(frames)
      /\ EndSocket(OnTop[2])
      /\ UNCHANGED <<gone, left, asked, net, rcv, snd, done, readVars, blocked,
                     throwVars, phase, back, slot, serverVars, vars>>
  BY DEF Killed, Slept
<1>2. Base /\ Types
  BY DEF SInv, Base
<1>3. PICK c \in Conns : c = OnTop[2]
  BY <1>1, <1>2, StackTop
<1>4. \A d \in Conns : sock'[d] = sock[d] \/ sock'[d] = 0
  BY <1>1, <1>2, <1>3 DEF EndSocket, Types
<1>5. UNCHANGED <<gone, asked, net, rcv, snd, done, required, got, have, blocked,
                  phase, back, slot, garbled, cur, struck>>
  BY <1>1 DEF readVars, throwVars, serverVars, vars
<1>6. \A d \in Conns : SameConn(d)
  BY <1>4, <1>5 DEF SameConn, SameIo
<1>7. \A d \in Conns : SameSeen(d)
  BY <1>1, <1>2, PopSeen DEF IoWords
<1>8. \A d \in Conns : NotSwitchedTo(d)
  BY <1>5 DEF NotSwitchedTo
<1> QED
  BY <1>5, <1>6, <1>7, <1>8, NoneMoved

LEMMA DestroyedFits ==
  ASSUME SInv, Destroyed
  PROVE  Fits'
<1>1. /\ frames # <<>> /\ OnTop[1] = "destroy" /\ frames' = Pop(frames)
      /\ EndSocket(OnTop[2]) /\ Goes(OnTop[2], "ended") /\ End
      /\ UNCHANGED <<gone, left, asked, net, rcv, snd, done, readVars, blocked,
                     throwVars, slot, serverVars>>
  BY DEF Destroyed, Slept
<1>2. Base /\ Types
  BY DEF SInv, Base
<1>3. PICK c \in Conns : c = OnTop[2]
  BY <1>1, <1>2, StackTop
<1>4. Goes(c, "ended") /\ phase[c] = "closing"
  BY <1>1, <1>2, <1>3, OwnFrame DEF FrameOwned
<1>5. /\ UNCHANGED <<gone, asked, net, rcv, snd, done, required, got, have, blocked,
                     slot, garbled>>
      /\ cur' = MAIN /\ struck' = struck
  BY <1>1 DEF End, SwitchToMain, readVars, throwVars, serverVars
<1>6. sock'[c] = 0 /\ \A d \in Conns \ {c} : sock'[d] = sock[d]
  BY <1>1, <1>2, <1>3 DEF EndSocket, Types
<1>7. /\ phase'[c] = "ended" /\ ~back'[c]
      /\ \A d \in Conns \ {c} : phase'[d] = phase[d] /\ back'[d] = back[d]
  BY <1>2, <1>4, GoesTypes DEF Phases
<1>8. \A d \in Conns \ {c} : SameConn(d) /\ NotSwitchedTo(d)
  BY <1>2, <1>5, <1>6, <1>7, MainIsSlot DEF SameConn, SameIo, NotSwitchedTo, Base, SlotLive
<1>9. ASSUME c \notin struck
      PROVE  /\ rcv[c] = 0 /\ snd[c] = 0 /\ Queued(c) = {}
             /\ ~Reading(c)' \/ required'[c] <= 0 \/ sock'[c] = 0
             /\ BytesFit(c)'
  <2>1. rcv[c] = 0 /\ snd[c] = 0 /\ Queued(c) = {} /\ BytesFit(c)
    BY <1>4, <1>9, NothingWaits
  <2>2. Queued(c)' = {} /\ Taken(c)' = 0
    BY <1>5, <1>7, <2>1 DEF Queued, Taken
  <2>3. Bytes(c)'
    BY <1>2, <1>5, <2>1, <2>2, BytesMoved, Numbers
  <2>4. Counted(c)' /\ Quiet(c)' /\ GarbledEnds(c)'
    BY <1>4, <1>5, <1>6, <1>7, <2>1 DEF BytesFit, Counted, Quiet, GarbledEnds
  <2>5. Bounded(c)'
    BY <1>5, <2>1 DEF BytesFit, Bounded
  <2> QED
    BY <1>6, <2>1, <2>3, <2>4, <2>5 DEF BytesFit
<1> QED
  BY <1>1, <1>3, <1>5, <1>8, <1>9, RestReturns

LEMMA MainYieldsFits ==
  ASSUME SInv, MainYields
  PROVE  Fits'
<1>1. /\ frames = <<>> /\ done = <<>>
      /\ UNCHANGED <<kernelVars, done, sock, readVars, blocked, frames, throwVars,
                     phase, back, slot, serverVars>>
  BY DEF MainYields
<1>2. UNCHANGED <<gone, asked, net, rcv, snd, sock, required, got, have, blocked,
                  phase, back, slot, garbled, struck>>
  BY <1>1 DEF kernelVars, readVars, throwVars, serverVars
<1>3. \A d \in Conns : SameConn(d) /\ SameSeen(d)
  BY <1>1, <1>2, SeenSame DEF SameConn, SameIo
<1>4. \A d \in Conns : NotSwitchedTo(d)
  <2>1. Len(done) = 0 /\ \A w, d : ~Called(w, d)
    BY <1>1, CalledNone
  <2>2. \A d : Queued(d) = {}
    BY <2>1 DEF Queued, QueuedIn
  <2> QED
    BY <2>1, <2>2 DEF NotSwitchedTo
<1> QED
  BY <1>2, <1>3, <1>4, NoneMoved

\* afterRecv or afterSend of another connection throws: this one is struck.
LEMMA UnwindCloseFits ==
  ASSUME SInv, UnwindClose
  PROVE  Fits'
<1>1. /\ frames # <<>> /\ frames' = Pop(frames) /\ struck' = struck \cup {OnTop[2]}
      /\ UNCHANGED <<kernelVars, done, sock, readVars, blocked, thrown, phase, back,
                     slot, serverVars, vars>>
  BY DEF UnwindClose
<1>2. Types
  BY DEF SInv, Base
<1>3. PICK c \in Conns : c = OnTop[2]
  BY <1>1, <1>2, StackTop
<1>4. UNCHANGED <<gone, asked, net, rcv, snd, done, sock, required, got, have, blocked,
                  phase, back, slot, garbled, cur>>
  BY <1>1 DEF kernelVars, readVars, serverVars, vars
<1>5. \A d \in Conns \ {c} : SameConn(d) /\ SameSeen(d) /\ NotSwitchedTo(d)
  BY <1>1, <1>2, <1>3, <1>4, PopSeen DEF SameConn, SameIo, NotSwitchedTo
<1>6. c \in struck' /\ struck \subseteq struck'
  BY <1>1, <1>3
<1> QED
  BY <1>5, <1>6, Others

LEMMA UnwindIoFits ==
  ASSUME SInv, UnwindIo
  PROVE  Fits'
<1>1. /\ frames # <<>> /\ frames' = Pop(frames) /\ struck' = struck \cup {OnTop[2]}
      /\ OnTop[1] \in {"wrote", "read", "poll"}
      /\ Goes(OnTop[2], Catch(OnTop[2]))
      /\ UNCHANGED <<kernelVars, done, sock, readVars, blocked, slot, serverVars, vars>>
  BY DEF UnwindIo
<1>2. Base /\ Types
  BY DEF SInv, Base
<1>3. PICK c \in Conns : c = OnTop[2]
  BY <1>1, <1>2, StackTop
<1>4. \A d \in Conns \ {c} : phase'[d] = phase[d] /\ back'[d] = back[d]
  BY <1>1, <1>2, <1>3 DEF Goes, Types
<1>5. UNCHANGED <<gone, asked, net, rcv, snd, done, sock, required, got, have, blocked,
                  slot, garbled, cur>>
  BY <1>1 DEF kernelVars, readVars, serverVars, vars
<1>6. \A d \in Conns \ {c} : SameSeen(d)
  BY <1>1, <1>2, <1>3, <1>5, PopSeen
<1>7. \A d \in Conns \ {c} : SameConn(d) /\ NotSwitchedTo(d)
  BY <1>4, <1>5 DEF SameConn, SameIo, NotSwitchedTo
<1>8. c \in struck' /\ struck \subseteq struck'
  BY <1>1, <1>3
<1> QED
  BY <1>6, <1>7, <1>8, Others

LEMMA UnwindCommandFits ==
  ASSUME SInv, UnwindCommand
  PROVE  Fits'
<1>1. /\ frames # <<>> /\ frames' = Pop(frames)
      /\ \/ OnTop[1] = "yield" /\ Goes(OnTop[2], "reply")
         \/ UNCHANGED <<phase, back>>
      /\ OnTop[1] \in {"kill", "yield"}
      /\ UNCHANGED <<kernelVars, done, sock, readVars, blocked, struck, slot,
                     serverVars, vars>>
  BY DEF UnwindCommand
<1>2. Base /\ Types
  BY DEF SInv, Base
<1>3. PICK c \in Conns : c = OnTop[2]
  BY <1>1, <1>2, StackTop
<1>4. UNCHANGED <<gone, asked, net, rcv, snd, done, sock, required, got, have, blocked,
                  slot, garbled, struck, cur>>
  BY <1>1 DEF kernelVars, readVars, serverVars, vars
<1>5. CASE OnTop[1] = "kill"
  <2>1. UNCHANGED <<phase, back>>
    BY <1>1, <1>5
  <2>2. \A d \in Conns : SameSeen(d)
    BY <1>1, <1>2, <1>4, <1>5, PopSeen DEF IoWords
  <2>3. \A d \in Conns : SameConn(d) /\ NotSwitchedTo(d)
    BY <1>4, <2>1 DEF SameConn, SameIo, NotSwitchedTo
  <2> QED
    BY <1>4, <2>2, <2>3, NoneMoved
<1>6. CASE OnTop[1] = "yield"
  <2>1. \/ phase'[c] = "reply" /\ ~back'[c]
        \/ phase' = phase /\ back' = back
    BY <1>1, <1>2, <1>3, GoesTypes DEF Phases
  <2>2. \A d \in Conns \ {c} : phase'[d] = phase[d] /\ back'[d] = back[d]
    BY <1>1, <1>2, <1>3, GoesTypes DEF Phases
  <2>3. \A d \in Conns \ {c} : SameConn(d) /\ NotSwitchedTo(d)
    BY <1>4, <2>2 DEF SameConn, SameIo, NotSwitchedTo
  <2>4. ASSUME c \notin struck
        PROVE  /\ rcv[c] = 0 /\ snd[c] = 0 /\ Queued(c) = {}
               /\ ~Reading(c)' \/ required'[c] <= 0 \/ sock'[c] = 0
               /\ BytesFit(c)'
    <3>1. OnTop = <<"yield", c>>
      BY <1>1, <1>2, <1>3, <1>6, StackTop DEF FrameType
    <3>2. Called("yield", c)
      BY <1>1, <1>2, <3>1, OwnPops
    <3>3. phase[c] = "execute"
      BY <2>4, <3>2 DEF SInv, Fits, ConnFits, IoFits, Kinds
    <3>4. rcv[c] = 0 /\ snd[c] = 0 /\ Queued(c) = {} /\ BytesFit(c)
      BY <2>4, <3>3, NothingWaits
    <3>5. ~Reading(c)' /\ Queued(c)' = {}
      BY <1>4, <2>1, <3>3, <3>4 DEF Reading, Queued
    <3>6. BytesFit(c)'
      <4>1. CASE phase'[c] = "reply" /\ ~back'[c]
        BY <1>2, <1>4, <3>3, <3>4, <3>5, <4>1, AnsweredBytes
      <4>2. CASE phase' = phase /\ back' = back
        BY <1>4, <3>4, <3>5, <4>2, BytesKept
      <4> QED
        BY <2>1, <4>1, <4>2
    <3> QED
      BY <3>4, <3>5, <3>6
  <2> QED
    BY <1>1, <1>3, <1>4, <1>6, <2>3, <2>4, RestReturns
<1> QED
  BY <1>1, <1>5, <1>6

LEMMA UnwindDestructorFits ==
  ASSUME SInv, UnwindDestructor
  PROVE  Fits'
<1>1. /\ frames # <<>> /\ frames' = Pop(frames) /\ OnTop[1] = "destroy"
      /\ UNCHANGED <<kernelVars, done, sock, readVars, blocked, throwVars, phase,
                     back, slot, serverVars, vars>>
  BY DEF UnwindDestructor
<1>2. Types
  BY DEF SInv, Base
<1>3. UNCHANGED <<gone, asked, net, rcv, snd, done, sock, required, got, have, blocked,
                  phase, back, slot, garbled, struck, cur>>
  BY <1>1 DEF kernelVars, readVars, throwVars, serverVars, vars
<1>4. \A d \in Conns : SameSeen(d)
  BY <1>1, <1>2, <1>3, PopSeen DEF IoWords
<1>5. \A d \in Conns : SameConn(d) /\ NotSwitchedTo(d)
  BY <1>3 DEF SameConn, SameIo, NotSwitchedTo
<1> QED
  BY <1>3, <1>4, <1>5, NoneMoved

LEMMA StillFits ==
  ASSUME SInv, UNCHANGED svars
  PROVE  Fits'
<1>1. UNCHANGED <<gone, asked, net, rcv, snd, done, sock, required, got, have, blocked,
                  frames, phase, back, slot, garbled, struck, cur>>
  BY DEF svars, kernelVars, readVars, throwVars, serverVars, vars
<1>2. \A d \in Conns : SameConn(d) /\ SameSeen(d) /\ NotSwitchedTo(d)
  BY <1>1, SeenSame DEF SameConn, SameIo, NotSwitchedTo
<1> QED
  BY <1>1, <1>2, NoneMoved

-----------------------------------------------------------------------------
(* The network and the second invariant *)

LEMMA ConnectFits ==
  ASSUME SInv, NEW c \in Conns, Connect(c)
  PROVE  Fits'
<1>1. PICK h \in Handles : sock' = [sock EXCEPT ![c] = h]
  BY DEF Connect
<1>2. /\ Types /\ phase[c] = "none"
      /\ phase' = [phase EXCEPT ![c] = "accepting"]
      /\ UNCHANGED <<gone, asked, net, rcv, snd, required, got, have, blocked, frames,
                     back, slot, garbled, struck, cur>>
  BY DEF Connect, SInv, Base, readVars, throwVars, serverVars, vars
<1>3. PICK e : e = <<"accept", c, 0>>
  OBVIOUS
<1>4. e \in ItemType /\ e[1] = "accept" /\ e[2] = c /\ done' = Append(done, e)
  BY <1>3 DEF Connect, ItemType
<1>5. \A d \in Conns :
        /\ Queued(d)' = IF d = c THEN Queued(d) \cup {e} ELSE Queued(d)
        /\ OneIn(done, d) /\ (d # c \/ Queued(d) = {}) => OneIn(done', d)
  BY <1>2, <1>4, QueuedMore
<1>6. /\ phase'[c] = "accepting"
      /\ \A d \in Conns \ {c} : phase'[d] = phase[d] /\ sock'[d] = sock[d]
  BY <1>1, <1>2 DEF Types
<1>7. \A d \in Conns \ {c} : SameConn(d) /\ NotSwitchedTo(d)
  BY <1>2, <1>6 DEF SameConn, SameIo, NotSwitchedTo
<1>8. \A d \in Conns \ {c} : SameSeen(d)
  BY <1>2, <1>5 DEF SameSeen, Called, OneFailed
<1>9. ASSUME c \notin struck PROVE ConnFits(c)'
  <2>1. IoFits(c) /\ BytesFit(c)
    BY <1>9 DEF SInv, Fits, ConnFits
  <2>2. rcv[c] = 0 /\ snd[c] = 0 /\ Queued(c) = {} /\ ~Called("failed", c)
    BY <1>2, <1>9, NothingWaits
  <2>3. Queued(c)' = {e} /\ OneIn(done', c) /\ OneFailed(c)'
    BY <1>2, <1>5, <2>1, <2>2 DEF IoFits, Alone, OneFailed
  <2>4. ~Writing(c)' /\ ~Reading(c)' /\ ~InKernel(c)' /\ ~Writing(c) /\ ~Reading(c)
    BY <1>2, <1>6, <2>2 DEF Writing, Reading, InKernel
  <2>5. \A w \in IoWords : ~Called(w, c)'
    BY <1>2, <2>1, <2>2, <2>4 DEF IoFits, Kinds, Called, IoWords
  <2>6. /\ ~Called("failed", c)' /\ ~Called("wrote", c)' /\ ~Called("read", c)'
        /\ ~Called("poll", c)' /\ ~Called("yield", c)'
    BY <2>5 DEF IoWords
  <2>7. Alone(c)' /\ Kinds(c)'
    BY <1>2, <1>4, <1>6, <2>2, <2>3, <2>4, <2>6 DEF Alone, Kinds
  <2>8. Awaited(c)' /\ Returned(c)' /\ BlockedInIo(c)'
    BY <1>2, <1>6, <2>1, <2>4 DEF IoFits, Awaited, Returned, BlockedInIo
  <2>9. Taken(c)' = Taken(c) /\ Unsent(c)' = Unsent(c)
    BY <1>2, <1>6 DEF Taken, Unsent
  <2>10. Bytes(c)'
    BY <1>2, <1>4, <2>1, <2>3, <2>9 DEF BytesFit, Bytes
  <2>11. Counted(c)' /\ Quiet(c)' /\ GarbledEnds(c)' /\ Bounded(c)'
    BY <1>2, <1>6, <2>1 DEF BytesFit, Counted, Quiet, AllCame, GarbledEnds, Bounded
  <2> QED
    BY <2>7, <2>8, <2>10, <2>11 DEF ConnFits, IoFits, BytesFit
<1> QED
  BY <1>2, <1>7, <1>8, <1>9, Others

LEMMA ClientSendsFits ==
  ASSUME SInv, NEW c \in Conns, ClientSends(c)
  PROVE  Fits'
<1>1. PICK n \in 1..asked[c] : /\ asked' = [asked EXCEPT ![c] = @ - n]
                               /\ net' = [net EXCEPT ![c] = @ + n]
  BY DEF ClientSends
<1>2. /\ Types /\ c \notin gone
      /\ UNCHANGED <<gone, rcv, snd, done, sock, required, got, have, blocked, frames,
                     phase, back, slot, garbled, struck, cur>>
  BY DEF ClientSends, SInv, Base, readVars, throwVars, serverVars, vars
<1>3. n \in Nat /\ n > 0 /\ n <= asked[c] /\ asked[c] \in Nat /\ net[c] \in Nat
  BY <1>2, Numbers
<1>4. /\ asked'[c] = asked[c] - n /\ net'[c] = net[c] + n
      /\ \A d \in Conns \ {c} : asked'[d] = asked[d] /\ net'[d] = net[d]
  BY <1>1, <1>2 DEF Types
<1>5. \A d \in Conns : SameIo(d) /\ SameSeen(d) /\ NotSwitchedTo(d)
  BY <1>2, SeenSame DEF SameIo, NotSwitchedTo
<1>6. \A d \in Conns \ {c} : SameConn(d)
  BY <1>2, <1>4, <1>5 DEF SameConn
<1>7. ASSUME c \notin struck PROVE ConnFits(c)'
  <2>1. IoFits(c) /\ BytesFit(c)
    BY <1>7 DEF SInv, Fits, ConnFits
  <2>2. IoFits(c)'
    BY <1>5, <2>1, IoKept
  <2>3. /\ Taken(c)' = Taken(c) /\ Unsent(c)' = asked'[c] /\ Unsent(c) = asked[c]
        /\ Queued(c)' = Queued(c)
    BY <1>2 DEF Taken, Unsent, Queued
  <2>4. Taken(c)' + net'[c] + Unsent(c)' = Taken(c) + net[c] + Unsent(c)
    BY <1>2, <1>3, <1>4, <2>3, Numbers
  <2>5. Bytes(c)'
    <3>1. ASSUME NEW x \in Queued(c)', x[1] = "recv"
          PROVE  Taken(c)' + x[3] + net'[c] + Unsent(c)' <= 1 + ArgLen
      <4>1. Taken(c) + x[3] + net[c] + Unsent(c) <= 1 + ArgLen
        BY <2>1, <2>3, <3>1 DEF BytesFit, Bytes
      <4>2. x[3] \in Nat
        BY <1>2, <2>3, <3>1, QueuedTypes
      <4> QED
        BY <1>2, <1>3, <1>4, <2>3, <4>1, <4>2, Numbers, LengthFacts
    <3>2. Taken(c) + net[c] + Unsent(c) <= 1 + ArgLen
      BY <2>1 DEF BytesFit, Bytes
    <3> QED
      BY <2>4, <3>1, <3>2 DEF Bytes
  <2>6. Counted(c)' /\ Quiet(c)' /\ GarbledEnds(c)'
    BY <1>2, <1>3, <2>1 DEF BytesFit, Counted, Quiet, AllCame, GarbledEnds
  <2>7. Bounded(c)'
    <3>1. net'[c] <= 1 + ArgLen
      <4>1. Taken(c)' + net'[c] + Unsent(c)' <= 1 + ArgLen
        BY <2>5 DEF Bytes
      <4> QED
        BY <1>2, <1>3, <1>4, <2>3, <4>1, Numbers, LengthFacts
    <3> QED
      BY <1>2, <2>1, <3>1 DEF BytesFit, Bounded
  <2> QED
    BY <2>2, <2>5, <2>6, <2>7 DEF ConnFits, BytesFit
<1> QED
  BY <1>2, <1>5, <1>6, <1>7, Others

LEMMA ClientLeavesFits ==
  ASSUME SInv, NEW c \in Conns, ClientLeaves(c)
  PROVE  Fits'
<1>1. /\ Types /\ c \notin gone /\ gone' = gone \cup {c} /\ phase[c] # "none"
      /\ UNCHANGED <<asked, net, rcv, snd, done, sock, required, got, have, blocked,
                     frames, phase, back, slot, garbled, struck, cur>>
  BY DEF ClientLeaves, SInv, Base, readVars, throwVars, serverVars, vars
<1>2. \A d \in Conns : SameIo(d) /\ SameSeen(d) /\ NotSwitchedTo(d)
  BY <1>1, SeenSame DEF SameIo, NotSwitchedTo
<1>3. \A d \in Conns \ {c} : SameConn(d)
  BY <1>1, <1>2 DEF SameConn
<1>4. ASSUME c \notin struck PROVE ConnFits(c)'
  <2>1. IoFits(c) /\ BytesFit(c)
    BY <1>4 DEF SInv, Fits, ConnFits
  <2>2. IoFits(c)'
    BY <1>2, <2>1, IoKept
  <2>3. /\ Taken(c)' = Taken(c) /\ Unsent(c)' = 0 /\ net' = net
        /\ Queued(c)' = Queued(c)
    BY <1>1 DEF Taken, Unsent, Queued
  <2>4. Bytes(c)'
    <3>1. ASSUME NEW x \in Queued(c)', x[1] = "recv"
          PROVE  Taken(c)' + x[3] + net'[c] + Unsent(c)' <= 1 + ArgLen
      <4>1. Taken(c) + x[3] + net[c] + Unsent(c) <= 1 + ArgLen
        BY <2>1, <2>3, <3>1 DEF BytesFit, Bytes
      <4>2. x[3] \in Nat
        BY <1>1, <2>3, <3>1, QueuedTypes
      <4> QED
        BY <1>1, <2>3, <4>1, <4>2, Numbers, LengthFacts
    <3>2. Taken(c) + net[c] + Unsent(c) <= 1 + ArgLen
      BY <2>1 DEF BytesFit, Bytes
    <3>3. Taken(c)' + net'[c] + Unsent(c)' <= 1 + ArgLen
      BY <1>1, <2>3, <3>2, Numbers, LengthFacts
    <3> QED
      BY <3>1, <3>3 DEF Bytes
  <2>5. Counted(c)' /\ Quiet(c)' /\ GarbledEnds(c)' /\ Bounded(c)'
    BY <1>1, <2>1 DEF BytesFit, Counted, Quiet, AllCame, GarbledEnds, Bounded
  <2> QED
    BY <2>2, <2>4, <2>5 DEF ConnFits, BytesFit
<1> QED
  BY <1>1, <1>2, <1>3, <1>4, Others

\* The kernel hands an operation over to the queue: its fiber waits on.
LEMMA OpEnds ==
  ASSUME SInv, NEW c \in Conns, NEW e \in ItemType, e[2] = c, done' = Append(done, e),
         \/ /\ e[1] = "recv" /\ rcv[c] > 0
            /\ rcv' = [rcv EXCEPT ![c] = @ - 1] /\ snd' = snd
         \/ /\ e[1] = "send" /\ snd[c] > 0
            /\ snd' = [snd EXCEPT ![c] = @ - 1] /\ rcv' = rcv,
         \A d \in Conns \ {c} : net'[d] = net[d],
         UNCHANGED <<gone, asked, sock, required, got, have, blocked, frames, phase,
                     back, slot, garbled, struck, cur>>,
         net'[c] \in {0, net[c]},
         c \notin struck /\ Queued(c)' = {e} => Bytes(c)'
  PROVE  Fits'
<1>1. /\ Types /\ rcv[c] \in Nat /\ snd[c] \in Nat
      /\ \A d \in Conns \ {c} : rcv'[d] = rcv[d] /\ snd'[d] = snd[d]
      /\ \/ e[1] = "recv" /\ rcv[c] > 0 /\ rcv'[c] = rcv[c] - 1 /\ snd'[c] = snd[c]
         \/ e[1] = "send" /\ snd[c] > 0 /\ snd'[c] = snd[c] - 1 /\ rcv'[c] = rcv[c]
  BY DEF SInv, Base, Types
<1>2. \A d \in Conns :
        /\ Queued(d)' = IF d = c THEN Queued(d) \cup {e} ELSE Queued(d)
        /\ OneIn(done, d) /\ (d # c \/ Queued(d) = {}) => OneIn(done', d)
  BY <1>1, QueuedMore
<1>3. \A d \in Conns \ {c} : SameConn(d) /\ NotSwitchedTo(d)
  BY <1>1 DEF SameConn, SameIo, NotSwitchedTo
<1>4. \A d \in Conns \ {c} : SameSeen(d)
  BY <1>2 DEF SameSeen, Called, OneFailed
<1>5. ASSUME c \notin struck PROVE ConnFits(c)'
  <2>1. IoFits(c) /\ BytesFit(c)
    BY <1>5 DEF SInv, Fits, ConnFits
  <2>2. InKernel(c) /\ Outstanding(c) /\ Queued(c) = {} /\ ~Called("failed", c)
    BY <1>1, <2>1 DEF InKernel, Outstanding, IoFits, Alone
  <2>3. rcv'[c] = 0 /\ snd'[c] = 0 /\ ~InKernel(c)'
    BY <1>1, <2>1 DEF InKernel, IoFits, Alone
  <2>4. Queued(c)' = {e} /\ OneIn(done', c) /\ OneFailed(c)' /\ Outstanding(c)'
    BY <1>2, <2>1, <2>2 DEF IoFits, Alone, OneFailed, Outstanding
  <2>5. \A w : Called(w, c)' <=> Called(w, c)
    BY DEF Called
  <2>6. (Writing(c)' <=> Writing(c)) /\ (Reading(c)' <=> Reading(c))
    BY DEF Writing, Reading
  <2>7. \/ e[1] = "recv" /\ Reading(c) /\ required[c] > 0
        \/ e[1] = "send" /\ Writing(c)
    BY <1>1, <2>1 DEF IoFits, Kinds
  <2>8. Alone(c)' /\ Kinds(c)'
    BY <2>1, <2>2, <2>3, <2>4, <2>5, <2>6, <2>7 DEF IoFits, Alone, Kinds
  <2>9. Awaited(c)'
    <3>1. phase[c] # "accepting" /\ ~LastPiece(c)
      BY <2>2, <2>7 DEF Writing, Reading, LastPiece
    <3> QED
      BY <2>1, <2>2, <2>5, <3>1 DEF IoFits, Awaited
  <2>10. Returned(c)' /\ BlockedInIo(c)'
    BY <2>1, <2>4, <2>6 DEF IoFits, Returned, BlockedInIo
  <2>11. Bytes(c)'
    BY <1>5, <2>4
  <2>12. Counted(c)' /\ Quiet(c)' /\ GarbledEnds(c)' /\ Bounded(c)'
    BY <2>1, LengthFacts DEF BytesFit, Counted, Quiet, AllCame, GarbledEnds, Bounded
  <2> QED
    BY <2>8, <2>9, <2>10, <2>11, <2>12 DEF ConnFits, IoFits, BytesFit
<1> QED
  BY <1>3, <1>4, <1>5, Others

LEMMA RecvEndsFits ==
  ASSUME SInv, NEW c \in Conns, RecvEnds(c)
  PROVE  Fits'
<1>1. Types /\ rcv[c] > 0 /\ net \in [Conns -> Nat]
  BY DEF RecvEnds, SInv, Base, Types
<1>2. PICK n \in {0, net[c]} : done' = Append(done, <<"recv", c, n>>)
  BY DEF RecvEnds
<1>3. n \in Nat /\ n <= net[c] /\ net[c] \in Nat
  BY <1>1, Numbers
<1>4. PICK e : e = <<"recv", c, n>>
  OBVIOUS
<1>5. /\ e \in ItemType /\ e[1] = "recv" /\ e[2] = c /\ e[3] = n
      /\ done' = Append(done, e)
  BY <1>2, <1>3, <1>4 DEF ItemType
<1>6. /\ UNCHANGED <<gone, asked, sock, required, got, have, blocked, frames, phase,
                     back, slot, garbled, struck, cur, snd>>
      /\ net' = [net EXCEPT ![c] = 0] /\ rcv' = [rcv EXCEPT ![c] = @ - 1]
  BY DEF RecvEnds, readVars, throwVars, serverVars, vars
<1>7. net'[c] = 0 /\ \A d \in Conns \ {c} : net'[d] = net[d]
  BY <1>1, <1>6
<1>8. ASSUME c \notin struck, Queued(c)' = {e} PROVE Bytes(c)'
  <2>1. Taken(c)' = Taken(c) /\ Unsent(c)' = Unsent(c)
    BY <1>6 DEF Taken, Unsent
  <2>2. Taken(c) + net[c] + Unsent(c) <= 1 + ArgLen
    BY <1>8 DEF SInv, Fits, ConnFits, BytesFit, Bytes
  <2>3. /\ Taken(c) + 0 + Unsent(c) <= 1 + ArgLen
        /\ Taken(c) + n + 0 + Unsent(c) <= 1 + ArgLen
    BY <1>1, <1>3, <2>2, Numbers, LengthFacts
  <2> QED
    BY <1>5, <1>7, <1>8, <2>1, <2>3 DEF Bytes
<1> QED
  BY <1>1, <1>5, <1>6, <1>7, <1>8, OpEnds

LEMMA SendEndsFits ==
  ASSUME SInv, NEW c \in Conns, SendEnds(c)
  PROVE  Fits'
<1>1. snd[c] > 0
  BY DEF SendEnds
<1>2. PICK n \in {0, 1} : done' = Append(done, <<"send", c, n>>)
  BY DEF SendEnds
<1>3. PICK e : e = <<"send", c, n>>
  OBVIOUS
<1>4. e \in ItemType /\ e[1] = "send" /\ e[2] = c /\ done' = Append(done, e)
  BY <1>2, <1>3 DEF ItemType
<1>5. /\ UNCHANGED <<gone, asked, net, sock, required, got, have, blocked, frames,
                     phase, back, slot, garbled, struck, cur, rcv>>
      /\ snd' = [snd EXCEPT ![c] = @ - 1]
  BY DEF SendEnds, readVars, throwVars, serverVars, vars
<1>6. ASSUME c \notin struck, Queued(c)' = {e} PROVE Bytes(c)'
  <2>1. Taken(c)' = Taken(c) /\ Unsent(c)' = Unsent(c)
    BY <1>5 DEF Taken, Unsent
  <2>2. Taken(c) + net[c] + Unsent(c) <= 1 + ArgLen
    BY <1>6 DEF SInv, Fits, ConnFits, BytesFit, Bytes
  <2> QED
    BY <1>4, <1>5, <1>6, <2>1, <2>2 DEF Bytes
<1> QED
  BY <1>1, <1>4, <1>5, <1>6, OpEnds

-----------------------------------------------------------------------------
(* The completion routines and the second invariant *)

\* The completion at the head of the queue is all that is outstanding for its
\* connection, and of the kind that its fiber waits for.
LEMMA OwnCompletion ==
  ASSUME SInv, done # <<>>, NEW c \in Conns \ struck, c = Owner
  PROVE  /\ Queued(c) = {Head(done)} /\ OneIn(done, c) /\ OneFailed(c)
         /\ rcv[c] = 0 /\ snd[c] = 0 /\ ~InKernel(c)
         /\ ~Called("failed", c) /\ Outstanding(c)
         /\ \/ Head(done)[1] = "accept" /\ phase[c] = "accepting"
            \/ Head(done)[1] = "send" /\ Writing(c)
            \/ Head(done)[1] = "recv" /\ Reading(c) /\ required[c] > 0
         /\ IoFits(c) /\ BytesFit(c)
<1>1. IoFits(c) /\ BytesFit(c) /\ Types
  BY DEF SInv, Fits, ConnFits, Base
<1>2. OneIn(done, c) /\ OneFailed(c)
  BY <1>1 DEF IoFits, Alone
<1>3. Queued(c) = {Head(done)}
  <2>1. PICK s, x : s = done /\ x = Head(done)
    OBVIOUS
  <2>2. s \in Seq(ItemType) /\ s # <<>> /\ c = Head(s)[2] /\ OneIn(s, c)
    BY <1>1, <1>2, <2>1 DEF Types, ItemType, Owner
  <2>3. QueuedIn(s, c) = {Head(s)}
    BY <2>2, TakenSeen
  <2> QED
    BY <2>1, <2>3 DEF Queued
<1>4. ~InKernel(c) /\ ~Called("failed", c) /\ Outstanding(c)
  BY <1>1, <1>3 DEF IoFits, Alone, Outstanding
<1>5. rcv[c] = 0 /\ snd[c] = 0
  <2>1. rcv[c] \in Nat /\ snd[c] \in Nat
    BY <1>1 DEF Types
  <2> QED
    BY <1>4, <2>1 DEF InKernel
<1>6. \/ Head(done)[1] = "accept" /\ phase[c] = "accepting"
      \/ Head(done)[1] = "send" /\ Writing(c)
      \/ Head(done)[1] = "recv" /\ Reading(c) /\ required[c] > 0
  BY <1>1, <1>3 DEF IoFits, Kinds
<1> QED
  BY <1>1, <1>2, <1>3, <1>4, <1>5, <1>6

LEMMA IoFailedFits ==
  ASSUME SInv, IoFailed
  PROVE  Fits'
<1>1. /\ done # <<>> /\ Head(done)[1] \in {"recv", "send"} /\ done' = Tail(done)
      /\ UNCHANGED <<gone, asked, net, rcv, snd, sock, required, got, have, blocked,
                     phase, back, slot, garbled, struck, cur>>
      /\ Types
  BY DEF IoFailed, Completes, SInv, Base, kernelVars, readVars, throwVars, serverVars,
     vars
<1>2. PICK c \in Conns : c = Owner
  BY <1>1, QueueHead
<1>3. frames' = Append(frames, <<"failed", c>>)
  BY <1>2 DEF IoFailed, Sleeping
<1>4. \A d \in Conns : /\ d # c => Queued(d)' = Queued(d)
                       /\ OneIn(done, d) => OneIn(done', d)
                       /\ d = c /\ OneIn(done, d) => Queued(d)' = {}
  BY <1>1, <1>2, QueuedLess
<1>5. \A w, d : /\ Called(w, d)' <=> Called(w, d) \/ (w = "failed" /\ d = c)
                /\ OneFailed(d) /\ (d # c \/ ~Called("failed", d)) => OneFailed(d)'
  BY <1>1, <1>3, CalledFails
<1>6. \A d \in Conns \ {c} : SameConn(d) /\ SameSeen(d) /\ NotSwitchedTo(d)
  <2>1. \A d \in Conns \ {c} : SameConn(d) /\ NotSwitchedTo(d)
    BY <1>1 DEF SameConn, SameIo, NotSwitchedTo
  <2>2. \A d \in Conns \ {c} : SameSeen(d)
    BY <1>4, <1>5 DEF SameSeen
  <2> QED
    BY <2>1, <2>2
<1>7. ASSUME c \notin struck PROVE ConnFits(c)'
  <2>1. /\ OneIn(done, c) /\ OneFailed(c) /\ rcv[c] = 0 /\ snd[c] = 0 /\ ~InKernel(c)
        /\ ~Called("failed", c) /\ Outstanding(c) /\ (Writing(c) \/ Reading(c))
        /\ IoFits(c) /\ BytesFit(c)
    BY <1>1, <1>2, <1>7, OwnCompletion
  <2>2. Queued(c)' = {} /\ OneIn(done', c) /\ OneFailed(c)' /\ Called("failed", c)'
    BY <1>4, <1>5, <2>1
  <2>3. \A w \in {"wrote", "read", "poll", "yield"} : Called(w, c)' <=> Called(w, c)
    BY <1>5
  <2>4. /\ (Writing(c)' <=> Writing(c)) /\ (Reading(c)' <=> Reading(c))
        /\ ~InKernel(c)' /\ Outstanding(c)' /\ phase[c] # "accepting"
    BY <1>1, <2>1, <2>2 DEF Writing, Reading, InKernel, Outstanding
  <2>5. Alone(c)' /\ Kinds(c)'
    BY <1>1, <2>1, <2>2, <2>3, <2>4 DEF IoFits, Alone, Kinds, InKernel
  <2>6. LastPiece(c)'
    BY <2>2, <2>4 DEF LastPiece
  <2>7. Awaited(c)'
    BY <1>1, <2>1, <2>3, <2>4, <2>6 DEF IoFits, Awaited
  <2>8. Returned(c)' /\ BlockedInIo(c)'
    BY <1>1, <2>1, <2>4 DEF IoFits, Returned, BlockedInIo
  <2>9. BytesFit(c)'
    BY <1>1, <2>1, <2>2, BytesKept
  <2> QED
    BY <2>5, <2>7, <2>8, <2>9 DEF ConnFits, IoFits
<1> QED
  BY <1>1, <1>6, <1>7, Others

\* Nothing is outstanding any more; the fiber was woken up if it was blocked.
LEMMA NothingLeft ==
  ASSUME NEW c \in Conns, IoFits(c), rcv'[c] = 0, snd'[c] = 0, Queued(c)' = {},
         ~Called("failed", c)', OneFailed(c)',
         \A w \in IoWords : Called(w, c)' => Called(w, c),
         blocked'[c] = MAIN, phase'[c] = phase[c], back'[c] = back[c],
         ~Reading(c) \/ required'[c] <= 0 \/ sock'[c] = 0
  PROVE  IoFits(c)'
<1>1. (Writing(c)' <=> Writing(c)) /\ (Reading(c)' <=> Reading(c))
  BY DEF Writing, Reading
<1>2. ~InKernel(c)' /\ ~Outstanding(c)'
  BY DEF InKernel, Outstanding
<1>3. OneIn(done', c)
  <2>1. \A i \in 1..Len(done') : done'[i][2] # c
    BY DEF Queued, QueuedIn
  <2> QED
    BY <2>1 DEF OneIn
<1>4. /\ Called("wrote", c)' => Called("wrote", c)
      /\ Called("read", c)' => Called("read", c)
      /\ Called("poll", c)' => Called("poll", c)
      /\ Called("yield", c)' => Called("yield", c)
  BY DEF IoWords
<1>5. Alone(c)' /\ Kinds(c)'
  BY <1>1, <1>2, <1>3, <1>4 DEF IoFits, Alone, Kinds
<1>6. Awaited(c)' /\ Returned(c)' /\ BlockedInIo(c)'
  BY <1>1, <1>2 DEF Awaited, Returned, BlockedInIo
<1> QED
  BY <1>5, <1>6 DEF IoFits

LEMMA IoFailedClosedFits ==
  ASSUME SInv, IoFailedClosed
  PROVE  Fits'
<1>1. /\ frames # <<>> /\ OnTop[1] = "failed" /\ frames' = Pop(frames) /\ done = <<>>
      /\ EndSocket(OnTop[2]) /\ Wakes(OnTop[2])
      /\ UNCHANGED <<gone, left, asked, net, rcv, snd, done, readVars, throwVars,
                     phase, back, slot, serverVars>>
      /\ Base /\ Types
  BY DEF IoFailedClosed, Slept, SInv, Base
<1>2. PICK c \in Conns : c = OnTop[2]
  BY <1>1, StackTop
<1>3. UNCHANGED <<gone, asked, net, rcv, snd, done, required, got, have, phase, back,
                  slot, garbled, struck>>
  BY <1>1 DEF readVars, throwVars, serverVars
<1>4. sock'[c] = 0 /\ \A d \in Conns \ {c} : sock'[d] = sock[d]
  BY <1>1, <1>2 DEF EndSocket, Types
<1>5. /\ cur' = cur /\ blocked'[c] = MAIN
      /\ \A d \in Conns \ {c} : blocked'[d] = blocked[d]
  <2>1. Wakes(c)
    BY <1>1, <1>2
  <2> QED
    BY <1>1, <1>3, <2>1, WakesKeeps
<1>6. \A d \in Conns \ {c} : SameConn(d) /\ NotSwitchedTo(d)
  BY <1>3, <1>4, <1>5 DEF SameConn, SameIo, NotSwitchedTo
<1>7. \A d \in Conns \ {c} : SameSeen(d)
  BY <1>1, <1>2, PopSeen
<1>8. ASSUME c \notin struck PROVE ConnFits(c)'
  <2>1. IoFits(c) /\ BytesFit(c)
    BY <1>8 DEF SInv, Fits, ConnFits
  <2>2. OnTop = <<"failed", c>>
    BY <1>1, <1>2, StackTop DEF FrameType
  <2>3. \A w, d : /\ Called(w, d) <=> Called(w, d)' \/ OnTop = <<w, d>>
                  /\ OneFailed(d) => /\ OneFailed(d)'
                                     /\ OnTop = <<"failed", d>> => ~Called("failed", d)'
    BY <1>1, CalledPops
  <2>4. Called("failed", c) /\ ~Called("failed", c)' /\ OneFailed(c)'
    BY <2>1, <2>2, <2>3 DEF IoFits, Alone
  <2>5. ~InKernel(c) /\ Queued(c) = {} /\ Queued(c)' = {}
    BY <1>3, <2>1, <2>4 DEF IoFits, Alone, Queued
  <2>6. rcv'[c] = 0 /\ snd'[c] = 0
    <3>1. rcv[c] \in Nat /\ snd[c] \in Nat
      BY <1>1 DEF Types
    <3> QED
      BY <1>3, <2>5, <3>1 DEF InKernel
  <2>7. IoFits(c)'
    BY <1>3, <1>4, <1>5, <2>1, <2>3, <2>4, <2>5, <2>6, NothingLeft
  <2>8. BytesFit(c)'
    BY <1>3, <1>4, <2>1, <2>5, BytesKept
  <2> QED
    BY <2>7, <2>8 DEF ConnFits
<1> QED
  BY <1>3, <1>6, <1>7, <1>8, Others

LEMMA AfterSendFits ==
  ASSUME SInv, AfterSend
  PROVE  Fits'
<1>1. /\ done # <<>> /\ Head(done)[1] = "send" /\ done' = Tail(done) /\ Wakes(Owner)
      /\ UNCHANGED <<gone, asked, net, rcv, snd, sock, required, got, have, frames,
                     phase, back, slot, garbled, struck>>
      /\ Base /\ Types
  BY DEF AfterSend, Completes, SInv, Base, kernelVars, readVars, throwVars, serverVars
<1>2. PICK c \in Conns : c = Owner
  BY <1>1, QueueHead
<1>3. /\ cur' = cur /\ blocked'[c] = MAIN
      /\ \A d \in Conns \ {c} : blocked'[d] = blocked[d]
  <2>1. Wakes(c)
    BY <1>1, <1>2
  <2> QED
    BY <1>1, <2>1, WakesKeeps
<1>4. \A d \in Conns : /\ d # c => Queued(d)' = Queued(d)
                       /\ OneIn(done, d) => OneIn(done', d)
                       /\ d = c /\ OneIn(done, d) => Queued(d)' = {}
  BY <1>1, <1>2, QueuedLess
<1>5. \A d \in Conns \ {c} : SameConn(d) /\ NotSwitchedTo(d)
  BY <1>1, <1>3 DEF SameConn, SameIo, NotSwitchedTo
<1>6. \A d \in Conns \ {c} : SameSeen(d)
  BY <1>1, <1>4 DEF SameSeen, Called, OneFailed
<1>7. ASSUME c \notin struck PROVE ConnFits(c)'
  <2>1. /\ OneIn(done, c) /\ OneFailed(c) /\ rcv[c] = 0 /\ snd[c] = 0
        /\ ~Called("failed", c) /\ Writing(c) /\ IoFits(c) /\ BytesFit(c)
    BY <1>1, <1>2, <1>7, OwnCompletion
  <2>2. Queued(c)' = {}
    BY <1>4, <2>1
  <2>3. /\ \A w : Called(w, c)' <=> Called(w, c)
        /\ ~Called("failed", c)' /\ OneFailed(c)'
    BY <1>1, <2>1 DEF Called, OneFailed
  <2>4. ~Reading(c)
    BY <2>1 DEF Writing, Reading
  <2>5. IoFits(c)'
    BY <1>1, <1>3, <2>1, <2>2, <2>3, <2>4, NothingLeft
  <2>6. BytesFit(c)'
    BY <1>1, <2>1, <2>2, BytesKept
  <2> QED
    BY <2>5, <2>6 DEF ConnFits
<1> QED
  BY <1>1, <1>5, <1>6, <1>7, Others

LEMMA AfterRecvThrowsFits ==
  ASSUME SInv, AfterRecvThrows
  PROVE  Fits'
<1>1. /\ done # <<>> /\ done' = Tail(done) /\ struck' = struck \cup {Owner}
      /\ got' = [got EXCEPT ![Owner] = @ + Amount]
      /\ required' = [required EXCEPT ![Owner] = @ - Amount]
      /\ UNCHANGED <<gone, asked, net, rcv, snd, sock, have, blocked, frames, phase,
                     back, slot, garbled, cur>>
      /\ Types
  BY DEF AfterRecvThrows, Receives, Completes, SInv, Base, kernelVars, serverVars, vars
<1>2. PICK c \in Conns : c = Owner
  BY <1>1, QueueHead
<1>3. \A d \in Conns \ {c} : got'[d] = got[d] /\ required'[d] = required[d]
  BY <1>1, <1>2 DEF Types
<1>4. \A d \in Conns : /\ d # c => Queued(d)' = Queued(d)
                       /\ OneIn(done, d) => OneIn(done', d)
  BY <1>1, <1>2, QueuedLess
<1>5. \A d \in Conns \ {c} : SameConn(d) /\ NotSwitchedTo(d)
  BY <1>1, <1>3 DEF SameConn, SameIo, NotSwitchedTo
<1>6. \A d \in Conns \ {c} : SameSeen(d)
  BY <1>1, <1>4 DEF SameSeen, Called, OneFailed
<1>7. c \in struck' /\ struck \subseteq struck'
  BY <1>1, <1>2
<1> QED
  BY <1>5, <1>6, <1>7, Others

\* A connection that is accepted, or refused, has nothing outstanding.
LEMMA AcceptFits ==
  ASSUME SInv, done # <<>>, Head(done)[1] = "accept", done' = Tail(done),
         NEW c \in Conns, c = Owner, phase[c] = "accepting", blocked[c] = MAIN,
         NEW q \in {"hello", "refused"}, phase' = [phase EXCEPT ![c] = q],
         \A d \in Conns \ {c} : slot'[d] = slot[d],
         UNCHANGED <<gone, asked, net, rcv, snd, sock, required, got, have, blocked,
                     frames, back, garbled, struck, cur>>
  PROVE  Fits'
<1>1. Types /\ phase'[c] = q /\ \A d \in Conns \ {c} : phase'[d] = phase[d]
  BY DEF SInv, Base, Types
<1>2. \A d \in Conns : /\ d # c => Queued(d)' = Queued(d)
                       /\ OneIn(done, d) => OneIn(done', d)
                       /\ d = c /\ OneIn(done, d) => Queued(d)' = {}
  BY <1>1, QueuedLess
<1>3. \A d \in Conns \ {c} : SameConn(d) /\ NotSwitchedTo(d)
  BY <1>1 DEF SameConn, SameIo, NotSwitchedTo
<1>4. \A d \in Conns \ {c} : SameSeen(d)
  BY <1>2 DEF SameSeen, Called, OneFailed
<1>5. ASSUME c \notin struck PROVE ConnFits(c)'
  <2>1. /\ OneIn(done, c) /\ rcv[c] = 0 /\ snd[c] = 0 /\ ~Called("failed", c)
        /\ IoFits(c) /\ BytesFit(c)
    BY <1>5, OwnCompletion
  <2>2. Queued(c)' = {}
    BY <1>2, <2>1
  <2>3. ~Reading(c) /\ ~Writing(c) /\ ~Reading(c)'
    BY <1>1 DEF Reading, Writing
  <2>4. \A w \in IoWords : ~Called(w, c)
    BY <2>1, <2>3 DEF IoFits, Kinds, IoWords
  <2>5. \A w \in IoWords : ~Called(w, c)'
    BY <2>4 DEF Called
  <2>6. ~Called("yield", c)'
    BY <2>5 DEF IoWords
  <2>7. IoFits(c)'
    BY <2>1, <2>2, <2>3, <2>5, <2>6, RestFits
  <2>8. Taken(c)' = 0 /\ Taken(c)' <= Taken(c)
    BY <1>1 DEF Taken
  <2>9. Bytes(c)'
    BY <1>1, <2>1, <2>2, <2>8, BytesMoved
  <2>10. Counted(c)' /\ Quiet(c)' /\ GarbledEnds(c)' /\ Bounded(c)'
    BY <1>1, <2>1 DEF BytesFit, Counted, Quiet, AllCame, GarbledEnds, Bounded
  <2> QED
    BY <2>7, <2>9, <2>10 DEF ConnFits, BytesFit
<1> QED
  BY <1>3, <1>4, <1>5, Others

LEMMA FinishAcceptFits ==
  ASSUME SInv, NEW i \in Background, FinishAccept(i)
  PROVE  Fits'
<1>1. /\ Completes({"accept"}) /\ done' = Tail(done) /\ Base /\ Types
      /\ slot' = [slot EXCEPT ![Owner] = i]
      /\ phase' = [phase EXCEPT ![Owner] = "hello"]
      /\ UNCHANGED <<gone, asked, net, rcv, snd, sock, required, got, have, blocked,
                     frames, back, garbled, struck, cur>>
  BY DEF FinishAccept, Create, SInv, Base, kernelVars, readVars, throwVars, serverVars
<1>2. PICK c \in Conns : c = Owner
  BY <1>1, Accepted
<1>3. /\ done # <<>> /\ Head(done)[1] = "accept"
      /\ phase[c] = "accepting" /\ blocked[c] = MAIN
  BY <1>1, <1>2, Accepted
<1>4. \A d \in Conns \ {c} : slot'[d] = slot[d]
  BY <1>1, <1>2 DEF Types
<1>5. phase' = [phase EXCEPT ![c] = "hello"]
  BY <1>1, <1>2
<1> QED
  BY <1>1, <1>2, <1>3, <1>4, <1>5, AcceptFits

LEMMA AcceptFailsFits ==
  ASSUME SInv, AcceptFails
  PROVE  Fits'
<1>1. /\ Completes({"accept"}) /\ done' = Tail(done) /\ Base /\ Types
      /\ phase' = [phase EXCEPT ![Owner] = "refused"]
      /\ UNCHANGED <<gone, asked, net, rcv, snd, sock, required, got, have, blocked,
                     frames, back, slot, garbled, struck, cur>>
  BY DEF AcceptFails, CreateFails, NoResources, SInv, Base, kernelVars, readVars,
     serverVars, vars
<1>2. PICK c \in Conns : c = Owner
  BY <1>1, Accepted
<1>3. /\ done # <<>> /\ Head(done)[1] = "accept"
      /\ phase[c] = "accepting" /\ blocked[c] = MAIN
  BY <1>1, <1>2, Accepted
<1>4. phase' = [phase EXCEPT ![c] = "refused"]
  BY <1>1, <1>2
<1> QED
  BY <1>1, <1>2, <1>3, <1>4, AcceptFits

\* What afterRecv does of every outcome: the bytes are counted.
LEMMA Received ==
  ASSUME SInv, Receives, NEW c \in Conns, c = Owner,
         UNCHANGED <<gone, asked, sock, have, phase, back, garbled>>
  PROVE  /\ done # <<>> /\ Head(done)[1] = "recv" /\ Head(done)[2] = c
         /\ Amount = Head(done)[3] /\ Amount \in Nat /\ Amount > 0
         /\ required[c] \in Int /\ required'[c] = required[c] - Amount
         /\ \A d \in Conns \ {c} : got'[d] = got[d] /\ required'[d] = required[d]
         /\ c \notin struck =>
              /\ Reading(c) /\ Reading(c)' /\ required[c] > 0
              /\ Taken(c)' \in Nat /\ Unsent(c)' \in Nat
              /\ Taken(c)' + net[c] + Unsent(c)' <= 1 + ArgLen
              /\ LastPiece(c) => required[c] <= Amount
              /\ Counted(c)' /\ Quiet(c)' /\ GarbledEnds(c)'
              /\ net[c] <= 1 + ArgLen
              /\ got'[c] <= 1 + ArgLen /\ have'[c] <= 1 + ArgLen
              /\ required'[c] \in (-ArgLen)..ArgLen
<1>1. /\ done # <<>> /\ Head(done)[1] = "recv" /\ Head(done)[2] = c /\ Types
      /\ Amount = Head(done)[3] /\ Amount > 0
      /\ got' = [got EXCEPT ![c] = @ + Amount]
      /\ required' = [required EXCEPT ![c] = @ - Amount]
  BY DEF Receives, Completes, Owner, Amount, SInv, Base
<1>2. Amount \in Nat
  BY <1>1, QueueHead
<1>3. /\ required[c] \in Int /\ required'[c] = required[c] - Amount
      /\ got[c] \in Nat /\ got'[c] = got[c] + Amount
      /\ \A d \in Conns \ {c} : got'[d] = got[d] /\ required'[d] = required[d]
  BY <1>1 DEF Types
<1>4. ASSUME c \notin struck
      PROVE  /\ Reading(c) /\ Reading(c)' /\ required[c] > 0
             /\ Taken(c)' \in Nat /\ Unsent(c)' \in Nat
             /\ Taken(c)' + net[c] + Unsent(c)' <= 1 + ArgLen
             /\ LastPiece(c) => required[c] <= Amount
             /\ Counted(c)' /\ Quiet(c)' /\ GarbledEnds(c)'
             /\ net[c] <= 1 + ArgLen
             /\ got'[c] <= 1 + ArgLen /\ have'[c] <= 1 + ArgLen
             /\ required'[c] \in (-ArgLen)..ArgLen
  <2>1. /\ Queued(c) = {Head(done)} /\ Reading(c) /\ required[c] > 0
        /\ BytesFit(c)
    BY <1>1, <1>4, OwnCompletion DEF Reading
  <2>2. Reading(c)' /\ (phase[c] = "command" \/ phase[c] = "argument") /\ back[c]
    BY <2>1 DEF Reading
  <2>3. Unsent(c)' = Unsent(c) /\ Taken(c)' = Taken(c) + Amount
    <3>1. \/ phase[c] = "command" /\ Taken(c) = got[c] /\ Taken(c)' = got'[c]
          \/ /\ phase[c] = "argument" /\ Taken(c) = 1 + have[c] + got[c]
             /\ Taken(c)' = 1 + have[c] + got'[c]
      BY <2>2 DEF Taken
    <3>2. Taken(c)' = Taken(c) + Amount
      BY <1>1, <1>2, <1>3, <3>1, Numbers
    <3> QED
      BY <3>2 DEF Unsent
  <2>4. Taken(c) + Amount + net[c] + Unsent(c) <= 1 + ArgLen
    BY <1>1, <2>1 DEF BytesFit, Bytes
  <2>5. /\ Taken(c) \in Nat /\ Unsent(c) \in Nat /\ Taken(c)' \in Nat /\ Unsent(c)' \in Nat
        /\ Taken(c)' + net[c] + Unsent(c)' <= 1 + ArgLen
    BY <1>1, <1>2, <2>3, <2>4, Numbers, LengthFacts
  <2>6. LastPiece(c) => required[c] <= Amount
    <3>1. LastPiece(c) => Head(done)[3] = 0 \/ required[c] <= Head(done)[3]
      BY <1>1, <2>1 DEF LastPiece
    <3> QED
      BY <1>1, <1>2, <3>1
  <2>7. Counted(c)'
    <3>1. got'[c] + required'[c] = got[c] + required[c]
      BY <1>2, <1>3
    <3> QED
      BY <2>1, <3>1 DEF BytesFit, Counted
  <2>8. Quiet(c)' /\ GarbledEnds(c)'
    BY <2>1, <2>2 DEF BytesFit, Quiet, GarbledEnds
  <2>9. got'[c] <= 1 + ArgLen
    <3>1. Taken(c) >= got[c]
      BY <1>1, <2>2, Numbers DEF Taken
    <3> QED
      BY <1>1, <1>2, <1>3, <2>4, <2>5, <3>1, Numbers, LengthFacts
  <2>10. required'[c] \in (-ArgLen)..ArgLen
    <3>1. required[c] <= ArgLen
      BY <2>1, LengthFacts DEF BytesFit, Bounded
    <3>2. Amount <= 1 + ArgLen
      BY <1>1, <1>2, <2>4, <2>5, Numbers, LengthFacts
    <3> QED
      BY <1>2, <1>3, <2>1, <3>1, <3>2, LengthFacts
  <2>11. net[c] <= 1 + ArgLen /\ have'[c] <= 1 + ArgLen
    BY <2>1 DEF BytesFit, Bounded
  <2> QED
    BY <2>1, <2>2, <2>5, <2>6, <2>7, <2>8, <2>9, <2>10, <2>11
<1> QED
  BY <1>1, <1>2, <1>3, <1>4

LEMMA AfterRecvFits ==
  ASSUME SInv, AfterRecv
  PROVE  Fits'
<1>1. /\ Receives /\ Base /\ Types
      /\ UNCHANGED <<gone, asked, snd, sock, have, frames, phase, back, slot, garbled,
                     struck>>
  BY DEF AfterRecv, SInv, Base, throwVars, serverVars
<1>2. PICK c \in Conns : c = Owner
  BY <1>1, QueueHead DEF Receives, Completes
<1>3. /\ done # <<>> /\ Head(done)[1] = "recv" /\ Head(done)[2] = c
      /\ Amount = Head(done)[3] /\ Amount \in Nat /\ Amount > 0
      /\ required[c] \in Int /\ required'[c] = required[c] - Amount
      /\ \A d \in Conns \ {c} : got'[d] = got[d] /\ required'[d] = required[d]
      /\ net[c] \in Nat
  BY <1>1, <1>2, Received, Numbers
<1>4. PICK need, n, e : /\ need = required[c] - Amount /\ n = net[c] /\ n \in Nat
                       /\ e = <<"recv", c, n>>
  BY <1>3
<1>5. /\ e \in ItemType /\ e[1] = "recv" /\ e[2] = c /\ e[3] = n
      /\ need \in Int /\ required'[c] = need
  BY <1>3, <1>4 DEF ItemType
<1> DEFINE Over == /\ need <= 0 \/ sock[c] = 0
                   /\ Wakes(c) /\ done' = Tail(done) /\ UNCHANGED <<net, rcv>>
           Again == /\ need > 0 /\ done' = Append(Tail(done), e)
                    /\ net' = [net EXCEPT ![c] = 0] /\ rcv' = rcv
                    /\ \/ Wakes(c) /\ (n = 0 \/ n >= need)
                       \/ UNCHANGED <<blocked, vars>>
           Waits == /\ need > 0 /\ done' = Tail(done) /\ net' = net
                    /\ rcv' = [rcv EXCEPT ![c] = @ + 1]
                    /\ UNCHANGED <<blocked, vars>>
<1>6. Over \/ Again \/ Waits
  BY <1>2, <1>3, <1>4 DEF AfterRecv, Recv
<1>7. /\ cur' = cur /\ \A d \in Conns \ {c} : blocked'[d] = blocked[d]
      /\ Wakes(c) => blocked'[c] = MAIN
  <2>1. CASE Wakes(c)
    BY <1>1, <2>1, WakesKeeps
  <2>2. CASE UNCHANGED <<blocked, vars>> /\ ~Wakes(c)
    BY <2>2 DEF vars
  <2> QED
    BY <1>6, <2>1, <2>2
<1>8. /\ \A d \in Conns \ {c} : net'[d] = net[d] /\ rcv'[d] = rcv[d]
      /\ Again => net'[c] = 0
      /\ Waits => rcv'[c] = rcv[c] + 1
  BY <1>1, <1>6 DEF Types
<1>9. done' = Tail(done) =>
        \A d \in Conns : /\ d # c => Queued(d)' = Queued(d)
                         /\ OneIn(done, d) => OneIn(done', d)
                         /\ d = c /\ OneIn(done, d) => Queued(d)' = {}
  BY <1>1, <1>2, <1>3, QueuedLess
<1>10. done' = Append(Tail(done), e) =>
        \A d \in Conns : /\ d # c => Queued(d)' = Queued(d)
                         /\ OneIn(done, d) => OneIn(done', d)
                         /\ d = c /\ OneIn(done, d) => Queued(d)' = {e}
  BY <1>1, <1>2, <1>3, <1>5, QueuedTurned
<1>11. \A d \in Conns \ {c} : SameSeen(d)
  BY <1>1, <1>6, <1>9, <1>10 DEF SameSeen, Called, OneFailed
<1>12. \A d \in Conns \ {c} : SameConn(d) /\ NotSwitchedTo(d)
  BY <1>1, <1>3, <1>7, <1>8 DEF SameConn, SameIo, NotSwitchedTo
<1>13. ASSUME c \notin struck PROVE ConnFits(c)'
  <2>1. /\ Reading(c) /\ Reading(c)' /\ required[c] > 0
        /\ Taken(c)' \in Nat /\ Unsent(c)' \in Nat
        /\ Taken(c)' + n + Unsent(c)' <= 1 + ArgLen
        /\ LastPiece(c) => need <= 0
        /\ Counted(c)' /\ Quiet(c)' /\ GarbledEnds(c)'
        /\ n <= 1 + ArgLen
        /\ got'[c] <= 1 + ArgLen /\ have'[c] <= 1 + ArgLen
        /\ required'[c] \in (-ArgLen)..ArgLen
    BY <1>1, <1>2, <1>3, <1>4, <1>13, Received
  <2>2. /\ OneIn(done, c) /\ OneFailed(c) /\ rcv[c] = 0 /\ snd[c] = 0 /\ ~InKernel(c)
        /\ ~Called("failed", c) /\ Outstanding(c) /\ IoFits(c)
    BY <1>2, <1>3, <1>13, OwnCompletion
  <2>3. /\ \A w : Called(w, c)' <=> Called(w, c)
        /\ ~Called("failed", c)' /\ OneFailed(c)' /\ OneIn(done', c)
    BY <1>1, <1>6, <1>9, <1>10, <2>2 DEF Called, OneFailed
  <2>4. phase[c] # "accepting" /\ ~Writing(c) /\ ~Writing(c)' /\ Live(c)
    BY <1>1, <2>1 DEF Reading, Writing, Live
  <2>10. ~Called("wrote", c)' /\ ~Called("yield", c)'
    BY <2>1, <2>2, <2>3, <2>4 DEF IoFits, Kinds, Reading
  <2>5. need > 0 => blocked[c] # MAIN \/ Called("poll", c)
    BY <1>5, <2>1, <2>2, <2>4 DEF IoFits, Awaited
  <2>6. ASSUME net'[c] \in {0, n},
               \A x \in Queued(c)' : x[3] = n /\ net'[c] = 0
        PROVE  BytesFit(c)'
    <3>1. /\ Taken(c)' + 0 + Unsent(c)' <= 1 + ArgLen
          /\ Taken(c)' + n + 0 + Unsent(c)' <= 1 + ArgLen
          /\ Taken(c)' + n + Unsent(c)' <= 1 + ArgLen
      BY <1>4, <2>1, LengthFacts
    <3>2. Bytes(c)'
      BY <2>6, <3>1 DEF Bytes
    <3>3. Bounded(c)'
      BY <2>1, <2>6, LengthFacts DEF Bounded
    <3> QED
      BY <2>1, <3>2, <3>3 DEF BytesFit
  <2>7. CASE Over
    <3>1. Queued(c)' = {} /\ rcv'[c] = 0 /\ snd'[c] = 0 /\ blocked'[c] = MAIN
      BY <1>1, <1>7, <1>9, <2>2, <2>7
    <3>2. required'[c] <= 0 \/ sock'[c] = 0
      BY <1>1, <1>5, <2>7
    <3>3. IoFits(c)'
      BY <1>1, <2>2, <2>3, <3>1, <3>2, NothingLeft
    <3>4. BytesFit(c)'
      BY <1>4, <2>6, <2>7, <3>1
    <3> QED
      BY <3>3, <3>4 DEF ConnFits
  <2>8. CASE Again
    <3>1. Queued(c)' = {e} /\ rcv'[c] = 0 /\ snd'[c] = 0 /\ net'[c] = 0
      BY <1>1, <1>8, <1>10, <2>2, <2>8
    <3>2. ~InKernel(c)' /\ Outstanding(c)'
      BY <3>1 DEF InKernel, Outstanding
    <3>3. Alone(c)' /\ Kinds(c)'
      BY <1>5, <2>1, <2>3, <2>8, <2>10, <3>1, <3>2 DEF Alone, Kinds, InKernel
    <3>4. Awaited(c)'
      <4>1. CASE UNCHANGED <<blocked, vars>>
        BY <2>3, <2>5, <2>8, <4>1 DEF Awaited
      <4>2. CASE n = 0 \/ n >= need
        <5>1. LastPiece(c)'
          BY <1>5, <3>1, <3>2, <4>2 DEF LastPiece
        <5>2. blocked[c] # MAIN => slot'[c] # cur'
          BY <1>1, <1>7, <2>4, CurrentWaitsForNone
        <5> QED
          BY <2>3, <2>5, <2>8, <5>1, <5>2 DEF Awaited
      <4> QED
        BY <2>8, <4>1, <4>2
    <3>5. Returned(c)' /\ BlockedInIo(c)'
      BY <2>1, <3>2 DEF Returned, BlockedInIo
    <3>6. BytesFit(c)'
      BY <1>5, <2>6, <3>1
    <3> QED
      BY <3>3, <3>4, <3>5, <3>6 DEF ConnFits, IoFits
  <2>9. CASE Waits
    <3>1. Queued(c)' = {} /\ rcv'[c] = 1 /\ snd'[c] = 0
      BY <1>1, <1>8, <1>9, <2>2, <2>9
    <3>2. InKernel(c)' /\ Outstanding(c)'
      BY <3>1 DEF InKernel, Outstanding
    <3>3. Alone(c)' /\ Kinds(c)'
      BY <1>5, <2>1, <2>3, <2>9, <2>10, <3>1 DEF Alone, Kinds, InKernel
    <3>4. Awaited(c)' /\ Returned(c)' /\ BlockedInIo(c)'
      BY <2>1, <2>3, <2>5, <2>9, <3>2 DEF Awaited, Returned, BlockedInIo
    <3>5. BytesFit(c)'
      BY <1>4, <2>6, <2>9, <3>1
    <3> QED
      BY <3>3, <3>4, <3>5 DEF ConnFits, IoFits
  <2> QED
    BY <1>6, <2>7, <2>8, <2>9
<1> QED
  BY <1>1, <1>11, <1>12, <1>13, Others

-----------------------------------------------------------------------------
LEMMA InitSInv == SInit => SInv
<1> SUFFICES ASSUME SInit PROVE SInv
  OBVIOUS
<1>1. Base
  BY InitBase
<1>2. ASSUME NEW c \in Conns PROVE ConnFits(c)
  <2>1. /\ phase[c] = "none" /\ ~back[c] /\ rcv[c] = 0 /\ snd[c] = 0 /\ blocked[c] = MAIN
        /\ asked[c] = 0 /\ net[c] = 0 /\ got[c] = 0 /\ have[c] = 0 /\ required[c] = 0
        /\ c \notin garbled /\ Len(done) = 0 /\ Len(frames) = 0
    BY DEF SInit
  <2>2. Queued(c) = {} /\ OneIn(done, c) /\ OneFailed(c) /\ \A w : ~Called(w, c)
    BY <2>1 DEF Queued, QueuedIn, OneIn, OneFailed, Called
  <2>3. ~Writing(c) /\ ~Reading(c) /\ ~InKernel(c) /\ ~Outstanding(c)
    BY <2>1, <2>2 DEF Writing, Reading, InKernel, Outstanding
  <2>4. IoFits(c)
    BY <2>1, <2>2, <2>3 DEF IoFits, Alone, Kinds, Awaited, Returned, BlockedInIo
  <2>5. Bytes(c)
    <3>1. Taken(c) = 0 /\ Unsent(c) = 0
      BY <2>1 DEF Taken, Unsent
    <3> QED
      BY <2>1, <2>2, <3>1, LengthFacts DEF Bytes
  <2>6. Counted(c) /\ Quiet(c) /\ GarbledEnds(c)
    BY <2>1 DEF Counted, Quiet, AllCame, GarbledEnds
  <2>7. Bounded(c)
    BY <2>1, LengthFacts DEF Bounded
  <2> QED
    BY <2>4, <2>5, <2>6, <2>7 DEF ConnFits, BytesFit
<1> QED
  BY <1>1, <1>2 DEF SInv, Fits

LEMMA NextSInv == SInv /\ [SNext]_svars => SInv'
<1> SUFFICES ASSUME SInv, [SNext]_svars PROVE SInv'
  OBVIOUS
<1>1. Base'
  BY NextBase DEF SInv
<1>2. ASSUME Completion PROVE Fits'
  BY <1>2, IoFailedFits, IoFailedClosedFits, AfterSendFits, AfterRecvFits,
     AfterRecvThrowsFits, AcceptFailsFits, FinishAcceptFits DEF Completion
<1>3. ASSUME NEW c \in Conns, FiberStep(c) PROVE Fits'
  BY <1>3, WriteNowFits, WriteLaterFits, WriteThrowsFits, WrittenFits, EndsFits,
     ReadFits, ReadThrowsFits, GotCommandFits, GotArgumentFits, GotLessFits,
     ExecuteFits, DestroyFits, KillFits DEF FiberStep
<1>4. ASSUME Unwind PROVE Fits'
  BY <1>4, UnwindCloseFits, UnwindIoFits, UnwindCommandFits, UnwindDestructorFits
     DEF Unwind
<1>5. ASSUME \/ SleepReturns \/ PollBlocks \/ YieldSlept \/ Killed \/ Destroyed
             \/ MainYields
      PROVE  Fits'
  BY <1>5, SleepReturnsFits, PollBlocksFits, YieldSleptFits, KilledFits,
     DestroyedFits, MainYieldsFits
<1>6. ASSUME NEW c \in Conns,
             \/ Connect(c) \/ ClientSends(c) \/ ClientLeaves(c)
             \/ RecvEnds(c) \/ SendEnds(c) \/ ExecuteYields(c)
      PROVE  Fits'
  BY <1>6, ConnectFits, ClientSendsFits, ClientLeavesFits, RecvEndsFits,
     SendEndsFits, ExecuteYieldsFits
<1>7. ASSUME Stopped \/ UNCHANGED svars PROVE Fits'
  BY <1>7, StillFits DEF Stopped
<1> QED
  BY <1>1, <1>2, <1>3, <1>4, <1>5, <1>6, <1>7 DEF SNext, ThreadStep, SInv

\* The second invariant: while the fiber of a connection goes on, nothing is
\* outstanding for it, neither with the kernel nor in the queue nor in a close()
\* of a completion routine, until an exception out of a routine strikes it.
THEOREM SInvHolds == SSpec => []SInv
  BY InitSInv, NextSInv, PTL DEF SSpec

-----------------------------------------------------------------------------
(* What follows *)

\* Type correctness: in particular no request takes more than its own bytes
\* from the network, whatever pieces it comes in.
THEOREM ServerTypes == SSpec => []STypeOK
<1>1. SInv => STypeOK
  BY DEF SInv, Base, Fits, ConnFits, BytesFit, STypeOK
<1> QED
  BY <1>1, SInvHolds, PTL

\* No two connections share a handle or a fiber, although close() runs inside
\* close() and the kernel and create() give out again what was given back.
THEOREM OwnedByOne == SSpec => []ResourcesOwned
<1>1. Base => ResourcesOwned
  BY DEF Base
<1> QED
  BY <1>1, BaseHolds, PTL

\* The verify in Fibers::unblock never fails: the fiber that a socket wakes up
\* is blocked, and it is the one of its connection, exceptions or not.
THEOREM WakesItsOwn == SSpec => []BlockedIsWaiting
<1>1. Base => BlockedIsWaiting
  BY DEF Base
<1> QED
  BY <1>1, BaseHolds, PTL

\* A connection that has ended leaves no transaction open.  It leaves nothing
\* with the kernel and nothing in the queue either, unless an exception out of a
\* completion routine had struck it.
THEOREM NothingLeftBehind == SSpec => []EndedLeavesNothing
<1>1. SInv => EndedLeavesNothing
  <2> SUFFICES ASSUME SInv, NEW c \in Conns, phase[c] = "ended"
               PROVE  /\ c \notin tran
                      /\ c \notin struck => /\ rcv[c] = 0 /\ snd[c] = 0
                                            /\ \A i \in 1..Len(done) : done[i][2] # c
    BY DEF EndedLeavesNothing
  <2>1. c \notin tran
    BY DEF SInv, Base, TranOpen
  <2>2. ASSUME c \notin struck
        PROVE  rcv[c] = 0 /\ snd[c] = 0 /\ \A i \in 1..Len(done) : done[i][2] # c
    <3>1. Kinds(c) /\ ~Reading(c) /\ ~Writing(c)
      BY <2>2 DEF SInv, Fits, ConnFits, IoFits, Reading, Writing
    <3>2. rcv[c] \in Nat /\ snd[c] \in Nat
      BY DEF SInv, Base, Types
    <3>3. Queued(c) = {}
      BY <3>1 DEF Kinds
    <3> QED
      BY <3>1, <3>2, <3>3 DEF Kinds, Queued, QueuedIn
  <2> QED
    BY <2>1, <2>2
<1> QED
  BY <1>1, SInvHolds, PTL

\* A request is executed with part of it missing only when its socket is closed
\* already, if no exception has struck its connection: its answer fails, and the
\* connection ends with its transaction.
THEOREM GarbledHasNoAnswer == SSpec => []GarbledIsLast
<1>1. SInv => GarbledIsLast
  <2> SUFFICES ASSUME SInv, NEW c \in garbled \ struck
               PROVE  /\ sock[c] = 0
                      /\ phase[c] \in {"execute", "reply", "destroy", "closing", "ended"}
    BY DEF GarbledIsLast
  <2>1. c \in Conns
    BY DEF SInv, Base, Types
  <2>2. GarbledEnds(c)
    BY <2>1 DEF SInv, Fits, ConnFits, BytesFit
  <2> QED
    BY <2>2 DEF GarbledEnds
<1> QED
  BY <1>1, SInvHolds, PTL

\* The server uses the scheduler as the scheduler allows: what is proved of
\* Fibers holds of the fibers of the server.
THEOREM ServerRunsFibers == SSpec => Spec
<1>1. SInit => Init
  BY DEF SInit
<1>2. Base => Types /\ BlockedIsWaiting
  BY DEF Base
<1>3. Types /\ BlockedIsWaiting /\ [SNext]_svars => [Next]_vars
  BY FibersStep
<1>4. Base /\ [SNext]_svars => [Next]_vars
  BY <1>2, <1>3
<1> QED
  BY <1>1, <1>4, BaseHolds, PTL DEF SSpec, Spec
=============================================================================
