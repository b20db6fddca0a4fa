---------------------------- MODULE AsyncServer ----------------------------
(***************************************************************************)
(* The server side of client connections: the asynchronous sockets of      *)
(* sockets.cpp and the request loop of dbserver.cpp, run by the fibers of  *)
(* Fibers.  There is one thread.  Overlapped reads and writes finish in    *)
(* the kernel at any time, but their completion routines run only when     *)
(* the current fiber waits alertably in SleepEx: in the message loop, in   *)
(* read, in write, in close and in yieldif, and so also inside another     *)
(* completion routine, which closes a socket.  frames is that nesting.  A  *)
(* routine that throws unwinds it, whosever calls these are, up to a catch *)
(* or out of the program.                                                  *)
(***************************************************************************)
EXTENDS Fibers, Integers, Sequences

CONSTANTS Conns,     \* the connections; each is made at most once
          Handles,   \* the socket handles the kernel gives out, and again
          ArgLen,    \* bytes of a request's argument, after one for the command
          Requests   \* bound on the requests of a connection

ASSUME ConnsAssumption == IsFiniteSet(Conns)
ASSUME HandlesAssumption == Handles \subseteq Nat \ {0} /\ IsFiniteSet(Handles)
ASSUME LengthsAssumption == ArgLen \in Nat \ {0} /\ Requests \in Nat

VARIABLES
  \* the network and the kernel
  gone,     \* connections whose client has closed or was lost
  left,     \* requests the client has still to make
  asked,    \* bytes the client has still to send of its request
  net,      \* bytes sent and not received
  os,       \* handles that are open
  rcv,      \* how many receives are outstanding on a connection
  snd,      \* ... and how many sends
  done,     \* completions queued for the thread: <<what, connection, bytes>>
  \* SocketConnectAsync
  sock,     \* its handle, 0 when closed
  required, \* bytes the current read still needs
  got,      \* bytes the current read has received
  blocked,  \* the fiber waiting for it, MAIN for none
  frames,   \* the SleepEx calls the thread is inside, innermost last
  thrown,   \* an exception is on its way out of them
  struck,   \* connections that an exception has cut a read, write or close of
  \* DbServer
  phase,    \* what the connection's fiber is doing
  back,     \* whether the read or write of that phase has returned
  slot,     \* the connection's fiber
  have,     \* bytes left in the read buffer
  servers,  \* dbservers
  tran,     \* connections with a transaction open
  short,    \* connections for which need() returned less than was asked
  garbled   \* connections that executed a request with part of it missing

kernelVars == <<gone, left, asked, net, os, rcv, snd>>
throwVars == <<thrown, struck>>
readVars == <<required, got, have>>
serverVars == <<servers, tran, short, garbled>>
svars == <<kernelVars, done, sock, readVars, blocked, frames, throwVars, phase,
           back, slot, serverVars, vars>>

SInit ==
  /\ Init
  /\ gone = {} /\ os = {} /\ servers = {} /\ tran = {} /\ short = {} /\ garbled = {}
  /\ left = [c \in Conns |-> Requests]
  /\ asked = [c \in Conns |-> 0]
  /\ net = [c \in Conns |-> 0]
  /\ rcv = [c \in Conns |-> 0]
  /\ snd = [c \in Conns |-> 0]
  /\ done = <<>> /\ frames = <<>> /\ thrown = FALSE /\ struck = {}
  /\ sock = [c \in Conns |-> 0]
  /\ required = [c \in Conns |-> 0]
  /\ got = [c \in Conns |-> 0]
  /\ blocked = [c \in Conns |-> MAIN]
  /\ phase = [c \in Conns |-> "none"]
  /\ back = [c \in Conns |-> FALSE]
  /\ slot = [c \in Conns |-> MAIN]
  /\ have = [c \in Conns |-> 0]

-----------------------------------------------------------------------------
(* The clients and the kernel *)

\* No catch was left for an exception: the process has ended.
Down == thrown /\ frames = <<>>

\* The acceptor thread queues finishAccept on the server's thread.
Connect(c) ==
  /\ phase[c] = "none" /\ ~Down
  /\ \E h \in Handles \ os : /\ os' = os \cup {h}
                             /\ sock' = [sock EXCEPT ![c] = h]
  /\ phase' = [phase EXCEPT ![c] = "accepting"]
  /\ done' = Append(done, <<"accept", c, 0>>)
  /\ UNCHANGED <<gone, left, asked, net, rcv, snd, readVars, blocked, frames,
                 throwVars, back, slot, serverVars, vars>>

\* A client sends its request in one piece or in several.
ClientSends(c) ==
  /\ c \notin gone
  /\ \E n \in 1..asked[c] : /\ asked' = [asked EXCEPT ![c] = @ - n]
                            /\ net' = [net EXCEPT ![c] = @ + n]
  /\ UNCHANGED <<gone, left, os, rcv, snd, done, sock, readVars, blocked,
                 frames, throwVars, phase, back, slot, serverVars, vars>>

ClientLeaves(c) ==
  /\ c \notin gone
  /\ phase[c] # "none"
  /\ gone' = gone \cup {c}
  /\ UNCHANGED <<left, asked, net, os, rcv, snd, done, sock, readVars, blocked,
                 frames, throwVars, phase, back, slot, serverVars, vars>>

\* An outstanding receive ends with what has come, with 0 bytes when the
\* client is gone, or with an error (0 here too) when the handle was closed.
RecvEnds(c) ==
  /\ rcv[c] > 0
  /\ IF sock[c] = 0 THEN done' = Append(done, <<"recv", c, 0>>)
     ELSE /\ net[c] > 0 \/ c \in gone
          /\ done' = Append(done, <<"recv", c, net[c]>>)
  /\ net' = [net EXCEPT ![c] = 0]
  /\ rcv' = [rcv EXCEPT ![c] = @ - 1]
  /\ UNCHANGED <<gone, left, asked, os, snd, sock, readVars, blocked, frames,
                 throwVars, phase, back, slot, serverVars, vars>>

\* A send ends when the client has taken the data, if it ever does, or with an
\* error.
SendEnds(c) ==
  /\ snd[c] > 0
  /\ \/ sock[c] # 0 /\ done' = Append(done, <<"send", c, 1>>)
     \/ (sock[c] = 0 \/ c \in gone) /\ done' = Append(done, <<"send", c, 0>>)
  /\ snd' = [snd EXCEPT ![c] = @ - 1]
  /\ UNCHANGED <<gone, left, asked, net, os, rcv, sock, readVars, blocked,
                 frames, throwVars, phase, back, slot, serverVars, vars>>

-----------------------------------------------------------------------------
(* SocketConnectAsync *)

Sleeping(at, c) == frames' = Append(frames, <<at, c>>)
Pop(s) == SubSeq(s, 1, Len(s) - 1)
OnTop == frames[Len(frames)]

\* The thread waits alertably.
Alertable == ~thrown /\ (frames # <<>> \/ cur = MAIN)

\* The innermost SleepEx, called by one of these, returns: nothing more is queued.
Slept(at) == /\ ~thrown /\ done = <<>>
             /\ frames # <<>> /\ OnTop[1] \in at
             /\ frames' = Pop(frames)

\* recv(): what has come is taken at once, and so is the end of the stream;
\* else the receive is left outstanding.  Its completion routine is called in
\* each case.  complete is what recv() returns, q the completions still queued.
Recv(c, need, q, complete) ==
  \/ /\ sock[c] = 0
     /\ complete
     /\ done' = q
     /\ UNCHANGED <<net, rcv>>
  \/ /\ sock[c] # 0 /\ (net[c] > 0 \/ c \in gone)
     /\ complete = (net[c] = 0 \/ net[c] >= need)
     /\ done' = Append(q, <<"recv", c, net[c]>>)
     /\ net' = [net EXCEPT ![c] = 0]
     /\ UNCHANGED rcv
  \/ /\ sock[c] # 0 /\ net[c] = 0 /\ c \notin gone
     /\ ~complete
     /\ done' = q
     /\ rcv' = [rcv EXCEPT ![c] = @ + 1]
     /\ UNCHANGED net

\* Mutant: unblock() without blocked = -1.
WakesAgain(c) ==
  IF blocked[c] = MAIN THEN UNCHANGED <<blocked, vars>>
  ELSE Unblock(blocked[c]) /\ UNCHANGED blocked

\* unblock() of the socket: nothing when no fiber waits for it.
Wakes(c) ==
  IF blocked[c] = MAIN THEN UNCHANGED <<blocked, vars>>
  ELSE Unblock(blocked[c]) /\ blocked' = [blocked EXCEPT ![c] = MAIN]

\* Mutant: the socket keeps the handle it has closed.
EndSocketKeeps(c) == os' = os \ {sock[c]} /\ UNCHANGED sock

\* close() after its SleepEx.  The handle is read only now: a completion
\* routine that ran inside may have closed it already.
EndSocket(c) ==
  /\ os' = os \ {sock[c]}
  /\ sock' = [sock EXCEPT ![c] = 0]

\* The completion whose routine runs: its connection and its bytes, 0 for the
\* end of the stream and for an error.
Owner == Head(done)[2]
Amount == Head(done)[3]
Completes(what) == Alertable /\ done # <<>> /\ Head(done)[1] \in what

\* afterRecv and afterSend when the connection failed: close, then unblock.
IoFailed ==
  /\ Completes({"recv", "send"}) /\ Amount = 0
  /\ Sleeping("failed", Owner)
  /\ done' = Tail(done)
  /\ UNCHANGED <<kernelVars, sock, readVars, blocked, throwVars, phase, back,
                 slot, serverVars, vars>>

\* Mutant: the failure does not unblock the fiber.
IoFailedSilent ==
  /\ Slept({"failed"})
  /\ EndSocket(OnTop[2])
  /\ UNCHANGED <<gone, left, asked, net, rcv, snd, done, readVars, blocked,
                 throwVars, phase, back, slot, serverVars, vars>>

IoFailedClosed ==
  /\ Slept({"failed"})
  /\ EndSocket(OnTop[2])
  /\ Wakes(OnTop[2])
  /\ UNCHANGED <<gone, left, asked, net, rcv, snd, done, readVars, throwVars,
                 phase, back, slot, serverVars>>

\* Mutant: afterSend does not unblock the fiber.
AfterSendSilent ==
  /\ Completes({"send"}) /\ Amount > 0
  /\ done' = Tail(done)
  /\ UNCHANGED <<kernelVars, sock, readVars, blocked, frames, throwVars, phase,
                 back, slot, serverVars, vars>>

AfterSend ==
  /\ Completes({"send"}) /\ Amount > 0
  /\ Wakes(Owner)
  /\ done' = Tail(done)
  /\ UNCHANGED <<kernelVars, sock, readVars, frames, throwVars, phase, back,
                 slot, serverVars>>

\* afterRecv counts what has come.
Receives ==
  /\ Completes({"recv"}) /\ Amount > 0
  /\ got' = [got EXCEPT ![Owner] = @ + Amount]
  /\ required' = [required EXCEPT ![Owner] = @ - Amount]

\* Mutant: afterRecv wakes the fiber when it has to receive again.
AfterRecvEarly ==
  /\ Receives
  /\ Wakes(Owner)
  /\ done' = Tail(done)
  /\ UNCHANGED <<kernelVars, sock, have, frames, throwVars, phase, back, slot,
                 serverVars>>

\* When more is required it receives again, and wakes the fiber only if that is
\* complete at once.
AfterRecv ==
  /\ Receives
  /\ \/ /\ required[Owner] <= Amount
        /\ Wakes(Owner)
        /\ done' = Tail(done)
        /\ UNCHANGED <<net, rcv>>
     \/ /\ required[Owner] > Amount
        /\ \E complete \in BOOLEAN :
             /\ Recv(Owner, required[Owner] - Amount, Tail(done), complete)
             /\ IF complete THEN Wakes(Owner) ELSE UNCHANGED <<blocked, vars>>
  /\ UNCHANGED <<gone, left, asked, os, snd, sock, have, frames, throwVars, phase,
                 back, slot, serverVars>>

\* The client was lost in the meantime: WSARecv fails at once and recv throws,
\* with nothing outstanding and the fiber not woken up.
AfterRecvThrows ==
  /\ Receives
  /\ required[Owner] > Amount /\ sock[Owner] # 0 /\ Owner \in gone
  /\ done' = Tail(done)
  /\ thrown' = TRUE
  /\ struck' = struck \cup {Owner}
  /\ UNCHANGED <<kernelVars, sock, have, blocked, frames, phase, back, slot,
                 serverVars, vars>>

\* finishAccept: a fiber for the new connection, in slot i, ...
FinishAccept(i) ==
  /\ Completes({"accept"})
  /\ Create(i)
  /\ slot' = [slot EXCEPT ![Owner] = i]
  /\ phase' = [phase EXCEPT ![Owner] = "hello"]
  /\ done' = Tail(done)
  /\ UNCHANGED <<kernelVars, sock, readVars, blocked, frames, throwVars, back,
                 serverVars>>

\* ... or none: the socket is no good, or create throws, at the limit of fibers
\* or for want of resources.  The socket stays open.
AcceptFails ==
  /\ Completes({"accept"})
  /\ \/ UNCHANGED <<thrown, vars>>
     \/ thrown' = TRUE /\ (CreateFails \/ NoResources)
  /\ phase' = [phase EXCEPT ![Owner] = "refused"]
  /\ done' = Tail(done)
  /\ UNCHANGED <<kernelVars, sock, readVars, blocked, frames, struck, back, slot,
                 serverVars>>

-----------------------------------------------------------------------------
(* The fiber of a connection.  It is at the start of its phase, or back[c]  *)
(* from the read or write of that phase.                                    *)

Runs(c, p, b) == /\ frames = <<>> /\ ~thrown
                 /\ cur # MAIN /\ slot[c] = cur
                 /\ phase[c] = p /\ back[c] = b

Goes(c, p) == /\ phase' = [phase EXCEPT ![c] = p]
              /\ back' = [back EXCEPT ![c] = FALSE]

Returns(c) == back' = [back EXCEPT ![c] = TRUE]

\* The constructor is entered in dbservers before it writes the greeting.
Enlisted(c) == IF phase[c] = "hello" THEN servers \cup {c} ELSE servers

\* WSASend takes the data at once; afterSend is then called in SleepEx.
WriteNow(c) ==
  /\ Runs(c, "hello", FALSE) \/ Runs(c, "reply", FALSE)
  /\ sock[c] # 0
  /\ done' = Append(done, <<"send", c, 1>>)
  /\ Sleeping("wrote", c)
  /\ Returns(c)
  /\ servers' = Enlisted(c)
  /\ UNCHANGED <<kernelVars, sock, readVars, blocked, throwVars, phase, slot,
                 tran, short, garbled, vars>>

\* Mutant: write() does not wait for afterSend.
WriteForgets(c) ==
  /\ Runs(c, "hello", FALSE) \/ Runs(c, "reply", FALSE)
  /\ sock[c] # 0
  /\ snd' = [snd EXCEPT ![c] = @ + 1]
  /\ Returns(c)
  /\ servers' = Enlisted(c)
  /\ UNCHANGED <<gone, left, asked, net, os, rcv, done, sock, readVars, blocked,
                 frames, throwVars, phase, slot, tran, short, garbled, vars>>

\* ... or later: the fiber blocks.
WriteLater(c) ==
  /\ Runs(c, "hello", FALSE) \/ Runs(c, "reply", FALSE)
  /\ sock[c] # 0
  /\ snd' = [snd EXCEPT ![c] = @ + 1]
  /\ blocked' = [blocked EXCEPT ![c] = cur]
  /\ Block
  /\ Returns(c)
  /\ servers' = Enlisted(c)
  /\ UNCHANGED <<gone, left, asked, net, os, rcv, done, sock, readVars, frames,
                 throwVars, phase, slot, tran, short, garbled>>

\* Where an exception out of a read or write leads: in a command it is answered,
\* from run() it leads to the destructor, from the constructor it does not.
Catch(c) == CASE phase[c] = "hello" -> "caught"
              [] phase[c] = "argument" -> "reply"
              [] OTHER -> "destroy"

\* write() throws: the socket is closed, or the client is gone.
WriteThrows(c) ==
  /\ Runs(c, "hello", FALSE) \/ Runs(c, "reply", FALSE)
  /\ sock[c] = 0 \/ c \in gone
  /\ servers' = Enlisted(c)
  /\ Goes(c, Catch(c))
  /\ UNCHANGED <<kernelVars, done, sock, readVars, blocked, frames, throwVars,
                 slot, tran, short, garbled, vars>>

\* dbserver() has caught what the constructor threw, and the fiber ends.
Ends(c) ==
  /\ Runs(c, "caught", FALSE)
  /\ Goes(c, "ended")
  /\ End
  /\ UNCHANGED <<kernelVars, done, sock, readVars, blocked, frames, throwVars,
                 slot, serverVars>>

\* The reply is out and the read buffer cleared; the client may go on.
Written(c) ==
  /\ Runs(c, "hello", TRUE) \/ Runs(c, "reply", TRUE)
  /\ Goes(c, "command")
  /\ have' = [have EXCEPT ![c] = 0]
  /\ \/ left[c] = 0 /\ UNCHANGED <<left, asked>>
     \/ /\ left[c] > 0
        /\ left' = [left EXCEPT ![c] = @ - 1]
        /\ asked' = [asked EXCEPT ![c] = 1 + ArgLen]
  /\ UNCHANGED <<gone, net, os, rcv, snd, done, sock, required, got, blocked,
                 frames, throwVars, slot, serverVars, vars>>

\* Mutant: one byte more than is missing.
WantedOneMore(c) == IF phase[c] = "command" THEN 1 ELSE ArgLen + 1 - have[c]

\* What need() asks of the socket: the command is one byte.
Wanted(c) == IF phase[c] = "command" THEN 1 ELSE ArgLen - have[c]

\* read2: recv, then SleepEx to run afterRecv or to try to avoid blocking.
Read(c) ==
  /\ Runs(c, "command", FALSE) \/ Runs(c, "argument", FALSE)
  /\ Wanted(c) > 0
  /\ required' = [required EXCEPT ![c] = Wanted(c)]
  /\ got' = [got EXCEPT ![c] = 0]
  /\ \E complete \in BOOLEAN :
       /\ Recv(c, Wanted(c), done, complete)
       /\ Sleeping(IF complete THEN "read" ELSE "poll", c)
  /\ Returns(c)
  /\ UNCHANGED <<gone, left, asked, os, snd, sock, blocked, have, throwVars,
                 phase, slot, serverVars, vars>>

\* WSARecv fails when the client is gone.
ReadThrows(c) ==
  /\ Runs(c, "command", FALSE) \/ Runs(c, "argument", FALSE)
  /\ Wanted(c) > 0 /\ sock[c] # 0 /\ c \in gone
  /\ Goes(c, Catch(c))
  /\ UNCHANGED <<kernelVars, done, sock, readVars, blocked, frames, throwVars,
                 slot, serverVars, vars>>

\* SleepEx of a read or write returns, with nothing to block for.
SleepReturns ==
  /\ Slept({"wrote", "read", "poll"})
  /\ OnTop[1] = "poll" => required[OnTop[2]] <= 0
  /\ UNCHANGED <<kernelVars, done, sock, readVars, blocked, throwVars, phase,
                 back, slot, serverVars, vars>>

\* read2 blocks if the read still needs something.
PollBlocks ==
  /\ Slept({"poll"})
  /\ required[OnTop[2]] > 0
  /\ blocked' = [blocked EXCEPT ![OnTop[2]] = cur]
  /\ Block
  /\ UNCHANGED <<kernelVars, done, sock, readVars, throwVars, phase, back, slot,
                 serverVars>>

\* need() throws "lost connection" if nothing came.
LostConnection(c) ==
  /\ Runs(c, "command", TRUE) \/ Runs(c, "argument", TRUE)
  /\ got[c] = 0
  /\ Goes(c, Catch(c))
  /\ have' = [have EXCEPT ![c] = 0]
  /\ UNCHANGED <<kernelVars, done, sock, required, got, blocked, frames,
                 throwVars, slot, serverVars, vars>>

GotCommand(c) ==
  /\ Runs(c, "command", TRUE)
  /\ got[c] > 0
  /\ Goes(c, "argument")
  /\ have' = [have EXCEPT ![c] = got[c] - 1]
  /\ UNCHANGED <<kernelVars, done, sock, required, got, blocked, frames,
                 throwVars, slot, serverVars, vars>>

\* All of the argument is in the buffer, from the last read or an earlier one.
GotArgument(c) ==
  /\ \/ Runs(c, "argument", FALSE) /\ have[c] >= ArgLen
     \/ Runs(c, "argument", TRUE) /\ have[c] + got[c] >= ArgLen
  /\ Goes(c, "execute")
  /\ UNCHANGED <<kernelVars, done, sock, readVars, blocked, frames, throwVars,
                 slot, serverVars, vars>>

\* The read came back with less than it was asked for.  A string is then
\* refused by Buffer::getStr and the error answered; a record or value is
\* read by Connection::read, which does not look at the count.
GotLess(c) ==
  /\ Runs(c, "argument", TRUE)
  /\ got[c] > 0 /\ have[c] + got[c] < ArgLen
  /\ \/ Goes(c, "reply") /\ short' = short \cup {c} /\ UNCHANGED garbled
     \/ Goes(c, "execute") /\ garbled' = garbled \cup {c} /\ UNCHANGED short
  /\ UNCHANGED <<kernelVars, done, sock, readVars, blocked, frames, throwVars,
                 slot, servers, tran, vars>>

\* A command that begins or ends a transaction.
Execute(c) ==
  /\ Runs(c, "execute", FALSE)
  /\ Goes(c, "reply")
  /\ tran' \in {tran \cup {c}, tran \ {c}}
  /\ UNCHANGED <<kernelVars, done, sock, readVars, blocked, frames, throwVars,
                 slot, servers, short, garbled, vars>>

\* A command that reads tables calls yieldif: its time is over, or completion
\* routines are to be run first.
ExecuteYields(c) ==
  /\ Runs(c, "execute", FALSE)
  /\ \/ YieldIf /\ UNCHANGED frames
     \/ done # <<>> /\ Sleeping("yield", c) /\ UNCHANGED vars
  /\ UNCHANGED <<kernelVars, done, sock, readVars, blocked, throwVars, phase,
                 back, slot, serverVars>>

YieldSlept ==
  /\ Slept({"yield"})
  /\ YieldIf
  /\ UNCHANGED <<kernelVars, done, sock, readVars, blocked, throwVars, phase,
                 back, slot, serverVars>>

\* KILL closes the socket of a connection, maybe its own.
Kill(c, d) ==
  /\ Runs(c, "execute", FALSE)
  /\ d \in servers
  /\ Goes(c, "reply")
  /\ Sleeping("kill", d)
  /\ UNCHANGED <<kernelVars, done, sock, readVars, blocked, throwVars, slot,
                 serverVars, vars>>

Killed ==
  /\ Slept({"kill"})
  /\ EndSocket(OnTop[2])
  /\ UNCHANGED <<gone, left, asked, net, rcv, snd, done, readVars, blocked,
                 throwVars, phase, back, slot, serverVars, vars>>

\* The destructor: off the list, transactions aborted, socket closed.
Destroy(c) ==
  /\ Runs(c, "destroy", FALSE)
  /\ Goes(c, "closing")
  /\ servers' = servers \ {c}
  /\ tran' = tran \ {c}
  /\ Sleeping("destroy", c)
  /\ UNCHANGED <<kernelVars, done, sock, readVars, blocked, throwVars, slot,
                 short, garbled, vars>>

Destroyed ==
  /\ Slept({"destroy"})
  /\ EndSocket(OnTop[2])
  /\ Goes(OnTop[2], "ended")
  /\ End
  /\ UNCHANGED <<gone, left, asked, net, rcv, snd, done, readVars, blocked,
                 throwVars, slot, serverVars>>

\* The message loop yields when nothing is queued for it.
MainYields ==
  /\ frames = <<>> /\ done = <<>> /\ ~thrown
  /\ RunNext \/ RunNone
  /\ UNCHANGED <<kernelVars, done, sock, readVars, blocked, frames, throwVars,
                 phase, back, slot, serverVars>>

-----------------------------------------------------------------------------
(* Exceptions out of completion routines.  The SleepEx calls they leave are  *)
(* those of whatever fiber has the thread.                                   *)

\* afterRecv or afterSend was in close(): the socket stays as it is, and the
\* fiber that waits for it is not woken up.
UnwindClose ==
  /\ thrown /\ frames # <<>> /\ OnTop[1] = "failed"
  /\ struck' = struck \cup {OnTop[2]}
  /\ frames' = Pop(frames)
  /\ UNCHANGED <<kernelVars, done, sock, readVars, blocked, thrown, phase, back,
                 slot, serverVars, vars>>

\* A read or write ends in the exception, with its own operation outstanding.
UnwindIo ==
  /\ thrown /\ frames # <<>> /\ OnTop[1] \in {"wrote", "read", "poll"}
  /\ struck' = struck \cup {OnTop[2]}
  /\ Goes(OnTop[2], Catch(OnTop[2]))
  /\ frames' = Pop(frames)
  /\ thrown' = FALSE
  /\ UNCHANGED <<kernelVars, done, sock, readVars, blocked, slot, serverVars, vars>>

\* kill_connections catches it: the socket is not closed.  A command that was
\* in yieldif is answered with it, or its code catches it and goes on.
UnwindCommand ==
  /\ thrown /\ frames # <<>> /\ OnTop[1] \in {"kill", "yield"}
  /\ \/ OnTop[1] = "yield" /\ Goes(OnTop[2], "reply")
     \/ UNCHANGED <<phase, back>>
  /\ frames' = Pop(frames)
  /\ thrown' = FALSE
  /\ UNCHANGED <<kernelVars, done, sock, readVars, blocked, struck, slot,
                 serverVars, vars>>

\* From a destructor it goes nowhere: the process is terminated.
UnwindDestructor ==
  /\ thrown /\ frames # <<>> /\ OnTop[1] = "destroy"
  /\ frames' = Pop(frames)
  /\ UNCHANGED <<kernelVars, done, sock, readVars, blocked, throwVars, phase,
                 back, slot, serverVars, vars>>

-----------------------------------------------------------------------------
Completion == \/ IoFailed \/ IoFailedClosed \/ AfterSend
              \/ AfterRecv \/ AfterRecvThrows
              \/ AcceptFails \/ \E i \in Background : FinishAccept(i)

Unwind == UnwindClose \/ UnwindIo \/ UnwindCommand \/ UnwindDestructor

FiberStep(c) == \/ WriteNow(c) \/ WriteLater(c) \/ WriteThrows(c) \/ Written(c)
                \/ Ends(c) \/ Read(c) \/ ReadThrows(c) \/ LostConnection(c)
                \/ GotCommand(c) \/ GotArgument(c) \/ GotLess(c)
                \/ Execute(c) \/ Destroy(c)
                \/ \E d \in Conns : Kill(c, d)

ThreadStep == \/ Completion \/ SleepReturns \/ PollBlocks \/ YieldSlept
              \/ Killed \/ Destroyed \/ MainYields \/ Unwind
              \/ \E c \in Conns : FiberStep(c)

Stopped == Down /\ UNCHANGED svars

SNext == \/ ThreadStep \/ Stopped
         \/ \E c \in Conns : \/ Connect(c) \/ ClientSends(c) \/ ClientLeaves(c)
                             \/ RecvEnds(c) \/ SendEnds(c) \/ ExecuteYields(c)

SSpec == SInit /\ [][SNext]_svars

\* The thread goes on, a request is not all yields, and the kernel hands over
\* what has come and what has failed.  Nothing is assumed of the clients: one
\* that stays may never take what is sent to it.
SFairness == /\ WF_svars(ThreadStep)
             /\ \A c \in Conns : /\ SF_svars(FiberStep(c))
                                 /\ WF_svars(RecvEnds(c))
                                 /\ WF_svars(/\ SendEnds(c)
                                             /\ sock[c] = 0 \/ c \in gone)

SFairSpec == SSpec /\ SFairness

-----------------------------------------------------------------------------
Phases == {"none", "accepting", "refused", "hello", "command", "argument",
           "execute", "reply", "destroy", "closing", "caught", "ended"}
Live(c) == phase[c] \notin {"none", "accepting", "refused", "ended"}

Types ==
  /\ TypeOK
  /\ gone \subseteq Conns /\ os \subseteq Handles
  /\ servers \subseteq Conns /\ tran \subseteq Conns
  /\ short \subseteq Conns /\ garbled \subseteq Conns
  /\ left \in [Conns -> 0..Requests]
  /\ asked \in [Conns -> 0..(1 + ArgLen)]
  /\ net \in [Conns -> Nat]
  /\ rcv \in [Conns -> Nat] /\ snd \in [Conns -> Nat]
  /\ done \in Seq({"accept", "recv", "send"} \X Conns \X Nat)
  /\ sock \in [Conns -> {0} \cup Handles]
  /\ required \in [Conns -> Int]
  /\ got \in [Conns -> Nat]
  /\ blocked \in [Conns -> Slots]
  /\ frames \in Seq({"failed", "wrote", "read", "poll", "yield", "kill", "destroy"}
                     \X Conns)
  /\ thrown \in BOOLEAN /\ struck \subseteq Conns
  /\ phase \in [Conns -> Phases]
  /\ back \in [Conns -> BOOLEAN]
  /\ slot \in [Conns -> Slots]
  /\ have \in [Conns -> Nat]

\* A request takes no more than its own bytes from the network and needs no more.
Bounded(c) ==
  /\ net[c] <= 1 + ArgLen /\ got[c] <= 1 + ArgLen /\ have[c] <= 1 + ArgLen
  /\ required[c] \in (-ArgLen)..ArgLen

\* Types, with the bounds of a connection that no exception has struck: another
\* may have left a receive behind that takes the bytes of later requests.
STypeOK == Types /\ \A c \in Conns \ struck : Bounded(c)

\* A connection shares neither its handle nor its fiber.  close() runs from the
\* completion routine, from KILL and from the destructor, one inside another,
\* while the kernel gives the handles it closes, and create() the slots of
\* fibers that ended, to new connections.
ResourcesOwned ==
  /\ \A c \in Conns : sock[c] # 0 => sock[c] \in os
  /\ \A c, d \in Conns : c # d =>
       /\ sock[c] = 0 \/ sock[c] # sock[d]
       /\ Live(c) /\ Live(d) => slot[c] # slot[d]

\* The verify in Fibers::unblock holds: the fiber recorded in a socket is the
\* one of its connection, and it is blocked.  No other fiber is ever blocked.
BlockedIsWaiting ==
  /\ \A c \in Conns : blocked[c] # MAIN =>
       blocked[c] = slot[c] /\ Live(c) /\ status[slot[c]] = "BLOCKED"
  /\ \A i \in Background : status[i] = "BLOCKED" =>
       \E c \in Conns : blocked[c] = i

\* When a connection is done with, the database is done with it: none of its
\* transactions is left open.  So are the kernel and the queue of completions,
\* and no routine runs for an ended connection, unless an exception out of
\* another routine had cut its read, its write or its close short.
EndedLeavesNothing ==
  \A c \in Conns : phase[c] = "ended" =>
    /\ c \notin tran
    /\ c \notin struck => /\ rcv[c] = 0 /\ snd[c] = 0
                          /\ \A i \in 1..Len(done) : done[i][2] # c

\* A request with part of it missing is executed only on a socket that is
\* closed, so that its answer fails and its transaction is aborted.  This too is
\* of connections that no exception has struck: the others may have a receive
\* outstanding whose bytes go where no one looks for them.
GarbledIsLast ==
  \A c \in garbled \ struck :
    sock[c] = 0 /\ phase[c] \in {"execute", "reply", "destroy", "closing", "ended"}

\* The answer is with the kernel, and the client does not take it.
ClientIsDeaf(c) == phase[c] = "reply" /\ snd[c] > 0 /\ c \notin gone

\* A request that is executed is answered, or its connection ends, unless its
\* client stays without ever reading the answer, which keeps the fiber for as
\* long, or an exception strikes the connection or ends the server.
ExecutedIsAnswered ==
  \A c \in Conns :
    phase[c] = "execute" ~> \/ phase[c] \in {"command", "ended"}
                           \/ []ClientIsDeaf(c)
                           \/ c \in struck \/ Down

\* A client that leaves while the read for its next request is waiting is
\* noticed: the fiber wakes up, its transactions are aborted, it ends.  Only an
\* exception, in its own afterRecv for one, can prevent that.
LossIsNoticed ==
  \A c \in Conns :
    c \in gone /\ rcv[c] > 0 /\ blocked[c] # MAIN ~>
      phase[c] = "ended" \/ c \in struck \/ Down

-----------------------------------------------------------------------------
(* What the code says of itself and does not do *)

\* dbserver.cpp:135 "destructor cleans up and closes socket": the connection
\* of a client that is gone ends in the end, if the server does not.
LostIsDestroyed ==
  \A c \in Conns : c \in gone /\ Live(c) ~> ~Live(c) \/ Down

\* dbserver.cpp:135 again: what has ended is off the list, its socket closed.
EndedIsCleanedUp ==
  \A c \in Conns : phase[c] = "ended" => c \notin servers /\ sock[c] = 0

\* connection.cpp:18 "@post At least n bytes are available in rdbuf".
NeedDelivers == short = {}
=============================================================================
