------------------------------- MODULE Daemon -------------------------------
(***************************************************************************)
(* src/main.rs, from the call of wg.run() to the end of the process: one   *)
(* acceptor thread, NWorkers worker threads, the rendezvous channel        *)
(* between them (crossbeam's bounded(0)), the listening socket, and the    *)
(* main thread that waits for the first exit, joins the rest and ends the  *)
(* process.  The threads are those of WorkGroup.tla: workers are added     *)
(* first and the acceptor last, which fixes their numbers.                 *)
(*                                                                         *)
(* A request is abstract here: whether the client sent one and whether it  *)
(* is still there.  Parsing, lookups and replies succeed or fail by choice *)
(* and a lookup may never return.                                          *)
(***************************************************************************)
EXTENDS Naturals, Sequences

CONSTANTS NWorkers,  \* config.worker_count
          Conn,      \* the connections clients may open, once each
          None

Worker == 0 .. NWorkers - 1
Acceptor == NWorkers
Thread == 0 .. NWorkers

ASSUME DaemonAssumption == /\ NWorkers \in Nat \ {0}
                           /\ None \notin Thread
                           /\ None \notin Conn

VARIABLES data, lock, run, handles, result, pc, outcome  \* the WorkGroup's

VARIABLES loc,       \* where each thread is in its closure
          held,      \* the UnixStream a thread owns
          tx,        \* is the channel's only Sender alive?
          listener,  \* is the listening socket open?
          why,       \* why the acceptor left its loop
          joined,    \* how many of the returned handles main has joined
          exit,      \* how the process ended
          conn,      \* where each connection is, or what became of it
          peer       \* what the client of a live connection did so far

wgVars == <<data, lock, run, handles, result, pc, outcome>>
threadVars == <<loc, held, tx, listener, why>>
clientVars == <<conn, peer>>
vars == <<wgVars, threadVars, joined, exit, clientVars>>

WG == INSTANCE WorkGroup WITH NThreads <- NWorkers + 1

\* The phase of the process, as its clients see it.
Phase == CASE exit = "ok"                               -> "exited"
           [] exit = "panic"                            -> "aborted"
           [] exit = "none" /\ ~listener                -> "closed"
           [] exit = "none" /\ listener /\ why # "none" -> "draining"
           [] exit = "none" /\ listener /\ why = "none" -> "serving"

Svc == INSTANCE Service WITH phase <- Phase

Location == {"accept", "check", "send", "break",       \* the acceptor's
             "recv", "read", "handle", "write"}        \* a worker's
Reason == {"none", "shutdown", "accept_error", "timeout", "disconnected"}

TypeOK == /\ WG!TypeOK
          /\ loc \in [Thread -> Location]
          /\ held \in [Thread -> Conn \cup {None}]
          /\ tx \in BOOLEAN
          /\ listener \in BOOLEAN
          /\ why \in Reason
          /\ joined \in Nat
          /\ exit \in {"none", "ok", "panic"}
          /\ conn \in [Conn -> Svc!ConnState]
          /\ peer \in [Conn -> SUBSET {"sent", "gone"}]

\* The socket is bound and every closure is in the group.
Init == /\ WG!Init
        /\ loc = [t \in Thread |-> IF t = Acceptor THEN "accept" ELSE "recv"]
        /\ held = [t \in Thread |-> None]
        /\ tx = TRUE
        /\ listener = TRUE
        /\ why = "none"
        /\ joined = 0
        /\ exit = "none"
        /\ conn = [c \in Conn |-> "idle"]
        /\ peer = [c \in Conn |-> {}]

\* The client's end no longer matters once the connection is closed here.
ForgetClosed == peer' = [c \in Conn |-> IF conn'[c] \in Svc!Fate THEN {}
                                        ELSE peer[c]]

At(t, l) == exit = "none" /\ pc[t] = "running" /\ loc[t] = l

-----------------------------------------------------------------------------
(* The acceptor: spawn_acceptor's closure.                                 *)

\* listener.incoming() yields a stream ...
AcceptConn(c) == /\ At(Acceptor, "accept")
                 /\ conn[c] = "backlog"
                 /\ conn' = [conn EXCEPT ![c] = "open"]
                 /\ held' = [held EXCEPT ![Acceptor] = c]
                 /\ loc' = [loc EXCEPT ![Acceptor] = "check"]
                 /\ UNCHANGED <<wgVars, tx, listener, why, joined, exit, peer>>

\* ... or an error, which is looked at only after the shutdown check.
AcceptFails == /\ At(Acceptor, "accept")
               /\ loc' = [loc EXCEPT ![Acceptor] = "check"]
               /\ UNCHANGED <<wgVars, held, tx, listener, why, joined, exit,
                              clientVars>>

\* Leaving the loop drops the stream in hand.
DropStream(to) ==
  /\ loc' = [loc EXCEPT ![Acceptor] = to]
  /\ held' = [held EXCEPT ![Acceptor] = None]
  /\ conn' = [c \in Conn |-> IF c = held[Acceptor] THEN "discarded"
                                                   ELSE conn[c]]
  /\ ForgetClosed
  /\ UNCHANGED <<wgVars, tx, listener, joined, exit>>

LeaveLoop(reason) == why' = reason /\ DropStream("break")

\* if ctx.is_shutdown() { break; }, then the match on the accepted stream.
AcceptorCheck ==
  /\ At(Acceptor, "check")
  /\ WG!CanLock
  /\ \/ WG!IsShutdown /\ LeaveLoop("shutdown")
     \/ ~WG!IsShutdown /\ held[Acceptor] = None /\ LeaveLoop("accept_error")
     \/ /\ ~WG!IsShutdown
        /\ held[Acceptor] # None
        /\ loc' = [loc EXCEPT ![Acceptor] = "send"]
        /\ UNCHANGED <<wgVars, held, tx, listener, why, joined, exit,
                       clientVars>>

\* tx.send_timeout meets a worker in rx.recv(): the stream changes hands.
PassStream(w, left) ==
  /\ At(Acceptor, "send")
  /\ At(w, "recv")
  /\ held' = [held EXCEPT ![w] = held[Acceptor], ![Acceptor] = left]
  /\ loc' = [loc EXCEPT ![w] = "read", ![Acceptor] = "accept"]
  /\ UNCHANGED <<wgVars, tx, listener, why, joined, exit, clientVars>>

HandoffClones(w) == PassStream(w, held[Acceptor])  \* mutant: it stays usable
Handoff(w) == PassStream(w, None)

\* Mutants: send in place of send_timeout; the loop goes on after a timeout.
NoTimeout == FALSE
TimeoutGoesOn == At(Acceptor, "send") /\ UNCHANGED why /\ DropStream("accept")

\* No worker came for the stream within handoff_timeout.  One that gets back to
\* recv() as the time runs out may still be too late.
HandoffTimeout == /\ At(Acceptor, "send")
                  /\ \E w \in Worker : pc[w] # "done"
                  /\ LeaveLoop("timeout")

\* Every Receiver is gone; a worker drops its own after its Context.
HandoffDisconnected == /\ At(Acceptor, "send")
                       /\ \A w \in Worker : pc[w] = "done"
                       /\ LeaveLoop("disconnected")

\* drop(tx), and the closure returns.
EndAcceptor(sender) == /\ At(Acceptor, "break")
                       /\ tx' = sender
                       /\ WG!Return(Acceptor)
                       /\ UNCHANGED <<loc, held, listener, why, joined, exit,
                                      clientVars>>

KeepsSender == EndAcceptor(tx)  \* mutant: another Sender stays alive
DropSender == EndAcceptor(FALSE)

-----------------------------------------------------------------------------
(* A worker: the closure of spawn_workers around handle_stream.            *)

\* handle_stream returns, its stream is closed, and the loop calls recv().
FinishStream(w, fate) ==
  /\ conn' = [conn EXCEPT ![held[w]] = fate]
  /\ held' = [held EXCEPT ![w] = None]
  /\ loc' = [loc EXCEPT ![w] = "recv"]
  /\ ForgetClosed
  /\ UNCHANGED <<wgVars, tx, listener, why, joined, exit>>

\* stream.read and Request::parse both succeed.
ReadRequest(w) == /\ At(w, "read")
                  /\ "sent" \in peer[held[w]]
                  /\ loc' = [loc EXCEPT ![w] = "handle"]
                  /\ UNCHANGED <<wgVars, held, tx, listener, why, joined,
                                 exit, clientVars>>

\* Mutant: the stream of a malformed request is never closed.
RejectLeaks(w) == /\ At(w, "read")
                  /\ peer[held[w]] # {}
                  /\ FinishStream(w, "open")

\* The read fails, finds the end of the stream, or the request is malformed.
RejectRequest(w) == /\ At(w, "read")
                    /\ peer[held[w]] # {}
                    /\ FinishStream(w, "closed")

\* handle_request returns a reply to write, or an error or no bytes at all.
Handle(w) ==
  /\ At(w, "handle")
  /\ \/ /\ loc' = [loc EXCEPT ![w] = "write"]
        /\ UNCHANGED <<wgVars, held, tx, listener, why, joined, exit,
                       clientVars>>
     \/ FinishStream(w, "closed")

\* write_all and shutdown; a client that left makes them fail quietly.
WriteResponse(w) ==
  /\ At(w, "write")
  /\ FinishStream(w, IF "gone" \in peer[held[w]] THEN "closed" ELSE "answered")

\* A panic while parsing or handling: the stream is dropped, then the Context.
WorkerPanic(w) ==
  /\ At(w, "handle") \/ (At(w, "read") /\ "sent" \in peer[held[w]])
  /\ WG!Panic(w)
  /\ conn' = [conn EXCEPT ![held[w]] = "unwound"]
  /\ held' = [held EXCEPT ![w] = None]
  /\ ForgetClosed
  /\ UNCHANGED <<loc, tx, listener, why, joined, exit>>

\* Mutant: the thread ends without dropping its Context.
ForgetsContext(w) == /\ At(w, "recv")
                     /\ ~tx
                     /\ pc' = [pc EXCEPT ![w] = "done"]
                     /\ outcome' = [outcome EXCEPT ![w] = "ok"]
                     /\ UNCHANGED <<data, lock, run, handles, result,
                                    threadVars, joined, exit, clientVars>>

\* rx.recv() fails once the Sender is dropped: the closure returns.
RecvDisconnected(w) == /\ At(w, "recv")
                       /\ ~tx
                       /\ WG!Return(w)
                       /\ UNCHANGED <<threadVars, joined, exit, clientVars>>

-----------------------------------------------------------------------------
(* The end of a thread, as WorkGroup has it.  The acceptor's closure owns  *)
(* the listener, which is dropped after the Context.                       *)

ContextDrop(t) == /\ exit = "none"
                  /\ WG!ContextDrop(t)
                  /\ UNCHANGED <<threadVars, joined, exit, clientVars>>

Notify(t) == /\ exit = "none"
             /\ WG!Notify(t)
             /\ UNCHANGED <<threadVars, joined, exit, clientVars>>

End(t) == /\ exit = "none"
          /\ WG!End(t)
          /\ IF t = Acceptor THEN listener' = FALSE /\ conn' = Svc!RefuseBacklog
                             ELSE UNCHANGED <<listener, conn>>
          /\ ForgetClosed
          /\ UNCHANGED <<loc, held, tx, why, joined, exit>>

-----------------------------------------------------------------------------
(* The main thread: wg.run(), then the joins, then the end of the process. *)

RunGroup == /\ exit = "none"
            /\ WG!RunStep
            /\ UNCHANGED <<threadVars, joined, exit, clientVars>>

Wakeup == /\ exit = "none"
          /\ WG!SpuriousWakeup
          /\ UNCHANGED <<threadVars, joined, exit, clientVars>>

\* Unwinding run() drops the closures not yet spawned: the last of them owns
\* the Sender and the listener.
SpawnPanics == /\ exit = "none"
               /\ WG!SpawnPanics
               /\ tx' = FALSE
               /\ listener' = FALSE
               /\ conn' = Svc!RefuseBacklog
               /\ ForgetClosed
               /\ UNCHANGED <<loc, held, why, joined, exit>>

\* for handle in handles { let _ = handle.join(); }
JoinNext == /\ exit = "none"
            /\ run = "returned"
            /\ result = "ok"
            /\ joined < Len(handles)
            /\ pc[handles[joined + 1]] = "done"
            /\ joined' = joined + 1
            /\ UNCHANGED <<wgVars, threadVars, exit, clientVars>>

\* The process ends and the kernel closes what it had open.
EndProcess(status) ==
  /\ exit' = status
  /\ listener' = FALSE
  /\ conn' = [c \in Conn |-> IF conn[c] = "open" THEN "cut"
                                                 ELSE Svc!RefuseBacklog[c]]
  /\ ForgetClosed
  /\ UNCHANGED <<wgVars, loc, held, tx, why, joined>>

\* main returns Ok(()), or a panic reaches the top of the main thread.
ReturnWhen(done) == /\ exit = "none"
                    /\ run = "returned"
                    /\ result = "ok"
                    /\ done
                    /\ EndProcess("ok")

ReturnsWithoutJoins == ReturnWhen(TRUE)  \* mutant: as soon as run() does
MainReturns == ReturnWhen(joined = Len(handles))

MainUnwinds == /\ exit = "none"
               /\ \/ run = "panicked"
                  \/ run = "returned" /\ result = "panic"
               /\ EndProcess("panic")

-----------------------------------------------------------------------------
(* The clients.                                                            *)

Connect(c) == /\ conn[c] = "idle"
              /\ conn' = [conn EXCEPT ![c] = IF listener THEN "backlog"
                                                         ELSE "refused"]
              /\ UNCHANGED <<wgVars, threadVars, joined, exit, peer>>

Send(c) == /\ conn[c] \in {"backlog", "open"}
           /\ peer[c] = {}
           /\ peer' = [peer EXCEPT ![c] = {"sent"}]
           /\ UNCHANGED <<wgVars, threadVars, joined, exit, conn>>

HangUp(c) == /\ conn[c] \in {"backlog", "open"}
             /\ "gone" \notin peer[c]
             /\ peer' = [peer EXCEPT ![c] = @ \cup {"gone"}]
             /\ UNCHANGED <<wgVars, threadVars, joined, exit, conn>>

-----------------------------------------------------------------------------
AcceptorStep == \/ \E c \in Conn : AcceptConn(c)
                \/ \E w \in Worker : Handoff(w)
                \/ HandoffTimeout
                \/ HandoffDisconnected
                \/ DropSender

WorkerStep(w) == RejectRequest(w) \/ ReadRequest(w) \/ RecvDisconnected(w)

MainStep == RunGroup \/ JoinNext \/ MainReturns \/ MainUnwinds

Stopped == exit # "none" /\ UNCHANGED vars

Next == \/ AcceptorStep
        \/ AcceptFails
        \/ AcceptorCheck
        \/ \E w \in Worker : \/ WorkerStep(w)
                             \/ Handle(w)
                             \/ WriteResponse(w)
                             \/ WorkerPanic(w)
        \/ \E t \in Thread : ContextDrop(t) \/ Notify(t) \/ End(t)
        \/ MainStep
        \/ Wakeup
        \/ SpawnPanics
        \/ \E c \in Conn : Connect(c) \/ Send(c) \/ HangUp(c)
        \/ Stopped

Spec == Init /\ [][Next]_vars

(***************************************************************************)
(* Scheduling: every runnable thread runs, the handoff timeout strikes     *)
(* when nothing else ends the wait, and the mutex is obtained by a thread  *)
(* that finds it free again and again.  What a worker waits for outside    *)
(* the process is assumed separately: clients that send their request or   *)
(* hang up and that read their reply, and lookups that return.             *)
(***************************************************************************)
ThreadFairness ==
  /\ WF_vars(MainStep)
  /\ WF_vars(AcceptorStep)
  /\ SF_vars(AcceptorCheck)
  /\ \A w \in Worker : WF_vars(WorkerStep(w))
  /\ \A t \in Thread : SF_vars(ContextDrop(t)) /\ WF_vars(Notify(t) \/ End(t))

ClientFairness ==
  /\ \A c \in Conn : WF_vars(Send(c) \/ HangUp(c))
  /\ \A w \in Worker : WF_vars(WriteResponse(w))

LookupFairness == \A w \in Worker : WF_vars(Handle(w))

FairSpec == Spec /\ ThreadFairness
PoliteClientsSpec == FairSpec /\ ClientFairness
ResponsiveSpec == PoliteClientsSpec /\ LookupFairness

-----------------------------------------------------------------------------
(***************************************************************************)
(* A stream has one owner.  The rendezvous neither duplicates nor loses    *)
(* it: while the process runs, an open connection is in the hands of       *)
(* exactly one running thread, and what a thread holds is open.            *)
(***************************************************************************)
StreamHasOneOwner ==
  exit = "none" =>
    /\ \A c \in Conn :
         conn[c] = "open" => \E t \in Thread : held[t] = c /\ pc[t] = "running"
    /\ \A t \in Thread : held[t] # None => conn[held[t]] = "open"
    /\ \A t, u \in Thread : held[t] # None /\ held[t] = held[u] => t = u

(***************************************************************************)
(* The graceful path has only two causes, a handoff timeout and an accept  *)
(* error.  A worker that ends without panicking ended because the Sender   *)
(* was dropped, so neither the shutdown check nor a disconnected channel,  *)
(* which need an exited worker, can start it.                              *)
(***************************************************************************)
GracefulCause == run = "returned" /\ result = "ok" =>
                   why \in {"timeout", "accept_error"}

(***************************************************************************)
(* "the acceptor thread will close the rx channel if the wg is shutdown    *)
(* and it's time to exit" (spawn_workers): main joins the workers only     *)
(* after the Sender is gone, so no idle worker can hold it up.             *)
(***************************************************************************)
ChannelClosedBeforeJoins == run = "returned" /\ result = "ok" => ~tx

\* The daemon's threads use the group as WorkGroup.tla says a group is used.
ImplementsWorkGroup == WG!Spec

(***************************************************************************)
(* What the threads do to connections is what Service.tla promises: no     *)
(* stream is accepted after one was turned away, main returns Ok only with *)
(* every accepted stream finished, a connection ends once.                 *)
(***************************************************************************)
ImplementsService == Svc!Spec

\* The acceptor stops at the first stream it fails to hand over: in the whole
\* life of the process at most one accepted client is turned away.
OneDiscardAtMost == Svc!OneDiscardAtMost

\* "try to exit gracefully" (main): when main returns Ok, no connection that a
\* worker was serving has been cut off.
GracefulDrain == Svc!GracefulDrain

\* Two ends of a connection never both happen: what became of one is final,
\* through the worker's close, the acceptor's, the listener's and the end of
\* the process.
FateIsFinal == Svc!FateIsFinal

(***************************************************************************)
(* The inductive invariant behind the safety properties and the two        *)
(* refinements, on top of the group's own.                                 *)
(***************************************************************************)

\* A closure that has not ended has no outcome, and the acceptor never panics.
OutcomeOfEnded ==
  /\ \A t \in Thread : pc[t] \in {"new", "running"} => outcome[t] = "none"
  /\ outcome[Acceptor] # "panic"

\* The closures own what their place in the code says they own.
HeldAtLocation ==
  /\ loc[Acceptor] \in {"accept", "check", "send", "break"}
  /\ held[Acceptor] # None => loc[Acceptor] \in {"check", "send"}
  /\ loc[Acceptor] = "send" => held[Acceptor] # None
  /\ \A w \in Worker : /\ loc[w] \in {"recv", "read", "handle", "write"}
                       /\ held[w] # None => loc[w] # "recv"
                       /\ pc[w] = "running" /\ loc[w] # "recv" => held[w] # None
                       /\ pc[w] = "new" => loc[w] = "recv"
  /\ \A t \in Thread : held[t] # None => pc[t] = "running"

\* The acceptor has left its loop for a reason, and its closure ends after
\* that; it is the last to be spawned.
AcceptorLeft ==
  /\ loc[Acceptor] = "break" <=> why # "none"
  /\ pc[Acceptor] \notin {"new", "running"} => loc[Acceptor] = "break"
  /\ run = "panicked" => pc[Acceptor] = "new"

\* The Sender goes with the acceptor's closure, and no worker returns before.
SenderGone ==
  /\ ~tx => outcome[Acceptor] = "ok" \/ run = "panicked"
  /\ \A t \in Thread : outcome[t] = "ok" => ~tx

\* A shutdown that the acceptor notices, or a channel without receivers, goes
\* back to a worker that panicked first.
ShutdownByPanic == why \in {"shutdown", "disconnected"} =>
                     data # None /\ outcome[data] = "panic"

ListenerGone ==
  /\ exit = "none" => (~listener <=> pc[Acceptor] = "done" \/ run = "panicked")
  /\ exit # "none" => ~listener
  /\ ~listener => \A c \in Conn : conn[c] # "backlog"

JoinedAreDone ==
  /\ joined > 0 => run = "returned"
  /\ joined <= Len(handles)
  /\ \A i \in 1 .. joined : pc[handles[i]] = "done"

IInv == /\ TypeOK
        /\ WG!IInv
        /\ OutcomeOfEnded
        /\ HeldAtLocation
        /\ AcceptorLeft
        /\ SenderGone
        /\ ShutdownByPanic
        /\ ListenerGone
        /\ JoinedAreDone
        /\ StreamHasOneOwner

(***************************************************************************)
(* The purpose of the handoff timeout: whatever lookups and clients do, a  *)
(* connection does not stay in the listen queue forever.  It is accepted,  *)
(* or the listener is closed and its client can turn elsewhere.            *)
(***************************************************************************)
BacklogDrains == \A c \in Conn : conn[c] = "backlog" ~> conn[c] # "backlog"

\* "drop tx so that any working threads still waiting for a connection have a
\* chance to finish" (spawn_acceptor).
IdleWorkersFinish ==
  \A w \in Worker :
    (why # "none" /\ pc[w] = "running" /\ loc[w] = "recv")
      ~> (pc[w] = "done" \/ exit # "none")

\* When clients and lookups respond, the acceptor leaving its loop is the end
\* of the process: the joins all return.
ShutdownCompletes == why # "none" ~> exit # "none"

\* When clients and lookups respond, every client that connected is released.
EveryClientReleased ==
  \A c \in Conn : conn[c] \in {"backlog", "open"} ~> conn[c] \in Svc!Fate

(***************************************************************************)
(* "if something goes wrong and it's multiple seconds until we get a       *)
(* response, kill the process" (spawn_acceptor): a handoff timeout ends    *)
(* the process.  Clients are assumed polite; a lookup need not return.     *)
(***************************************************************************)
TimeoutKillsProcess == why = "timeout" ~> exit # "none"

\* "if a thread unwound with a panic, just start panicing here" (main).
PanicIsPassedOn == exit = "ok" => \A t \in Thread : outcome[t] # "panic"
=============================================================================
