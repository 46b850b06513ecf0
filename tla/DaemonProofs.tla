---------------------------- MODULE DaemonProofs ----------------------------
(* Proofs about Daemon.tla, for any number of workers and connections.     *)
EXTENDS Daemon, TLAPS

USE DaemonAssumption DEF DaemonAssumption

WGP == INSTANCE WorkGroupProofs WITH NThreads <- NWorkers + 1

LEMMA SameThreads == WG!Thread = Thread
  BY DEF WG!Thread, Thread

LEMMA Threads == /\ Thread = Worker \cup {Acceptor}
                 /\ Acceptor \notin Worker
                 /\ Worker # {}
<1>1. Thread = Worker \cup {Acceptor} /\ Acceptor \notin Worker
  BY DEF Thread, Worker, Acceptor
<1>2. 0 \in Worker
  BY DEF Worker
<1> QED BY <1>1, <1>2

-----------------------------------------------------------------------------
(* The group.                                                              *)

\* Every step of the daemon is a step of the group or leaves it alone.
LEMMA GroupStep == [Next]_vars => [WG!Next]_(WG!vars)
<1> SUFFICES ASSUME [Next]_vars PROVE [WG!Next]_(WG!vars)
  OBVIOUS
<1> USE DEF WG!vars, wgVars
<1>1. UNCHANGED wgVars => UNCHANGED WG!vars
  OBVIOUS
<1>2. CASE AcceptorStep
  <2>1. CASE DropSender
    BY <2>1, SameThreads DEF DropSender, EndAcceptor, WG!Next, Acceptor, Thread
  <2> QED BY <1>1, <1>2, <2>1
          DEF AcceptorStep, AcceptConn, Handoff, PassStream,
              HandoffTimeout, HandoffDisconnected, LeaveLoop, DropStream
<1>3. CASE AcceptFails \/ AcceptorCheck
  BY <1>1, <1>3 DEF AcceptFails, AcceptorCheck, LeaveLoop, DropStream
<1>4. ASSUME NEW w \in Worker,
             WorkerStep(w) \/ Handle(w) \/ WriteResponse(w) \/ WorkerPanic(w)
      PROVE  [WG!Next]_(WG!vars)
  <2>1. w \in WG!Thread
    BY SameThreads DEF Worker, Thread
  <2>2. CASE RecvDisconnected(w) \/ WorkerPanic(w)
    BY <2>1, <2>2 DEF RecvDisconnected, WorkerPanic, WG!Next
  <2> QED BY <1>1, <1>4, <2>2
          DEF WorkerStep, RejectRequest, ReadRequest, Handle, WriteResponse,
              FinishStream
<1>5. ASSUME NEW t \in Thread, ContextDrop(t) \/ Notify(t) \/ End(t)
      PROVE  [WG!Next]_(WG!vars)
  BY <1>5, SameThreads DEF ContextDrop, Notify, End, WG!Next
<1>6. CASE MainStep \/ Wakeup \/ SpawnPanics
  BY <1>1, <1>6 DEF MainStep, RunGroup, JoinNext, MainReturns, ReturnWhen,
                    MainUnwinds, EndProcess, Wakeup, SpawnPanics, WG!Next
<1>7. ASSUME NEW c \in Conn, Connect(c) \/ Send(c) \/ HangUp(c)
      PROVE  [WG!Next]_(WG!vars)
  BY <1>1, <1>7 DEF Connect, Send, HangUp
<1>8. CASE UNCHANGED vars
  BY <1>8 DEF vars
<1> QED BY <1>2, <1>3, <1>4, <1>5, <1>6, <1>7, <1>8 DEF Next, Stopped

(***************************************************************************)
(* The daemon's threads are a WorkGroup, so all that is proved about one   *)
(* holds of them.                                                          *)
(***************************************************************************)
THEOREM DaemonUsesWorkGroup == Spec => ImplementsWorkGroup
<1>1. Init => WG!Init
  BY DEF Init
<1> QED BY <1>1, GroupStep, PTL DEF Spec, ImplementsWorkGroup, WG!Spec

\* The group's invariant is WorkGroupProofs' to prove; the two instances of
\* WorkGroup differ in name only.
LEMMA SameInvariant == WG!IInv <=> WGP!IInv
  BY DEF WG!IInv, WG!TypeOK, WG!ExitRecorded, WG!HandlesInOrder,
         WG!EndedHasOutcome, WG!RecordedAtJoin, WG!ResultOfRecorded,
         WG!RestIsEveryOther, WG!Thread, WG!PastDrop, WG!RunLocation,
         WG!ThreadLocation, WG!Outcome, WG!ToSet,
         WGP!IInv, WGP!TypeOK, WGP!ExitRecorded, WGP!HandlesInOrder,
         WGP!EndedHasOutcome, WGP!RecordedAtJoin, WGP!ResultOfRecorded,
         WGP!RestIsEveryOther, WGP!Thread, WGP!PastDrop, WGP!RunLocation,
         WGP!ThreadLocation, WGP!Outcome, WGP!ToSet

LEMMA SameInit == WG!Init => WGP!Init
  BY DEF WG!Init, WGP!Init, WG!Thread, WGP!Thread

LEMMA SameNext == [WG!Next]_(WG!vars) => [WGP!Next]_(WGP!vars)
  BY DEF WG!Next, WG!RunStep, WG!Spawn, WG!SpawnAs, WG!Lock, WG!TakeLock,
         WG!WantsLock, WG!EndClosure,
         WG!Check, WG!Wait, WG!JoinFirst, WG!JoinAt, WG!SpawnPanics,
         WG!SpuriousWakeup, WG!Return, WG!Panic, WG!ContextDrop,
         WG!RecordExit, WG!Notify, WG!End, WG!Finished, WG!Thread,
         WG!RemoveAt, WG!vars,
         WGP!Next, WGP!RunStep, WGP!Spawn, WGP!SpawnAs, WGP!Lock,
         WGP!TakeLock, WGP!EndClosure,
         WGP!WantsLock, WGP!Check, WGP!Wait, WGP!JoinFirst, WGP!JoinAt,
         WGP!SpawnPanics, WGP!SpuriousWakeup, WGP!Return, WGP!Panic,
         WGP!ContextDrop, WGP!RecordExit, WGP!Notify, WGP!End, WGP!Finished,
         WGP!Thread, WGP!RemoveAt, WGP!vars

LEMMA GroupInit == Init => WG!IInv
  BY SameInvariant, SameInit, WGP!InitIInv DEF Init, WGP!Thread, Thread

LEMMA GroupNext == WG!IInv /\ [Next]_vars => WG!IInv'
<1>1. WGP!IInv /\ [WGP!Next]_(WGP!vars) => WGP!IInv'
  BY WGP!NextIInv DEF WGP!Thread, Thread
<1>2. WGP!IInv' => WG!IInv'
  BY SameInvariant, PTL
<1> QED BY <1>1, <1>2, SameInvariant, SameNext, GroupStep

\* What the daemon's invariant needs to know of the group's.
LEMMA GroupFacts ==
  ASSUME WG!IInv
  PROVE  /\ pc \in [Thread -> WG!ThreadLocation]
         /\ outcome \in [Thread -> {"none", "ok", "panic"}]
         /\ data \in Thread \cup {None}
         /\ data = None => \A t \in Thread : pc[t] \notin WG!PastDrop
         /\ data # None => pc[data] \in WG!PastDrop
         /\ \A t \in Thread : pc[t] \notin {"new", "running"}
                              => outcome[t] # "none"
         /\ run = "spawn" => \A t \in Thread : t >= Len(handles)
                                               => pc[t] = "new"
         /\ Len(handles) \in Nat
  BY SameThreads DEF WG!IInv, WG!TypeOK, WG!ExitRecorded, WG!EndedHasOutcome,
                     WG!HandlesInOrder, WG!Outcome

-----------------------------------------------------------------------------
(* The invariant.                                                          *)

LEMMA InitIInv == Init => IInv
<1> SUFFICES ASSUME Init PROVE IInv
  OBVIOUS
<1> USE SameThreads, Threads
<1>1. WG!IInv
  BY GroupInit
<1>2. TypeOK
  BY <1>1 DEF Init, TypeOK, WG!IInv, Location, Reason, Svc!ConnState
<1>3. OutcomeOfEnded /\ AcceptorLeft
  BY DEF Init, WG!Init, OutcomeOfEnded, AcceptorLeft
<1>4. HeldAtLocation
  <2>1. /\ \A t \in Thread : held[t] = None
        /\ loc[Acceptor] = "accept"
        /\ \A w \in Worker : loc[w] = "recv"
    BY DEF Init
  <2> QED BY <2>1 DEF HeldAtLocation
<1>5. SenderGone /\ ShutdownByPanic /\ ListenerGone
  BY DEF Init, WG!Init, SenderGone, ShutdownByPanic, ListenerGone
<1>6. JoinedAreDone
  BY DEF Init, WG!Init, JoinedAreDone
<1>7. StreamHasOneOwner
  BY DEF Init, StreamHasOneOwner
<1> QED BY <1>1, <1>2, <1>3, <1>4, <1>5, <1>6, <1>7 DEF IInv

LEMMA NextIInv == IInv /\ [Next]_vars => IInv'
<1> SUFFICES ASSUME IInv, [Next]_vars PROVE IInv'
  OBVIOUS
<1>g. WG!IInv'
  BY GroupNext DEF IInv
<1>t. WG!TypeOK'
  BY <1>g DEF WG!IInv
<1>f. /\ pc \in [Thread -> WG!ThreadLocation]
      /\ outcome \in [Thread -> {"none", "ok", "panic"}]
      /\ data \in Thread \cup {None}
      /\ data = None => \A t \in Thread : pc[t] \notin WG!PastDrop
      /\ data # None => pc[data] \in WG!PastDrop
      /\ \A t \in Thread : pc[t] \notin {"new", "running"}
                           => outcome[t] # "none"
      /\ run = "spawn" => \A t \in Thread : t >= Len(handles) => pc[t] = "new"
      /\ Len(handles) \in Nat
  BY GroupFacts DEF IInv
<1> USE <1>g, <1>t, <1>f, Threads
        DEF IInv, TypeOK, OutcomeOfEnded, HeldAtLocation, AcceptorLeft,
            SenderGone, ShutdownByPanic, ListenerGone, JoinedAreDone,
            StreamHasOneOwner, At, ForgetClosed, Location, Reason,
            Svc!ConnState, Svc!Fate, threadVars, clientVars, wgVars
<1>1. ASSUME NEW c \in Conn, AcceptConn(c) PROVE IInv'
  BY <1>1 DEF AcceptConn
<1>2. CASE AcceptFails
  BY <1>2 DEF AcceptFails
<1>3. ASSUME NEW w \in Worker, Handoff(w) PROVE IInv'
  BY <1>3 DEF Handoff, PassStream
<1>4. CASE DropSender
  <2>1. TypeOK'
    BY <1>4 DEF DropSender, EndAcceptor, WG!Return, WG!EndClosure
  <2>2. StreamHasOneOwner'
    BY <1>4 DEF DropSender, EndAcceptor, WG!Return, WG!EndClosure
  <2>3. /\ OutcomeOfEnded' /\ HeldAtLocation' /\ AcceptorLeft' /\ SenderGone'
        /\ ShutdownByPanic' /\ ListenerGone' /\ JoinedAreDone'
    BY <1>4 DEF DropSender, EndAcceptor, WG!Return, WG!EndClosure
  <2> QED BY <2>1, <2>2, <2>3
<1>5. ASSUME NEW w \in Worker, NEW fate \in {"closed", "answered"},
             At(w, "read") \/ At(w, "handle") \/ At(w, "write"),
             FinishStream(w, fate)
      PROVE  IInv'
  BY <1>5 DEF FinishStream
<1>6. ASSUME NEW w \in Worker, ReadRequest(w) PROVE IInv'
  BY <1>6 DEF ReadRequest
<1>7. ASSUME NEW w \in Worker, WorkerPanic(w) PROVE IInv'
  BY <1>7 DEF WorkerPanic, WG!Panic, WG!EndClosure
<1>8. ASSUME NEW w \in Worker, RecvDisconnected(w) PROVE IInv'
  BY <1>8 DEF RecvDisconnected, WG!Return, WG!EndClosure
<1>9. ASSUME NEW t \in Thread, ContextDrop(t) PROVE IInv'
  BY <1>9 DEF ContextDrop, WG!ContextDrop, WG!RecordExit
<1>10. ASSUME NEW t \in Thread, Notify(t) PROVE IInv'
  BY <1>10 DEF Notify, WG!Notify
<1>11. ASSUME NEW t \in Thread, End(t) PROVE IInv'
  <2>1. TypeOK'
    <3>1. conn' \in [Conn -> Svc!ConnState] /\ listener' \in BOOLEAN
      <4>1. CASE t = Acceptor
        <5>1. conn' = Svc!RefuseBacklog /\ listener' = FALSE
          BY <1>11, <4>1 DEF End
        <5>2. Svc!RefuseBacklog \in [Conn -> Svc!ConnState]
          BY DEF Svc!RefuseBacklog
        <5> QED BY <5>1, <5>2
      <4>2. CASE t # Acceptor
        BY <1>11, <4>2 DEF End
      <4> QED BY <4>1, <4>2
    <3>2. peer' \in [Conn -> SUBSET {"sent", "gone"}]
      BY <1>11 DEF End
    <3> QED BY <1>11, <3>1, <3>2 DEF End
  <2>2. StreamHasOneOwner'
    BY <1>11 DEF End, WG!End, Svc!RefuseBacklog
  <2>3. /\ OutcomeOfEnded' /\ HeldAtLocation' /\ AcceptorLeft' /\ SenderGone'
        /\ ShutdownByPanic' /\ ListenerGone' /\ JoinedAreDone'
    BY <1>11 DEF End, WG!End, Svc!RefuseBacklog
  <2> QED BY <2>1, <2>2, <2>3
<1>12. CASE Wakeup
  BY <1>12 DEF Wakeup, WG!SpuriousWakeup
<1>13. CASE SpawnPanics
  <2>0. pc[Acceptor] = "new"
    <3>1. run = "spawn" /\ Len(handles) < NWorkers + 1
      BY ONLY <1>13 DEF SpawnPanics, WG!SpawnPanics
    <3>2. Acceptor \in Thread /\ Acceptor >= Len(handles)
      BY <1>f, <3>1 DEF Acceptor, Thread
    <3> QED BY <1>f, <3>1, <3>2
  <2>1. TypeOK'
    <3>1. conn' \in [Conn -> Svc!ConnState] /\ peer' \in [Conn -> SUBSET {"sent", "gone"}]
      BY ONLY <1>13, TypeOK
      DEF SpawnPanics, TypeOK, ForgetClosed, Svc!RefuseBacklog, Svc!ConnState, Svc!Fate
    <3>2. /\ loc' = loc /\ held' = held /\ tx' = FALSE /\ listener' = FALSE
          /\ why' = why /\ joined' = joined /\ exit' = exit
      BY ONLY <1>13 DEF SpawnPanics
    <3> QED BY ONLY <1>t, TypeOK, <3>1, <3>2 DEF TypeOK
  <2>2. StreamHasOneOwner'
    BY <1>13 DEF SpawnPanics, WG!SpawnPanics, Svc!RefuseBacklog
  <2>3. OutcomeOfEnded' /\ HeldAtLocation'
    BY <1>13, <2>0 DEF SpawnPanics, WG!SpawnPanics, Svc!RefuseBacklog
  <2>4. AcceptorLeft' /\ SenderGone'
    BY <1>13, <2>0 DEF SpawnPanics, WG!SpawnPanics, Svc!RefuseBacklog
  <2>5. /\ why' = why /\ data' = data /\ outcome' = outcome /\ joined' = joined
        /\ handles' = handles /\ pc' = pc /\ run = "spawn" /\ run' = "panicked"
        /\ exit = "none" /\ exit' = "none" /\ listener' = FALSE
        /\ conn' = Svc!RefuseBacklog
    BY ONLY <1>13 DEF SpawnPanics, WG!SpawnPanics
  <2>6. ShutdownByPanic'
    BY ONLY <2>5, ShutdownByPanic DEF ShutdownByPanic
  <2>7. JoinedAreDone'
    BY ONLY <2>5, JoinedAreDone, joined \in Nat DEF JoinedAreDone
  <2>8. ListenerGone'
    BY ONLY <2>5 DEF ListenerGone, Svc!RefuseBacklog
  <2> QED BY <2>1, <2>2, <2>3, <2>4, <2>6, <2>7, <2>8
<1>14. CASE JoinNext
  BY <1>14 DEF JoinNext
<1>15. ASSUME NEW status \in {"ok", "panic"}, EndProcess(status) PROVE IInv'
  <2>1. TypeOK'
    <3>1. conn' \in [Conn -> Svc!ConnState] /\ peer' \in [Conn -> SUBSET {"sent", "gone"}]
      BY ONLY <1>15, TypeOK
      DEF EndProcess, TypeOK, ForgetClosed, Svc!RefuseBacklog, Svc!ConnState, Svc!Fate
    <3>2. /\ loc' = loc /\ held' = held /\ tx' = tx /\ listener' = FALSE
          /\ why' = why /\ joined' = joined /\ exit' \in {"ok", "panic"}
      BY ONLY <1>15 DEF EndProcess
    <3> QED BY ONLY <1>t, TypeOK, <3>1, <3>2 DEF TypeOK
  <2>2. StreamHasOneOwner'
    BY <1>15 DEF EndProcess, Svc!RefuseBacklog
  <2>3. /\ OutcomeOfEnded' /\ HeldAtLocation' /\ AcceptorLeft' /\ SenderGone'
        /\ ShutdownByPanic' /\ ListenerGone' /\ JoinedAreDone'
    BY <1>15 DEF EndProcess, Svc!RefuseBacklog
  <2> QED BY <2>1, <2>2, <2>3
<1>16. ASSUME NEW c \in Conn, Connect(c) PROVE IInv'
  BY <1>16 DEF Connect
<1>17. ASSUME NEW c \in Conn, Send(c) \/ HangUp(c) PROVE IInv'
  BY <1>17 DEF Send, HangUp
<1>18. CASE UNCHANGED vars
  BY <1>18 DEF vars
<1>19. ASSUME NEW reason \in Reason \ {"none"},
              At(Acceptor, "check") \/ At(Acceptor, "send"),
              reason \in {"shutdown", "disconnected"}
                => data # None /\ outcome[data] = "panic",
              LeaveLoop(reason)
       PROVE  IInv'
  <2>1. TypeOK'
    BY <1>19 DEF LeaveLoop, DropStream
  <2>2. StreamHasOneOwner'
    BY <1>19 DEF LeaveLoop, DropStream
  <2>3. /\ OutcomeOfEnded' /\ HeldAtLocation' /\ AcceptorLeft' /\ SenderGone'
        /\ ShutdownByPanic' /\ ListenerGone' /\ JoinedAreDone'
    BY <1>19 DEF LeaveLoop, DropStream
  <2> QED BY <2>1, <2>2, <2>3
<1>20. ASSUME At(Acceptor, "check") \/ At(Acceptor, "send"), data # None
       PROVE  outcome[data] = "panic"
  <2>1. tx /\ data # Acceptor
    BY <1>20 DEF WG!PastDrop
  <2> QED BY <1>20, <2>1 DEF WG!PastDrop
<1>21. CASE AcceptorCheck
  <2>1. CASE LeaveLoop("shutdown")
    BY <1>19, <1>20, <1>21, <2>1 DEF AcceptorCheck, WG!IsShutdown
  <2>2. CASE LeaveLoop("accept_error")
    BY <1>19, <1>21, <2>2 DEF AcceptorCheck
  <2>3. CASE held[Acceptor] # None /\ loc' = [loc EXCEPT ![Acceptor] = "send"]
    BY <1>21, <2>3 DEF AcceptorCheck, LeaveLoop, DropStream
  <2> QED BY <1>21, <2>1, <2>2, <2>3 DEF AcceptorCheck
<1>22. CASE HandoffTimeout
  BY <1>19, <1>22 DEF HandoffTimeout
<1>23. CASE HandoffDisconnected
  <2>1. \E w \in Worker : pc[w] \in WG!PastDrop
    BY <1>23 DEF HandoffDisconnected, WG!PastDrop
  <2>2. data # None
    BY <2>1
  <2> QED BY <1>19, <1>20, <1>23, <2>2 DEF HandoffDisconnected
<1>24. CASE RunGroup
  <2>1. CASE WG!Spawn
    <3>1. Len(handles) \in Thread /\ pc[Len(handles)] = "new"
      BY <2>1 DEF WG!Spawn, WG!SpawnAs, Thread
    <3> QED BY <1>24, <2>1, <3>1 DEF RunGroup, WG!Spawn, WG!SpawnAs
  <2>2. CASE WG!Lock \/ WG!Check \/ WG!Wait
    BY <1>24, <2>2 DEF RunGroup, WG!Lock, WG!TakeLock, WG!WantsLock,
                         WG!Check, WG!Wait
  <2>3. CASE WG!JoinFirst
    <3>1. joined = 0 /\ Len(handles') \in Nat
      BY <2>3 DEF WG!JoinFirst, WG!JoinAt, WG!TypeOK
    <3> QED BY <1>24, <2>3, <3>1 DEF RunGroup, WG!JoinFirst, WG!JoinAt
  <2> QED BY <1>24, <2>1, <2>2, <2>3 DEF RunGroup, WG!RunStep
<1>25. ASSUME NEW w \in Worker, Handle(w) PROVE IInv'
  <2>1. CASE FinishStream(w, "closed")
    BY <1>5, <1>25, <2>1 DEF Handle
  <2>2. CASE loc' = [loc EXCEPT ![w] = "write"]
    BY <1>25, <2>2 DEF Handle, FinishStream
  <2> QED BY <1>25, <2>1, <2>2 DEF Handle
<1>26. ASSUME NEW w \in Worker, RejectRequest(w) \/ WriteResponse(w)
       PROVE  IInv'
  BY <1>5, <1>26 DEF RejectRequest, WriteResponse
<1>27. CASE AcceptorStep
  BY <1>1, <1>3, <1>4, <1>22, <1>23, <1>27 DEF AcceptorStep
<1>28. CASE MainStep
  BY <1>14, <1>15, <1>24, <1>28 DEF MainStep, MainReturns, ReturnWhen, MainUnwinds
<1>29. ASSUME NEW w \in Worker, WorkerStep(w) PROVE IInv'
  BY <1>6, <1>8, <1>26, <1>29 DEF WorkerStep
<1> HIDE DEF IInv
<1> QED
  BY <1>2, <1>7, <1>9, <1>10, <1>11, <1>12, <1>13, <1>16, <1>17, <1>18,
     <1>21, <1>25, <1>26, <1>27, <1>28, <1>29
  DEF Next, Stopped

LEMMA SpecIInv == Spec => []IInv
  BY InitIInv, NextIInv, PTL DEF Spec

(***************************************************************************)
(* Every variable of the daemon keeps its type.                            *)
(***************************************************************************)
THEOREM DaemonTypeCorrect == Spec => []TypeOK
<1>1. IInv => TypeOK
  BY DEF IInv
<1> QED BY SpecIInv, <1>1, PTL

(***************************************************************************)
(* The rendezvous neither duplicates nor loses a stream: as long as the    *)
(* process runs, an accepted connection is in the hands of exactly one     *)
(* running thread, with any number of workers and clients.                 *)
(***************************************************************************)
THEOREM StreamsHaveOneOwner == Spec => []StreamHasOneOwner
<1>1. IInv => StreamHasOneOwner
  BY DEF IInv
<1> QED BY SpecIInv, <1>1, PTL

\* When run() has returned Ok, the acceptor's closure has returned.
LEMMA OkMeansAcceptorReturned ==
  ASSUME IInv, run = "returned", result = "ok"
  PROVE  ~tx /\ outcome[Acceptor] = "ok" /\ data # None /\ outcome[data] = "ok"
<1>1. data \in Thread /\ outcome[data] = "ok"
  BY SameThreads DEF IInv, WG!IInv, WG!ResultOfRecorded, WG!RecordedAtJoin
<1>2. ~tx
  BY <1>1 DEF IInv, SenderGone
<1> QED BY <1>1, <1>2 DEF IInv, SenderGone

(***************************************************************************)
(* The graceful path is taken only after a handoff timeout or an accept    *)
(* error: a shutdown that the acceptor notices goes back to a panic.       *)
(***************************************************************************)
THEOREM GracefulExitHasCause == Spec => []GracefulCause
<1>1. IInv => GracefulCause
  <2> SUFFICES ASSUME IInv, run = "returned", result = "ok"
               PROVE  why \in {"timeout", "accept_error"}
    BY DEF GracefulCause
  <2>1. outcome[Acceptor] = "ok" /\ data # None /\ outcome[data] = "ok"
    BY OkMeansAcceptorReturned
  <2>2. pc[Acceptor] \notin {"new", "running"}
    BY <2>1, Threads DEF IInv, OutcomeOfEnded
  <2>3. why # "none"
    BY <2>2 DEF IInv, AcceptorLeft
  <2> QED BY <2>1, <2>3 DEF IInv, TypeOK, Reason, ShutdownByPanic
<1> QED BY SpecIInv, <1>1, PTL

(***************************************************************************)
(* main joins the workers only once the Sender is gone, so that a worker   *)
(* waiting for a connection cannot keep it waiting.                        *)
(***************************************************************************)
THEOREM JoinsFindChannelClosed == Spec => []ChannelClosedBeforeJoins
<1>1. IInv => ChannelClosedBeforeJoins
  BY OkMeansAcceptorReturned DEF ChannelClosedBeforeJoins
<1> QED BY SpecIInv, <1>1, PTL

-----------------------------------------------------------------------------
(* What the clients see.                                                   *)

\* Every step of the daemon is a step of the service or invisible.
LEMMA ServiceStep == IInv /\ [Next]_vars => [Svc!Next]_(Svc!vars)
<1> SUFFICES ASSUME IInv, [Next]_vars PROVE [Svc!Next]_(Svc!vars)
  OBVIOUS
<1>t. /\ exit \in {"none", "ok", "panic"}
      /\ conn \in [Conn -> Svc!ConnState]
      /\ held \in [Thread -> Conn \cup {None}]
      /\ pc \in [Thread -> WG!ThreadLocation]
  BY GroupFacts DEF IInv, TypeOK
<1>s. ASSUME UNCHANGED <<conn, exit, listener, why>>
      PROVE  UNCHANGED Svc!vars
  BY <1>s DEF Svc!vars, Phase
<1>a. At(Acceptor, "accept") \/ At(Acceptor, "check") \/ At(Acceptor, "send")
        => Phase = "serving" /\ exit = "none" /\ listener
  BY DEF IInv, At, AcceptorLeft, ListenerGone, Phase
<1>r. exit = "none" => Phase \in Svc!Running
  BY DEF Phase, Svc!Running
<1>1. ASSUME NEW c \in Conn, AcceptConn(c) PROVE Svc!Accept(c)
  BY <1>1, <1>a DEF AcceptConn, Svc!Accept, Phase
<1>2. ASSUME At(Acceptor, "check") \/ At(Acceptor, "send"),
             NEW reason \in Reason \ {"none"}, LeaveLoop(reason)
      PROVE  Svc!StopAccepting
  <2>1. Phase = "serving" /\ Phase' = "draining"
    BY <1>2, <1>a DEF LeaveLoop, DropStream, Phase
  <2>2. CASE held[Acceptor] = None
    <3>1. conn' = conn
      BY <1>2, <1>t, <2>2 DEF LeaveLoop, DropStream
    <3> QED BY <2>1, <3>1 DEF Svc!StopAccepting
  <2>3. CASE held[Acceptor] # None
    <3>1. held[Acceptor] \in Conn /\ conn[held[Acceptor]] = "open"
      BY <1>2, <1>a, <1>t, <2>3, Threads DEF IInv, StreamHasOneOwner, At
    <3>2. conn' = [conn EXCEPT ![held[Acceptor]] = "discarded"]
      BY <1>2, <1>t, <3>1 DEF LeaveLoop, DropStream
    <3> QED BY <2>1, <3>1, <3>2 DEF Svc!StopAccepting
  <2> QED BY <2>2, <2>3
<1>3. ASSUME NEW w \in Worker, At(w, "read") \/ At(w, "handle") \/ At(w, "write"),
             NEW fate \in {"answered", "closed", "unwound"},
             conn' = [conn EXCEPT ![held[w]] = fate],
             UNCHANGED <<exit, listener, why>>
      PROVE  \E c \in Conn : Svc!Finish(c)
  <2>1. held[w] \in Conn /\ conn[held[w]] = "open" /\ exit = "none"
    BY <1>3, <1>t, Threads DEF IInv, HeldAtLocation, StreamHasOneOwner, At
  <2>2. UNCHANGED Phase
    BY <1>3 DEF Phase
  <2> QED BY <1>3, <1>r, <2>1, <2>2 DEF Svc!Finish
<1>4. ASSUME NEW t \in Thread, End(t) PROVE [Svc!Next]_(Svc!vars)
  <2>1. CASE t = Acceptor
    <3>1. listener /\ exit = "none" /\ ~listener' /\ exit' = "none"
      BY <1>4, <2>1 DEF End, WG!End, IInv, AcceptorLeft, ListenerGone
    <3> QED BY <1>4, <2>1, <3>1 DEF End, Phase, Svc!CloseListener, Svc!Next
  <2>2. CASE t # Acceptor
    BY <1>4, <1>s, <2>2 DEF End
  <2> QED BY <2>1, <2>2
<1>5. ASSUME SpawnPanics PROVE Svc!CloseListener
  <2>1. pc[Acceptor] = "new" /\ run = "spawn"
    BY <1>5, GroupFacts
    DEF IInv, SpawnPanics, WG!SpawnPanics, Acceptor, Thread
  <2>2. listener /\ exit = "none" /\ ~listener' /\ exit' = "none"
    BY <1>5, <2>1 DEF SpawnPanics, IInv, ListenerGone
  <2> QED BY <1>5, <2>2 DEF SpawnPanics, Phase, Svc!CloseListener
<1>6. ASSUME MainReturns PROVE Svc!Exit
  <2>1. \A t \in Thread : pc[t] = "done"
    <3>1. pc[data] = "done" /\ WG!ToSet(handles) = Thread \ {data}
      BY <1>6, SameThreads
      DEF MainReturns, ReturnWhen, IInv, WG!IInv, WG!ResultOfRecorded,
          WG!RestIsEveryOther
    <3>2. \A i \in 1 .. Len(handles) : pc[handles[i]] = "done"
      BY <1>6 DEF MainReturns, ReturnWhen, IInv, JoinedAreDone
    <3>3. handles \in Seq(Thread)
      BY SameThreads DEF IInv, WG!IInv, WG!TypeOK
    <3> QED BY <3>1, <3>2, <3>3 DEF WG!ToSet
  <2>2. \A c \in Conn : conn[c] # "open"
    BY <1>6, <2>1 DEF MainReturns, ReturnWhen, IInv, StreamHasOneOwner
  <2>3. Phase = "closed" /\ Phase' = "exited"
    BY <1>6, <2>1, Threads
    DEF MainReturns, ReturnWhen, EndProcess, IInv, ListenerGone, Phase
  <2> QED BY <1>6, <2>2, <2>3 DEF MainReturns, ReturnWhen, EndProcess, Svc!Exit,
                                  Svc!EndProcess
<1>7. ASSUME MainUnwinds PROVE Svc!Abort
  BY <1>7, <1>r DEF MainUnwinds, EndProcess, Svc!Abort, Svc!EndProcess, Phase
<1>8. ASSUME NEW c \in Conn, Connect(c) PROVE Svc!Connect(c)
  <2>1. UNCHANGED Phase
    BY <1>8 DEF Connect, threadVars, Phase
  <2>2. listener <=> Phase \in {"serving", "draining"}
    BY <1>t DEF IInv, TypeOK, ListenerGone, Phase
  <2> QED BY <1>8, <2>1, <2>2 DEF Connect, Svc!Connect
<1>9. CASE AcceptorStep \/ AcceptFails \/ AcceptorCheck
  <2>1. ASSUME NEW c \in Conn, AcceptConn(c) PROVE Svc!Next
    BY <1>1, <2>1 DEF Svc!Next
  <2>2. ASSUME NEW w \in Worker, Handoff(w) PROVE UNCHANGED Svc!vars
    BY <1>s, <2>2 DEF Handoff, PassStream, clientVars
  <2>3. CASE HandoffTimeout
    BY <1>2, <2>3 DEF HandoffTimeout, Reason, Svc!Next
  <2>4. CASE HandoffDisconnected
    BY <1>2, <2>4 DEF HandoffDisconnected, Reason, Svc!Next
  <2>5. CASE DropSender
    BY <1>s, <2>5 DEF DropSender, EndAcceptor, clientVars
  <2>6. CASE AcceptFails
    BY <1>s, <2>6 DEF AcceptFails, clientVars
  <2>7. CASE AcceptorCheck
    <3>1. CASE LeaveLoop("shutdown")
      BY <1>2, <2>7, <3>1 DEF AcceptorCheck, Reason, Svc!Next
    <3>2. CASE LeaveLoop("accept_error")
      BY <1>2, <2>7, <3>2 DEF AcceptorCheck, Reason, Svc!Next
    <3>3. CASE UNCHANGED <<conn, exit, listener, why>>
      BY <1>s, <3>3
    <3> QED BY <2>7, <3>1, <3>2, <3>3 DEF AcceptorCheck, clientVars
  <2> QED BY <1>9, <2>1, <2>2, <2>3, <2>4, <2>5, <2>6, <2>7 DEF AcceptorStep
<1>10. ASSUME NEW w \in Worker,
              \/ WorkerStep(w) \/ Handle(w)
              \/ WriteResponse(w) \/ WorkerPanic(w)
       PROVE  [Svc!Next]_(Svc!vars)
  <2>1. ASSUME At(w, "read") \/ At(w, "handle") \/ At(w, "write"),
               NEW fate \in {"answered", "closed"}, FinishStream(w, fate)
        PROVE  Svc!Next
    <3>1. /\ conn' = [conn EXCEPT ![held[w]] = fate]
          /\ UNCHANGED <<exit, listener, why>>
      BY <2>1 DEF FinishStream
    <3>2. \E c \in Conn : Svc!Finish(c)
      BY <1>3, <2>1, <3>1
    <3> QED BY <3>2 DEF Svc!Next
  <2>2. CASE RejectRequest(w)
    BY <2>1, <2>2 DEF RejectRequest
  <2>3. CASE ReadRequest(w)
    BY <1>s, <2>3 DEF ReadRequest, clientVars
  <2>4. CASE RecvDisconnected(w)
    BY <1>s, <2>4 DEF RecvDisconnected, threadVars, clientVars
  <2>5. CASE Handle(w)
    <3>1. CASE FinishStream(w, "closed")
      BY <2>1, <2>5, <3>1 DEF Handle
    <3>2. CASE UNCHANGED <<conn, exit, listener, why>>
      BY <1>s, <3>2
    <3> QED BY <2>5, <3>1, <3>2 DEF Handle, clientVars
  <2>6. CASE WriteResponse(w)
    BY <2>1, <2>6 DEF WriteResponse
  <2>7. CASE WorkerPanic(w)
    <3>1. /\ At(w, "read") \/ At(w, "handle")
          /\ conn' = [conn EXCEPT ![held[w]] = "unwound"]
          /\ UNCHANGED <<exit, listener, why>>
      BY <2>7 DEF WorkerPanic
    <3>2. \E c \in Conn : Svc!Finish(c)
      BY <1>3, <3>1
    <3> QED BY <3>2 DEF Svc!Next
  <2> QED BY <1>10, <2>2, <2>3, <2>4, <2>5, <2>6, <2>7 DEF WorkerStep
<1>11. ASSUME NEW t \in Thread, ContextDrop(t) \/ Notify(t)
       PROVE  UNCHANGED Svc!vars
  BY <1>s, <1>11 DEF ContextDrop, Notify, threadVars, clientVars
<1>12. CASE MainStep \/ Wakeup \/ SpawnPanics
  <2>1. CASE RunGroup \/ JoinNext \/ Wakeup
    BY <1>s, <2>1 DEF RunGroup, JoinNext, Wakeup, threadVars, clientVars
  <2>2. CASE MainReturns \/ MainUnwinds \/ SpawnPanics
    BY <1>5, <1>6, <1>7, <2>2 DEF Svc!Next
  <2> QED BY <1>12, <2>1, <2>2 DEF MainStep
<1>13. ASSUME NEW c \in Conn, Connect(c) \/ Send(c) \/ HangUp(c)
       PROVE  [Svc!Next]_(Svc!vars)
  <2>1. CASE Connect(c)
    BY <1>8, <2>1 DEF Svc!Next
  <2>2. CASE Send(c) \/ HangUp(c)
    BY <1>s, <2>2 DEF Send, HangUp, threadVars
  <2> QED BY <1>13, <2>1, <2>2
<1>14. CASE UNCHANGED vars
  BY <1>s, <1>14 DEF vars, threadVars, clientVars
<1> QED BY <1>4, <1>9, <1>10, <1>11, <1>12, <1>13, <1>14 DEF Next, Stopped

(***************************************************************************)
(* The daemon implements Service.tla, for any number of workers and        *)
(* clients: what is proved about the service holds of it.                  *)
(***************************************************************************)
THEOREM DaemonImplementsService == Spec => ImplementsService
<1>1. Init => Svc!Init
  BY DEF Init, Svc!Init, Phase
<1> QED BY <1>1, SpecIInv, ServiceStep, PTL DEF Spec, ImplementsService, Svc!Spec

-----------------------------------------------------------------------------
(* What ServiceProofs proves of the service holds of the daemon.           *)

SvcP == INSTANCE ServiceProofs WITH phase <- Phase

LEMMA SameServiceInvariant == Svc!IInv <=> SvcP!IInv
  BY DEF Svc!IInv, Svc!TypeOK, Svc!OneDiscardAtMost, Svc!GracefulDrain,
         Svc!NoDiscardWhileServing, Svc!NoCutWhileRunning, Svc!ConnState,
         Svc!Fate, Svc!Phase, Svc!Running,
         SvcP!IInv, SvcP!TypeOK, SvcP!OneDiscardAtMost, SvcP!GracefulDrain,
         SvcP!NoDiscardWhileServing, SvcP!NoCutWhileRunning, SvcP!ConnState,
         SvcP!Fate, SvcP!Phase, SvcP!Running

LEMMA SameServiceNext == [Svc!Next]_(Svc!vars) => [SvcP!Next]_(SvcP!vars)
  BY DEF Svc!Next, Svc!Connect, Svc!Accept, Svc!Finish, Svc!StopAccepting,
         Svc!CloseListener, Svc!Exit, Svc!Abort, Svc!EndProcess,
         Svc!RefuseBacklog, Svc!Running, Svc!vars,
         SvcP!Next, SvcP!Connect, SvcP!Accept, SvcP!Finish, SvcP!StopAccepting,
         SvcP!CloseListener, SvcP!Exit, SvcP!Abort, SvcP!EndProcess,
         SvcP!RefuseBacklog, SvcP!Running, SvcP!vars

LEMMA SpecServiceIInv == Spec => []SvcP!IInv
<1>1. Init => SvcP!IInv
  <2>1. Init => SvcP!Init
    BY DEF Init, SvcP!Init, Phase
  <2> QED BY <2>1, SvcP!InitIInv
<1>2. IInv /\ SvcP!IInv /\ [Next]_vars => SvcP!IInv'
  BY ServiceStep, SameServiceNext, SvcP!NextIInv
<1> QED BY <1>1, <1>2, SpecIInv, PTL DEF Spec

(***************************************************************************)
(* With any number of workers and clients, the acceptor turns away at most *)
(* one client that it has accepted.                                        *)
(***************************************************************************)
THEOREM DaemonTurnsAwayOne == Spec => []OneDiscardAtMost
<1>1. SvcP!IInv => OneDiscardAtMost
  BY SameServiceInvariant DEF Svc!IInv, OneDiscardAtMost
<1> QED BY <1>1, SpecServiceIInv, PTL

(***************************************************************************)
(* With any number of workers and clients, no client is cut off when main  *)
(* returns Ok.                                                             *)
(***************************************************************************)
THEOREM DaemonCutsNobody == Spec => []GracefulDrain
<1>1. SvcP!IInv => GracefulDrain
  BY SameServiceInvariant DEF Svc!IInv, GracefulDrain
<1> QED BY <1>1, SpecServiceIInv, PTL

(***************************************************************************)
(* With any number of workers and clients, a connection ends once.         *)
(***************************************************************************)
THEOREM DaemonFateIsFinal == Spec => FateIsFinal
<1> DEFINE Final == \A c \in Conn : conn[c] \in Svc!Fate => conn'[c] = conn[c]
<1>1. IInv /\ SvcP!IInv /\ [Next]_vars => [Final]_(Svc!vars)
  <2>1. SvcP!IInv => SvcP!TypeOK
    BY DEF SvcP!IInv
  <2>2. SvcP!TypeOK /\ [SvcP!Next]_(SvcP!vars)
          => [\A c \in Conn : conn[c] \in SvcP!Fate => conn'[c] = conn[c]]_(SvcP!vars)
    BY SvcP!FateStep
  <2> QED BY <2>1, <2>2, ServiceStep, SameServiceNext
          DEF Svc!Fate, SvcP!Fate, Svc!vars, SvcP!vars
<1> QED BY <1>1, SpecIInv, SpecServiceIInv, PTL DEF Spec, FateIsFinal, Svc!FateIsFinal
=============================================================================
