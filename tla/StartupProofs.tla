---------------------------- MODULE StartupProofs ----------------------------
(* Proofs about Startup.tla, for any set of connections and any number of  *)
(* restarts.                                                               *)
EXTENDS Startup, TLAPS

LEMMA InitIInv == Init => IInv
  BY DEF Init, IInv, TypeOK, BootIsInOrder, File, Svc!TypeOK, Svc!ConnState,
         Svc!Phase

\* An ended process has neither queue nor streams, and leaves the file.
LEMMA EndIInv ==
  ASSUME IInv, NEW how \in {"exited", "aborted"}, End(how)
  PROVE  IInv'
  BY DEF End, IInv, TypeOK, BootIsInOrder, Svc!EndProcess, Svc!RefuseBacklog,
         Svc!TypeOK, Svc!ConnState, Svc!Fate, Svc!Phase

LEMMA NextIInv == IInv /\ [Next]_vars => IInv'
<1> SUFFICES ASSUME IInv, [Next]_vars PROVE IInv'
  OBVIOUS
<1> USE DEF IInv, TypeOK, BootIsInOrder, Boot, File, Svc!TypeOK, Svc!Phase
<1>1. CASE Start \/ ReadConfig \/ CreateDir
  BY <1>1 DEF Start, ReadConfig, CreateDir, Passes
<1>2. CASE RemoveFile \/ RemoveFails
  BY <1>2 DEF RemoveFile, RemoveFails, Passes
<1>3. CASE Bind \/ SetPermissions \/ Notify
  BY <1>3 DEF Bind, SetPermissions, Notify, Passes
<1>4. CASE BindInUse \/ BootFails \/ Crash
  BY <1>4, EndIInv DEF BindInUse, BootFails, Crash
<1>5. CASE Exit
  BY <1>5, EndIInv DEF Exit
<1>6. ASSUME NEW c \in Conn, Connect(c) PROVE IInv'
  BY <1>6 DEF Connect, Svc!Connect, Svc!ConnState, Svc!Fate
<1>7. ASSUME NEW c \in Conn, AcceptConn(c) \/ FinishConn(c) PROVE IInv'
  BY <1>7 DEF AcceptConn, FinishConn, Serve, Svc!Accept, Svc!Finish,
              Svc!Running, Svc!ConnState, Svc!Fate
<1>8. CASE StopAccepting
  BY <1>8 DEF StopAccepting, Serve, Svc!StopAccepting, Svc!ConnState, Svc!Fate
<1>9. CASE CloseListener
  BY <1>9 DEF CloseListener, Serve, Svc!CloseListener, Svc!RefuseBacklog,
              Svc!ConnState, Svc!Fate
<1>10. CASE UNCHANGED vars
  BY <1>10 DEF vars
<1> QED BY <1>1, <1>2, <1>3, <1>4, <1>5, <1>6, <1>7, <1>8, <1>9, <1>10 DEF Next

LEMMA SpecIInv == Spec => []IInv
  BY InitIInv, NextIInv, PTL DEF Spec

(***************************************************************************)
(* Over any number of crashes, failed boots and restarts, and with any     *)
(* socket file left behind: READY has reached systemd only if every user   *)
(* can get at the socket of this very process.                             *)
(***************************************************************************)
THEOREM ReadyIsReachable == Spec => []ReadyMeansReachable
<1>1. IInv => ReadyMeansReachable
  BY DEF IInv, BootIsInOrder, ReadyMeansReachable, Admitted
<1> QED BY SpecIInv, <1>1, PTL

(***************************************************************************)
(* A process that is gone, and one that has not bound its socket yet,      *)
(* leaves no connection waiting for it.                                    *)
(***************************************************************************)
THEOREM NobodyWaitsForTheDead ==
  Spec => [](phase \in {"exited", "aborted"} =>
               \A c \in Conn : conn[c] \notin {"backlog", "open"})
<1>1. IInv => (phase \in {"exited", "aborted"} =>
                 \A c \in Conn : conn[c] \notin {"backlog", "open"})
  BY DEF IInv, BootIsInOrder
<1> QED BY SpecIInv, <1>1, PTL
=============================================================================
