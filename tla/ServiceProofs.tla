---------------------------- MODULE ServiceProofs ----------------------------
(* Proofs about Service.tla, for any set of connections.                   *)
EXTENDS Service, TLAPS

LEMMA InitIInv == Init => IInv
  BY DEF Init, IInv, TypeOK, OneDiscardAtMost, GracefulDrain,
         NoDiscardWhileServing, NoCutWhileRunning, ConnState, Phase, Running

LEMMA NextIInv == IInv /\ [Next]_vars => IInv'
<1> SUFFICES ASSUME IInv, [Next]_vars PROVE IInv'
  OBVIOUS
<1> USE DEF IInv, TypeOK, OneDiscardAtMost, GracefulDrain,
            NoDiscardWhileServing, NoCutWhileRunning, ConnState, Fate, Phase,
            Running
<1>1. ASSUME NEW c \in Conn, Connect(c) PROVE IInv'
  BY <1>1 DEF Connect
<1>2. ASSUME NEW c \in Conn, Accept(c) PROVE IInv'
  BY <1>2 DEF Accept
<1>3. ASSUME NEW c \in Conn, Finish(c) PROVE IInv'
  BY <1>3 DEF Finish
<1>4. CASE StopAccepting
  BY <1>4 DEF StopAccepting
<1>5. CASE CloseListener
  BY <1>5 DEF CloseListener, RefuseBacklog
<1>6. CASE Exit
  BY <1>6 DEF Exit, EndProcess, RefuseBacklog
<1>7. CASE Abort
  BY <1>7 DEF Abort, EndProcess, RefuseBacklog
<1>8. CASE UNCHANGED vars
  BY <1>8 DEF vars
<1> QED BY <1>1, <1>2, <1>3, <1>4, <1>5, <1>6, <1>7, <1>8 DEF Next

LEMMA SpecIInv == Spec => []IInv
  BY InitIInv, NextIInv, PTL DEF Spec

(***************************************************************************)
(* At most one accepted client is ever turned away by the acceptor, with   *)
(* any number of clients.                                                  *)
(***************************************************************************)
THEOREM AtMostOneDiscard == Spec => []OneDiscardAtMost
<1>1. IInv => OneDiscardAtMost
  BY DEF IInv
<1> QED BY SpecIInv, <1>1, PTL

(***************************************************************************)
(* When main returns Ok, no client has been cut off in the middle.         *)
(***************************************************************************)
THEOREM GracefulExitCutsNobody == Spec => []GracefulDrain
<1>1. IInv => GracefulDrain
  BY DEF IInv
<1> QED BY SpecIInv, <1>1, PTL

LEMMA FateStep ==
  TypeOK /\ [Next]_vars
    => [\A c \in Conn : conn[c] \in Fate => conn'[c] = conn[c]]_vars
  BY DEF TypeOK, Next, vars, Connect, Accept, Finish, StopAccepting,
         CloseListener, Exit, Abort, EndProcess, RefuseBacklog, ConnState, Fate

(***************************************************************************)
(* What became of a connection stays: no step gives it another end.        *)
(***************************************************************************)
THEOREM FateStays == Spec => FateIsFinal
<1>1. IInv => TypeOK
  BY DEF IInv
<1> QED BY SpecIInv, FateStep, <1>1, PTL DEF Spec, FateIsFinal
=============================================================================
