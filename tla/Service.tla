------------------------------- MODULE Service -------------------------------
(***************************************************************************)
(* What nsncd promises the clients of its socket, with no threads in it:   *)
(* where a connection can be, what can become of it, and how the phases of *)
(* the process limit that.  Daemon.tla is shown to implement this module.  *)
(***************************************************************************)
CONSTANT Conn

VARIABLES conn,  \* where each connection is, or what became of it
          phase  \* how far the process is on its way out

vars == <<conn, phase>>

\* A worker closes a stream with or without having written the reply; the
\* acceptor discards one it could not hand over; one in the listen queue is
\* refused when the socket closes; a panic drops the stream of its worker; the
\* end of the process cuts what is still open.
Fate == {"answered", "closed", "discarded", "refused", "unwound", "cut"}
ConnState == {"idle", "backlog", "open"} \cup Fate

\* Accepting; no longer accepting; not listening; main returned; main panicked.
Phase == {"serving", "draining", "closed", "exited", "aborted"}
Running == {"serving", "draining", "closed"}

TypeOK == conn \in [Conn -> ConnState] /\ phase \in Phase

Init == /\ conn = [c \in Conn |-> "idle"]
        /\ phase = "serving"

\* Closing the listening socket resets the connections in its queue.
RefuseBacklog == [c \in Conn |-> IF conn[c] = "backlog" THEN "refused"
                                                        ELSE conn[c]]

Connect(c) ==
  /\ conn[c] = "idle"
  /\ conn' = [conn EXCEPT ![c] = IF phase \in {"serving", "draining"}
                                 THEN "backlog" ELSE "refused"]
  /\ UNCHANGED phase

Accept(c) == /\ phase = "serving"
             /\ conn[c] = "backlog"
             /\ conn' = [conn EXCEPT ![c] = "open"]
             /\ UNCHANGED phase

\* A worker is through with the stream, one way or another.
Finish(c) == /\ phase \in Running
             /\ conn[c] = "open"
             /\ \E fate \in {"answered", "closed", "unwound"} :
                  conn' = [conn EXCEPT ![c] = fate]
             /\ UNCHANGED phase

\* The acceptor leaves its loop, with or without a stream in hand.
StopAccepting ==
  /\ phase = "serving"
  /\ phase' = "draining"
  /\ \/ UNCHANGED conn
     \/ \E c \in Conn : /\ conn[c] = "open"
                        /\ conn' = [conn EXCEPT ![c] = "discarded"]

CloseListener == /\ phase \in {"serving", "draining"}
                 /\ phase' = "closed"
                 /\ conn' = RefuseBacklog

EndProcess(end) ==
  /\ phase' = end
  /\ conn' = [c \in Conn |-> IF conn[c] = "open" THEN "cut"
                                                 ELSE RefuseBacklog[c]]

Exit == /\ phase = "closed"
        /\ \A c \in Conn : conn[c] # "open"
        /\ EndProcess("exited")

Abort == phase \in Running /\ EndProcess("aborted")

Next == \/ \E c \in Conn : Connect(c) \/ Accept(c) \/ Finish(c)
        \/ StopAccepting
        \/ CloseListener
        \/ Exit
        \/ Abort

Spec == Init /\ [][Next]_vars

-----------------------------------------------------------------------------
\* The acceptor stops at the first stream it fails to hand over: in the whole
\* life of the process at most one accepted client is turned away.
OneDiscardAtMost == \A c, d \in Conn :
                      conn[c] = "discarded" /\ conn[d] = "discarded" => c = d

\* "try to exit gracefully" (main): when main returns Ok, no connection that
\* a worker was serving has been cut off.
GracefulDrain == phase = "exited" => \A c \in Conn : conn[c] # "cut"

\* Two ends of a connection never both happen: what became of one is final,
\* through the worker's close, the listener's and the end of the process.
FateIsFinal == [][\A c \in Conn : conn[c] \in Fate => conn'[c] = conn[c]]_vars

\* OneDiscardAtMost is inductive together with: none before the acceptor stops.
NoDiscardWhileServing ==
  phase = "serving" => \A c \in Conn : conn[c] # "discarded"

\* GracefulDrain is inductive together with: nothing is cut while running.
NoCutWhileRunning == phase \in Running => \A c \in Conn : conn[c] # "cut"

IInv == /\ TypeOK
        /\ OneDiscardAtMost
        /\ GracefulDrain
        /\ NoDiscardWhileServing
        /\ NoCutWhileRunning
=============================================================================
