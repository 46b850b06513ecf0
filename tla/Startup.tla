------------------------------- MODULE Startup -------------------------------
(***************************************************************************)
(* src/main.rs from the first line of main, and nsncd.service around it:   *)
(* one incarnation of the daemon after the other.  Each one boots, with a  *)
(* socket file that the one before it may have left behind, tells systemd  *)
(* that it is ready, serves as Service.tla says, and ends for any reason;  *)
(* systemd (Restart=always) starts the next.  Clients connect at any time. *)
(*                                                                         *)
(* `phase' before the first bind is that of a process that has exited.     *)
(***************************************************************************)
CONSTANTS Conn,       \* the connections clients may open, once each
          Privileged  \* those of clients that the mode of a file does not stop

ASSUME StartupAssumption == Privileged \subseteq Conn

VARIABLES at,     \* where main is
          ready,  \* has systemd got this process' READY=1?
          file,   \* what is at SOCKET_PATH
          conn, phase  \* the Service's

vars == <<at, ready, file, conn, phase>>

Svc == INSTANCE Service

Boot == {"config", "dir", "unlink", "bind", "chmod", "notify"}
File == {"absent", "private", "public"}

TypeOK == /\ at \in Boot \cup {"down", "run"}
          /\ ready \in BOOLEAN
          /\ file \in File
          /\ Svc!TypeOK

\* The machine may have run nsncd before.
Init == /\ at = "down"
        /\ ready = FALSE
        /\ file \in File
        /\ conn = [c \in Conn |-> "idle"]
        /\ phase = "exited"

-----------------------------------------------------------------------------
(* main, up to wg.run().  Each step is one that may fail; a `?' returns    *)
(* the error, which ends the process.                                      *)

Passes(from, to) == at = from /\ at' = to

\* The end of the process.  Nobody unlinks the socket file.
End(how) == /\ Svc!EndProcess(how)
            /\ at' = "down"
            /\ ready' = FALSE
            /\ UNCHANGED file

ReadConfig == Passes("config", "dir") /\ UNCHANGED <<ready, file, conn, phase>>

CreateDir == Passes("dir", "unlink") /\ UNCHANGED <<ready, file, conn, phase>>

\* Mutant: the file of an earlier process stays.
KeepsFile == Passes("unlink", "bind") /\ UNCHANGED <<ready, file, conn, phase>>

RemoveFile == /\ Passes("unlink", "bind")
              /\ file' = "absent"
              /\ UNCHANGED <<ready, conn, phase>>

\* The error of remove_file is ignored, also when there is a file.
RemoveFails == /\ Passes("unlink", "bind")
               /\ UNCHANGED <<ready, file, conn, phase>>

\* UnixListener::bind also listens: from here on the kernel queues connections.
\* The umask takes the permission to connect away from other users.
Bind == /\ Passes("bind", "chmod")
        /\ file = "absent"
        /\ file' = "private"
        /\ phase' = "serving"
        /\ UNCHANGED <<ready, conn>>

\* EADDRINUSE
BindInUse == at = "bind" /\ file # "absent" /\ End("aborted")

IgnoresMode ==  \* mutant: set_permissions(..).ok(), which failed
  Passes("chmod", "notify") /\ UNCHANGED <<ready, file, conn, phase>>

SetPermissions == /\ Passes("chmod", "notify")
                  /\ file' = "public"
                  /\ UNCHANGED <<ready, conn, phase>>

BootFails == at \in {"config", "dir", "bind", "chmod"} /\ End("aborted")

WaitsForSystemd ==  \* mutant: main waits until systemd has the message
  /\ ready' \in BOOLEAN
  /\ Passes("notify", IF ready' THEN "run" ELSE "waiting")
  /\ UNCHANGED <<file, conn, phase>>

\* `let _ = sd_notify::notify(..)': the message may get lost.
Notify == /\ Passes("notify", "run")
          /\ ready' \in BOOLEAN
          /\ UNCHANGED <<file, conn, phase>>

-----------------------------------------------------------------------------
(* main, in wg.run() and after it.                                         *)

Serve(step) == at = "run" /\ step /\ UNCHANGED <<at, ready, file>>

AcceptConn(c) == Serve(Svc!Accept(c))
FinishConn(c) == Serve(Svc!Finish(c))
StopAccepting == Serve(Svc!StopAccepting)
CloseListener == Serve(Svc!CloseListener)
Exit == at = "run" /\ Svc!Exit /\ End("exited")

\* A panic, a signal, or systemd, which kills a process that is not ready in
\* time, at any moment.
Crash == at # "down" /\ End("aborted")

-----------------------------------------------------------------------------
(* systemd and the clients.                                                *)

Start == Passes("down", "config") /\ UNCHANGED <<ready, file, conn, phase>>

\* Whether a client gets past the file, the socket behind it being another
\* question.
Admitted(c) == file = "public" \/ (file = "private" /\ c \in Privileged)

Connect(c) == /\ UNCHANGED <<at, ready, file>>
              /\ \/ Admitted(c) /\ Svc!Connect(c)
                 \/ /\ ~Admitted(c)
                    /\ conn[c] = "idle"
                    /\ conn' = [conn EXCEPT ![c] = "refused"]
                    /\ UNCHANGED phase

Next == \/ Start
        \/ ReadConfig \/ CreateDir \/ RemoveFile \/ RemoveFails
        \/ Bind \/ BindInUse \/ SetPermissions \/ BootFails \/ Notify
        \/ \E c \in Conn : Connect(c) \/ AcceptConn(c) \/ FinishConn(c)
        \/ StopAccepting \/ CloseListener \/ Exit
        \/ Crash

Spec == Init /\ [][Next]_vars

(***************************************************************************)
(* systemd starts the next process (its limit on the rate of restarts      *)
(* aside), and what can fail at boot does not fail every time; a process   *)
(* that crashes in between may make a step possible only now and then.     *)
(* READY may be lost every time.  A process that serves does what Daemon   *)
(* does when clients and lookups respond.                                  *)
(***************************************************************************)
BootFairness == /\ WF_vars(Start)
                /\ SF_vars(ReadConfig) /\ SF_vars(CreateDir)
                /\ SF_vars(RemoveFile)
                /\ SF_vars(Bind) /\ WF_vars(BindInUse)
                /\ SF_vars(SetPermissions)
                /\ SF_vars(Notify)

ServiceFairness ==
  /\ \A c \in Conn : WF_vars(AcceptConn(c)) /\ WF_vars(FinishConn(c))
  /\ WF_vars(phase = "draining" /\ CloseListener)
  /\ WF_vars(Exit)

FairSpec == Spec /\ BootFairness /\ ServiceFairness

-----------------------------------------------------------------------------
(***************************************************************************)
(* When systemd takes nsncd for started, and starts what depends on it,    *)
(* every user can connect: the path leads to the socket of this process,   *)
(* and no client is turned away by a file as long as the listener is open. *)
(***************************************************************************)
ReadyMeansReachable ==
  ready /\ phase \in {"serving", "draining"} => \A c \in Conn : Admitted(c)

\* The inductive invariant: what main has done when it gets somewhere, and a
\* process that is not there has no listener and no connection.
BootIsInOrder ==
  /\ at \in {"notify", "run"} => file = "public"
  /\ at \in {"down", "config", "dir", "unlink", "bind"} =>
       phase \in {"exited", "aborted"}
  /\ ready => at = "run"
  /\ phase \in {"exited", "aborted"} =>
       \A c \in Conn : conn[c] \notin {"backlog", "open"}
IInv == TypeOK /\ BootIsInOrder

Up == at = "run" /\ phase = "serving" /\ \A c \in Conn : Admitted(c)

(***************************************************************************)
(* However a process ends, in the middle of its boot too, and whatever     *)
(* file it leaves behind, some later process serves again.  This holds     *)
(* although READY may never arrive: main ignores the failure.              *)
(***************************************************************************)
ServesAgain == []<>Up

(***************************************************************************)
(* A client that gets into the queue before there is a thread to accept it *)
(* (READY, and the socket itself, are there before wg.run()) is served or  *)
(* told: it does not wait for a process that died, or for the next one.    *)
(***************************************************************************)
WaitersAreReleased ==
  \A c \in Conn : conn[c] \in {"backlog", "open"} ~> conn[c] \in Svc!Fate
=============================================================================
