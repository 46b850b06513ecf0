----------------------------- MODULE WorkGroup -----------------------------
(***************************************************************************)
(* src/work_group.rs: a group of threads and the caller of run(), which    *)
(* spawns them all and then sleeps on a condition variable until the first *)
(* one has exited.                                                         *)
(*                                                                         *)
(* A thread runs a closure that is opaque here (the daemon's closures are  *)
(* in Daemon.tla).  It owns a Context, and dropping that Context, whether  *)
(* the closure returned or unwound, is what tells run() about the exit:    *)
(*                                                                         *)
(*     mtx.lock().unwrap().get_or_insert(self.thread);                     *)
(*     cond.notify_all();                                                  *)
(*                                                                         *)
(* The guard of that first statement lives for the statement only, so a    *)
(* thread's critical section is one step.  run() instead keeps its guard   *)
(* from the lock to the wait, and from the last wakeup until it returns,   *)
(* which includes the join: `lock' says whether it holds the mutex.        *)
(***************************************************************************)
EXTENDS Naturals, Sequences, SequencesExt

CONSTANTS NThreads,  \* number of closures added before run()
          None       \* the None of Option<usize>

Thread == 0 .. NThreads - 1

ASSUME WorkGroupAssumption == NThreads \in Nat /\ None \notin Thread

VARIABLES data,     \* the Option<usize> behind the mutex: who exited first
          lock,     \* does run() hold the mutex?
          run,      \* where the caller is in run()
          handles,  \* run()'s vector of JoinHandles, by thread number
          result,   \* the Result that run() returns
          pc,       \* where each thread is
          outcome   \* how each thread's closure ended

vars == <<data, lock, run, handles, result, pc, outcome>>

RunLocation == {"spawn", "relock", "check", "wait", "asleep", "join",
                "returned", "panicked"}
ThreadLocation == {"new", "running", "dropping", "notify", "ending", "done"}
Outcome == {"none", "ok", "panic"}

TypeOK == /\ data \in Thread \cup {None}
          /\ lock \in BOOLEAN
          /\ run \in RunLocation
          /\ handles \in Seq(Thread)
          /\ result \in Outcome
          /\ pc \in [Thread -> ThreadLocation]
          /\ outcome \in [Thread -> Outcome]

Init == /\ data = None
        /\ lock = FALSE
        /\ run = "spawn"
        /\ handles = <<>>
        /\ result = "none"
        /\ pc = [t \in Thread |-> "new"]
        /\ outcome = [t \in Thread |-> "none"]

-----------------------------------------------------------------------------
(* The caller, inside run().                                               *)

\* One turn of the loop over self.fs, for the given thread number.
SpawnAs(thread) == /\ run = "spawn"
                   /\ Len(handles) < NThreads
                   /\ pc' = [pc EXCEPT ![thread] = "running"]
                   /\ handles' = Append(handles, thread)
                   /\ UNCHANGED <<data, lock, run, result, outcome>>

SpawnFromOne == SpawnAs(Len(handles) + 1)  \* mutant: numbers start at 1

Spawn == SpawnAs(Len(handles))

\* thread::spawn panics when the system has no thread to give: run() unwinds.
SpawnPanics == /\ run = "spawn"
               /\ Len(handles) < NThreads
               /\ run' = "panicked"
               /\ UNCHANGED <<data, lock, handles, result, pc, outcome>>

\* The lock before the wait loop, and the one cond.wait takes on wakeup.
WantsLock == \/ run = "spawn" /\ Len(handles) = NThreads
             \/ run = "relock"

TakeLock(keeps, next) == /\ WantsLock
                         /\ ~lock
                         /\ lock' = keeps
                         /\ run' = next
                         /\ UNCHANGED <<data, handles, result, pc, outcome>>

\* Mutants: `if' in place of `while' around the wait; the slot is read without
\* keeping the mutex until the wait.
LockOnce == TakeLock(TRUE, IF run = "relock" THEN "join" ELSE "check")
LockNotHeld == TakeLock(FALSE, "check")

Lock == TakeLock(TRUE, "check")

\* while !data.is_some()
Check == /\ run = "check"
         /\ run' = IF data = None THEN "wait" ELSE "join"
         /\ UNCHANGED <<data, lock, handles, result, pc, outcome>>

\* cond.wait releases the mutex and goes to sleep in one step.
Wait == /\ run = "wait"
        /\ lock' = FALSE
        /\ run' = "asleep"
        /\ UNCHANGED <<data, handles, result, pc, outcome>>

SpuriousWakeup == /\ run = "asleep"
                  /\ run' = "relock"
                  /\ UNCHANGED <<data, lock, handles, result, pc, outcome>>

\* handles.remove(index).join(): blocks until the thread is gone; the guard is
\* dropped when run() returns.  TLA+ counts from 1.
JoinAt(i) == /\ run = "join"
             /\ pc[handles[i]] = "done"
             /\ result' = outcome[handles[i]]
             /\ handles' = RemoveAt(handles, i)
             /\ lock' = FALSE
             /\ run' = "returned"
             /\ UNCHANGED <<data, pc, outcome>>

JoinLast == JoinAt(Len(handles))  \* mutant: handles.pop()

JoinFirst == JoinAt(data + 1)

-----------------------------------------------------------------------------
(* A thread.                                                               *)

\* The closure returns or unwinds; either way its Context is dropped next.
EndClosure(t, how) == /\ pc[t] = "running"
                      /\ pc' = [pc EXCEPT ![t] = "dropping"]
                      /\ outcome' = [outcome EXCEPT ![t] = how]
                      /\ UNCHANGED <<data, lock, run, handles, result>>

Return(t) == EndClosure(t, "ok")
PanicSwallowed(t) == EndClosure(t, "ok")  \* mutant: it ends as a plain return
Panic(t) == EndClosure(t, "panic")

\* Context::drop, first statement: the slot is written under the mutex.
RecordExit(t, slot) == /\ pc[t] = "dropping"
                       /\ ~lock
                       /\ data' = slot
                       /\ pc' = [pc EXCEPT ![t] = "notify"]
                       /\ UNCHANGED <<lock, run, handles, result, outcome>>

DropInserts(t) == RecordExit(t, t)        \* mutant: insert
DropOnlyNotifies(t) == RecordExit(t, data)  \* mutant: nothing recorded

\* get_or_insert(self.thread)
ContextDrop(t) == RecordExit(t, IF data = None THEN t ELSE data)

\* Context::drop, second statement: notify_all wakes run() if it sleeps.
Notify(t) == /\ pc[t] = "notify"
             /\ run' = IF run = "asleep" THEN "relock" ELSE run
             /\ pc' = [pc EXCEPT ![t] = "ending"]
             /\ UNCHANGED <<data, lock, handles, result, outcome>>

\* What the closure captured is dropped and the thread ends.
End(t) == /\ pc[t] = "ending"
          /\ pc' = [pc EXCEPT ![t] = "done"]
          /\ UNCHANGED <<data, lock, run, handles, result, outcome>>

\* Context::is_shutdown, for a caller that can take the mutex.
CanLock == ~lock
IsShutdown == data # None

-----------------------------------------------------------------------------
RunStep == Spawn \/ Lock \/ Check \/ Wait \/ JoinFirst

\* All that is left is a caller that is out of run() and threads that ended.
Finished == /\ run \in {"returned", "panicked"}
            /\ \A t \in Thread : pc[t] \in {"new", "done"}
            /\ UNCHANGED vars

Next == \/ RunStep
        \/ SpawnPanics
        \/ SpuriousWakeup
        \/ \E t \in Thread : \/ Return(t)
                             \/ Panic(t)
                             \/ ContextDrop(t)
                             \/ Notify(t)
                             \/ End(t)
        \/ Finished

Spec == Init /\ [][Next]_vars

(***************************************************************************)
(* The operating system runs every runnable thread.  A mutex that is free  *)
(* again and again is eventually obtained: spurious wakeups make run()     *)
(* take it repeatedly, so a thread in Context::drop needs strong fairness. *)
(* Nothing is assumed about when, or whether, a closure ends.              *)
(***************************************************************************)
Fairness == /\ WF_vars(RunStep)
            /\ \A t \in Thread : /\ SF_vars(ContextDrop(t))
                                 /\ WF_vars(Notify(t))
                                 /\ WF_vars(End(t))

FairSpec == Spec /\ Fairness

-----------------------------------------------------------------------------
PastDrop == {"notify", "ending", "done"}

(***************************************************************************)
(* run() reports the thread that exited first: Context::drop records an    *)
(* exit exactly when it is the first one, so the slot is empty as long as  *)
(* no thread got past its drop, and it names one that did.                 *)
(***************************************************************************)
ExitRecorded == IF data = None
                THEN \A t \in Thread : pc[t] \notin PastDrop
                ELSE pc[data] \in PastDrop

(***************************************************************************)
(* The Result that run() returns is the one of the thread it recorded, and *)
(* that thread is gone.  The vector index and the thread number are kept   *)
(* in step by handles.len(), across the whole spawn loop.                  *)
(***************************************************************************)
ResultOfRecorded == run = "returned" => /\ pc[data] = "done"
                                        /\ result = outcome[data]
                                        /\ result # "none"

(***************************************************************************)
(* "join on the rest so that we wait on them to exit" (run(), comment):    *)
(* the vector that run() returns holds each of the other threads once.     *)
(***************************************************************************)
RestIsEveryOther == run = "returned" =>
                      /\ ToSet(handles) = Thread \ {data}
                      /\ Len(handles) = NThreads - 1

(***************************************************************************)
(* run() joins while it holds the mutex.  The joined thread must not need  *)
(* that mutex again, or both would wait forever.                           *)
(***************************************************************************)
JoinNeedsNoLock == run = "join" => /\ data \in Thread
                                   /\ pc[handles[data + 1]] \in PastDrop

\* get_or_insert: once an exit is recorded, no later exit replaces it.
FirstExitKept == [][data # None => data' = data]_vars

(***************************************************************************)
(* The inductive invariant behind the safety properties: the vector and    *)
(* the thread numbers agree while run() spawns and waits, threads not yet  *)
(* spawned are untouched, an ended closure has an outcome, and run() gets  *)
(* to the join only with an exit on record.                                *)
(***************************************************************************)
HandlesInOrder ==
  /\ run # "returned" => /\ Len(handles) <= NThreads
                         /\ \A i \in 1 .. Len(handles) : handles[i] = i - 1
  /\ run \notin {"spawn", "panicked", "returned"} => Len(handles) = NThreads
  /\ run = "spawn" => \A t \in Thread : t >= Len(handles) => pc[t] = "new"

EndedHasOutcome ==
  \A t \in Thread : pc[t] \notin {"new", "running"} => outcome[t] # "none"

RecordedAtJoin == run \in {"join", "returned"} => data \in Thread

IInv == /\ TypeOK
        /\ ExitRecorded
        /\ HandlesInOrder
        /\ EndedHasOutcome
        /\ RecordedAtJoin
        /\ ResultOfRecorded
        /\ RestIsEveryOther

(***************************************************************************)
(* No lost wakeup: once some closure has ended, run() gets out, whichever  *)
(* way the drop, the check, the wait and the notification interleave.      *)
(***************************************************************************)
ExitIsNoticed ==
  (\E t \in Thread : pc[t] = "dropping") ~> run \in {"returned", "panicked"}
=============================================================================
