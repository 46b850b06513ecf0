-------------------------- MODULE WorkGroupProofs --------------------------
(* Proofs about WorkGroup.tla, for any number of threads.                  *)
EXTENDS WorkGroup, TLAPS

USE WorkGroupAssumption DEF WorkGroupAssumption

\* Vec::remove on a vector that holds 0 .. n-1 in order takes out exactly the
\* value that is also the index, and keeps every other one.
LEMMA RemoveInOrder ==
  ASSUME handles \in Seq(Thread), Len(handles) = NThreads,
         \A i \in 1 .. Len(handles) : handles[i] = i - 1,
         NEW k \in Thread
  PROVE  /\ RemoveAt(handles, k + 1) \in Seq(Thread)
         /\ Len(RemoveAt(handles, k + 1)) = NThreads - 1
         /\ ToSet(RemoveAt(handles, k + 1)) = Thread \ {k}
<1> DEFINE s == SubSeq(handles, 1, k)
           u == SubSeq(handles, k + 2, NThreads)
           r == s \o u
<1>1. RemoveAt(handles, k + 1) = r
  BY DEF RemoveAt, Thread
<1>2. s \in Seq(Thread) /\ Len(s) = k /\ \A i \in 1 .. k : s[i] = i - 1
  BY DEF Thread
<1>3. /\ u \in Seq(Thread)
      /\ Len(u) = NThreads - k - 1
      /\ \A i \in 1 .. NThreads - k - 1 : u[i] = k + i
  BY DEF Thread
<1> HIDE DEF s, u
<1>4. /\ r \in Seq(Thread)
      /\ Len(r) = NThreads - 1
      /\ \A i \in 1 .. NThreads - 1 : r[i] = IF i <= k THEN i - 1 ELSE i
  <2>1. k \in Nat /\ NThreads \in Nat /\ k < NThreads
    BY DEF Thread
  <2>2. r \in Seq(Thread) /\ Len(r) = NThreads - 1
    BY <1>2, <1>3, <2>1
  <2>3. ASSUME NEW i \in 1 .. NThreads - 1 PROVE r[i] = IF i <= k THEN i - 1 ELSE i
    <3>1. CASE i <= k
      BY <1>2, <1>3, <2>1, <3>1
    <3>2. CASE i > k
      <4>1. i - k \in 1 .. NThreads - k - 1 /\ i = k + (i - k)
        BY <2>1, <3>2
      <4>2. r[i] = u[i - k]
        BY <1>2, <1>3, <2>1, <3>2
      <4> QED  BY <1>3, <2>1, <3>2, <4>1, <4>2
    <3>3. i <= k \/ i > k
      BY <2>1
    <3> QED  BY <3>1, <3>2, <3>3, Zenon
  <2> QED  BY <2>2, <2>3
<1> HIDE DEF r
<1>5. DOMAIN r = 1 .. NThreads - 1
  BY <1>4
<1>6. ASSUME NEW t \in Thread \ {k} PROVE t \in ToSet(r)
  <2>1. CASE t < k
    BY <1>4, <1>5, <2>1, t + 1 \in DOMAIN r, r[t + 1] = t DEF ToSet, Thread
  <2>2. CASE t > k
    BY <1>4, <1>5, <2>2, t \in DOMAIN r, r[t] = t DEF ToSet, Thread
  <2> QED BY <2>1, <2>2 DEF Thread
<1>7. ASSUME NEW t \in ToSet(r) PROVE t \in Thread \ {k}
  <2>1. PICK i \in 1 .. NThreads - 1 : t = r[i]
    BY <1>5 DEF ToSet
  <2>2. t = IF i <= k THEN i - 1 ELSE i
    BY <1>4, <2>1
  <2> QED BY <2>2 DEF Thread
<1> QED BY <1>1, <1>4, <1>6, <1>7

LEMMA InitIInv == Init => IInv
<1> SUFFICES ASSUME Init PROVE IInv
  OBVIOUS
<1>1. TypeOK
  <2>1. handles \in Seq(Thread)
    BY DEF Init
  <2>2. /\ data \in Thread \cup {None}
        /\ lock \in BOOLEAN
        /\ run \in RunLocation
        /\ result \in Outcome
    BY DEF Init, RunLocation, Outcome
  <2>3. /\ pc \in [Thread -> ThreadLocation]
        /\ outcome \in [Thread -> Outcome]
    BY DEF Init, ThreadLocation, Outcome
  <2> QED BY <2>1, <2>2, <2>3 DEF TypeOK
<1>2. HandlesInOrder
  BY DEF Init, HandlesInOrder
<1>3. ExitRecorded /\ EndedHasOutcome
  BY DEF Init, ExitRecorded, EndedHasOutcome, PastDrop
<1>4. RecordedAtJoin /\ ResultOfRecorded /\ RestIsEveryOther
  BY DEF Init, RecordedAtJoin, ResultOfRecorded, RestIsEveryOther
<1> QED BY <1>1, <1>2, <1>3, <1>4 DEF IInv

LEMMA NextIInv == IInv /\ [Next]_vars => IInv'
<1> SUFFICES ASSUME IInv, [Next]_vars PROVE IInv'
  OBVIOUS
<1> USE DEF IInv, TypeOK, ExitRecorded, HandlesInOrder, EndedHasOutcome,
            RecordedAtJoin, ResultOfRecorded, RestIsEveryOther, PastDrop,
            RunLocation, ThreadLocation, Outcome
<1>1. CASE Spawn
  BY <1>1 DEF Spawn, SpawnAs, Thread
<1>2. CASE SpawnPanics
  BY <1>2 DEF SpawnPanics
<1>3. CASE Lock
  BY <1>3 DEF Lock, TakeLock, WantsLock
<1>4. CASE Check
  BY <1>4 DEF Check
<1>5. CASE Wait
  BY <1>5 DEF Wait
<1>6. CASE SpuriousWakeup
  BY <1>6 DEF SpuriousWakeup
<1>7. CASE JoinFirst
  <2>1. data \in Thread /\ Len(handles) = NThreads
    BY <1>7 DEF JoinFirst, JoinAt
  <2>2. handles[data + 1] = data
    BY <1>7, <2>1 DEF JoinFirst, JoinAt, Thread
  <2>3. /\ handles' \in Seq(Thread)
        /\ Len(handles') = NThreads - 1
        /\ ToSet(handles') = Thread \ {data}
    BY <1>7, <2>1, RemoveInOrder DEF JoinFirst, JoinAt
  <2>4. pc[data] = "done" /\ result' = outcome[data] /\ outcome[data] # "none"
    BY <1>7, <2>1, <2>2 DEF JoinFirst, JoinAt
  <2> QED BY <1>7, <2>1, <2>3, <2>4 DEF JoinFirst, JoinAt
<1>8. ASSUME NEW t \in Thread, Return(t) \/ Panic(t) PROVE IInv'
  BY <1>8 DEF Return, Panic, EndClosure
<1>9. ASSUME NEW t \in Thread, ContextDrop(t) PROVE IInv'
  BY <1>9 DEF ContextDrop, RecordExit
<1>10. ASSUME NEW t \in Thread, Notify(t) \/ End(t) PROVE IInv'
  BY <1>10 DEF Notify, End
<1>11. CASE UNCHANGED vars
  BY <1>11 DEF vars
<1> QED
  BY <1>1, <1>2, <1>3, <1>4, <1>5, <1>6, <1>7, <1>8, <1>9, <1>10, <1>11
  DEF Next, RunStep, Finished

LEMMA SpecIInv == Spec => []IInv
  BY InitIInv, NextIInv, PTL DEF Spec

(***************************************************************************)
(* Every variable of the group keeps its type, for any number of threads:  *)
(* in particular run()'s vector holds thread numbers only.                 *)
(***************************************************************************)
THEOREM TypeCorrect == Spec => []TypeOK
<1>1. IInv => TypeOK
  BY DEF IInv
<1> QED BY SpecIInv, <1>1, PTL

(***************************************************************************)
(* Context::drop records an exit exactly when it is the first one.         *)
(***************************************************************************)
THEOREM ExitIsRecorded == Spec => []ExitRecorded
<1>1. IInv => ExitRecorded
  BY DEF IInv
<1> QED BY SpecIInv, <1>1, PTL

(***************************************************************************)
(* run() returns the Result of the thread on record, which has ended: the  *)
(* index into the vector and the thread's number never get out of step.    *)
(***************************************************************************)
THEOREM RunReturnsRecorded == Spec => []ResultOfRecorded
<1>1. IInv => ResultOfRecorded
  BY DEF IInv
<1> QED BY SpecIInv, <1>1, PTL

(***************************************************************************)
(* run() hands every other thread's handle to its caller, each one once.   *)
(***************************************************************************)
THEOREM RunReturnsTheRest == Spec => []RestIsEveryOther
<1>1. IInv => RestIsEveryOther
  BY DEF IInv
<1> QED BY SpecIInv, <1>1, PTL

(***************************************************************************)
(* The join inside run(), made with the mutex held, cannot deadlock on it: *)
(* the thread that is joined is past its own use of the mutex.             *)
(***************************************************************************)
THEOREM JoinCannotDeadlock == Spec => []JoinNeedsNoLock
<1>1. IInv => JoinNeedsNoLock
  <2> SUFFICES ASSUME IInv, run = "join"
               PROVE  data \in Thread /\ pc[handles[data + 1]] \in PastDrop
    BY DEF JoinNeedsNoLock
  <2>1. data \in Thread /\ Len(handles) = NThreads
    BY DEF IInv, RecordedAtJoin, HandlesInOrder
  <2>2. handles[data + 1] = data
    BY <2>1 DEF IInv, HandlesInOrder, Thread
  <2> QED BY <2>1, <2>2 DEF IInv, ExitRecorded
<1> QED BY SpecIInv, <1>1, PTL

(***************************************************************************)
(* The first exit stays on record: get_or_insert never overwrites it, and  *)
(* nothing else writes the slot.                                           *)
(***************************************************************************)
THEOREM FirstExitStays == Spec => FirstExitKept
<1>1. [Next]_vars => [data # None => data' = data]_vars
  BY DEF Next, RunStep, Finished, vars, Spawn, SpawnAs, SpawnPanics, Lock,
         TakeLock,         Check, Wait, SpuriousWakeup, JoinFirst, JoinAt, Return, Panic, EndClosure,
         ContextDrop, RecordExit, Notify, End
<1> QED BY <1>1, PTL DEF Spec, FirstExitKept
=============================================================================
