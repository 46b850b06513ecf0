---------------------------- MODULE ConfigProofs ----------------------------
(***************************************************************************)
(* Config::from_env for every environment, whatever its length and order.  *)
(***************************************************************************)
EXTENDS Config, WellFoundedInduction, TLAPS

Done == 1 .. (next - 1)  \* the entries that the loop has looked at

SetTrueBefore(group) == \E i \in Done : /\ env[i].key = "IGNORE"
                                        /\ env[i].group = group
                                        /\ env[i].value = "true"

BadNumber(entry) ==
  /\ entry.key \in {"WORKER_COUNT", "HANDOFF_TIMEOUT"}
  /\ entry.value \notin DOMAIN ParseUsize \/ ParseUsize[entry.value] = 0

(* The parts of the inductive invariant. *)

Shape == /\ env \in Seq(Entry)
         /\ next \in 1 .. (Len(env) + 1)
         /\ at \in {"vars", "worker_count", "handoff_timeout", "ok", "err", "panic"}

LoopEnded == at \in {"worker_count", "handoff_timeout", "ok"} => next = Len(env) + 1

DoneIsValid == \A i \in Done : ~BadIgnore(env[i])

IgnoredSoFar ==
  \A ty : ty \in ignored_request_types <=>
            \E g \in DOMAIN OPS_BY_DATABASE :
              SetTrueBefore(g) /\ ty \in OPS_BY_DATABASE[g]

RefusedForCause ==
  at = "err" => \E i \in 1 .. Len(env) : BadIgnore(env[i]) \/ BadNumber(env[i])

NumbersArePositive ==
  /\ at \in {"handoff_timeout", "ok"} => worker_count \in Nat /\ worker_count >= 1
  /\ at = "ok" => handoff_timeout \in Nat /\ handoff_timeout >= 1

IInv == /\ Shape
        /\ LoopEnded
        /\ DoneIsValid
        /\ IgnoredSoFar
        /\ RefusedForCause
        /\ NumbersArePositive

-----------------------------------------------------------------------------
\* A set of naturals that is not empty has a least element.
LEMMA LeastExists ==
  ASSUME NEW S \in SUBSET Nat, S # {}
  PROVE  \E x \in S : \A y \in S : x <= y
<1>1. PICK x \in S : \A y \in S : <<y, x>> \notin OpToRel(<, Nat)
  BY NatLessThanWellFounded, WFMin
<1>2. \A y \in S : ~(y < x)
  BY <1>1 DEF OpToRel
<1>3. \A y \in S : x <= y
  <2> SUFFICES ASSUME NEW y \in S PROVE x <= y
    OBVIOUS
  <2>1. x \in Nat /\ y \in Nat
    OBVIOUS
  <2> QED  BY <2>1, <1>2
<1> QED  BY <1>3

\* env::var finds an entry with the key it looks for, if it finds one at all.
LEMMA FirstHasKey ==
  ASSUME Shape, NEW key, First(key) # 0
  PROVE  /\ First(key) \in 1 .. Len(env)
         /\ env[First(key)].key = key
<1> DEFINE I == {i \in 1 .. Len(env) : env[i].key = key}
<1>1. First(key) = IF I # {} THEN Min(I) ELSE 0
  BY DEF First, SelectInSeq
<1>2. I # {} /\ I \in SUBSET Nat
  BY <1>1 DEF Shape
<1>3. \E x \in I : \A y \in I : x <= y
  BY <1>2, LeastExists
<1>4. Min(I) \in I
  BY <1>3 DEF Min
<1> QED  BY <1>1, <1>2, <1>4

\* env_positive_usize returns the default, a positive number, or an error, and
\* the error only for an entry that is to blame.
LEMMA PositiveOrBlamed ==
  ASSUME Shape, NEW key \in {"WORKER_COUNT", "HANDOFF_TIMEOUT"},
         NEW default \in Nat \ {0}
  PROVE  LET n == env_positive_usize(key, default)
         IN  \/ n \in Nat /\ n >= 1
             \/ n = -1 /\ \E i \in 1 .. Len(env) : BadNumber(env[i])
<1>1. CASE First(key) = 0
  BY <1>1 DEF env_positive_usize
<1>2. CASE First(key) # 0
  <2> DEFINE s == env[First(key)].value
  <2>1. First(key) \in 1 .. Len(env) /\ env[First(key)].key = key
    BY <1>2, FirstHasKey
  <2>2. CASE Positive(s)
    BY <1>2, <2>2, ConfigAssumption DEF env_positive_usize, Positive
  <2>3. CASE ~Positive(s)
    <3>1. env_positive_usize(key, default) = -1
      BY <1>2, <2>3 DEF env_positive_usize
    <3>2. BadNumber(env[First(key)])
      BY <2>1, <2>3, ConfigAssumption DEF Positive, BadNumber
    <3> QED  BY <2>1, <3>1, <3>2
  <2> QED  BY <2>2, <2>3
<1> QED  BY <1>1, <1>2

LEMMA InitInv == Init => IInv
<1> SUFFICES ASSUME Init PROVE IInv
  OBVIOUS
<1>1. env \in Seq(Entry)
  BY ConfigAssumption DEF Init
<1>2. Shape
  BY <1>1 DEF Init, Shape
<1>3. Done = {}
  BY DEF Init, Done
<1>4. DoneIsValid /\ IgnoredSoFar
  BY <1>3 DEF Init, DoneIsValid, IgnoredSoFar, SetTrueBefore
<1> QED  BY <1>2, <1>4
         DEF Init, IInv, LoopEnded, RefusedForCause, NumbersArePositive

\* A step that leaves the loop's variables alone and reports a cause for an error.
LEMMA KeepsLoop ==
  ASSUME IInv, UNCHANGED <<env, next, ignored_request_types>>,
         Shape', LoopEnded', RefusedForCause', NumbersArePositive'
  PROVE  IInv'
<1>1. DoneIsValid'
  BY DEF IInv, DoneIsValid, Done, BadIgnore
<1>2. IgnoredSoFar'
  BY DEF IInv, IgnoredSoFar, SetTrueBefore, Done
<1> QED  BY <1>1, <1>2 DEF IInv

LEMMA ReadVarInv == IInv /\ ReadVar => IInv'
<1> SUFFICES ASSUME IInv, ReadVar PROVE IInv'
  OBVIOUS
<1> DEFINE entry == env[next]
<1>1. /\ at = "vars" /\ next \in 1 .. Len(env)
      /\ entry \in Entry
      /\ Done' = 1 .. (next' - 1) /\ env' = env
  BY DEF IInv, Shape, ReadVar, Fail, Skip, Insert, InsertInto, Done
<1>2. CASE Fail("panic")
  BY <1>1, <1>2, KeepsLoop DEF Fail, IInv, Shape, LoopEnded, RefusedForCause,
                               NumbersArePositive
<1>3. CASE Fail("err") /\ BadIgnore(entry)
  <2>1. RefusedForCause'
    BY <1>1, <1>3 DEF Fail, RefusedForCause, BadIgnore
  <2> QED  BY <1>1, <1>3, <2>1, KeepsLoop
           DEF Fail, IInv, Shape, LoopEnded, NumbersArePositive
<1>4. CASE next' = next + 1 /\ ~BadIgnore(entry) /\ IgnoredSoFar'
           /\ UNCHANGED <<at, env, worker_count, handoff_timeout>>
  <2>1. Done' = Done \cup {next}
    BY <1>1, <1>4 DEF Done
  <2>2. DoneIsValid'
    BY <1>1, <1>4, <2>1 DEF IInv, DoneIsValid, BadIgnore
  <2> QED  BY <1>1, <1>4, <2>2 DEF IInv, Shape, LoopEnded, RefusedForCause,
                                   NumbersArePositive
<1>5. CASE entry.key # "IGNORE" /\ Skip
  <2>1. Done' = Done \cup {next}
    BY <1>1, <1>5 DEF Skip, Done
  <2>2. \A g : SetTrueBefore(g)' <=> SetTrueBefore(g)
    BY <1>1, <1>5, <2>1 DEF SetTrueBefore
  <2>3. IgnoredSoFar'
    BY <1>5, <2>2 DEF IInv, IgnoredSoFar, Skip
  <2> QED  BY <1>4, <1>5, <2>3 DEF Skip, BadIgnore
<1>6. CASE /\ entry.key = "IGNORE" /\ entry.group \in DOMAIN OPS_BY_DATABASE
           /\ entry.value \in DOMAIN ParseBool /\ Insert(entry)
  <2>1. entry.value \in {"true", "false"}
    BY <1>6 DEF ParseBool
  <2>2. next' = next + 1 /\ ~BadIgnore(entry)
        /\ UNCHANGED <<at, env, worker_count, handoff_timeout>>
    BY <1>6, <2>1 DEF Insert, InsertInto, BadIgnore
  <2>3. Done' = Done \cup {next}
    BY <1>1, <2>2 DEF Done
  <2>4. CASE entry.value = "true"
    <3>1. \A g : SetTrueBefore(g)' <=> SetTrueBefore(g) \/ g = entry.group
      BY <1>1, <1>6, <2>3, <2>4 DEF SetTrueBefore
    <3>2. ignored_request_types' =
            ignored_request_types \cup OPS_BY_DATABASE[entry.group]
      BY <1>6, <2>4 DEF Insert, InsertInto, ParseBool
    <3>3. IgnoredSoFar'
      BY <1>6, <3>1, <3>2 DEF IInv, IgnoredSoFar
    <3> QED  BY <1>4, <2>2, <3>3
  <2>5. CASE entry.value = "false"
    <3>1. \A g : SetTrueBefore(g)' <=> SetTrueBefore(g)
      BY <1>1, <1>6, <2>3, <2>5 DEF SetTrueBefore
    <3>2. ignored_request_types' = ignored_request_types
      BY <1>6, <2>5 DEF Insert, InsertInto, ParseBool
    <3>3. IgnoredSoFar'
      BY <3>1, <3>2 DEF IInv, IgnoredSoFar
    <3> QED  BY <1>4, <2>2, <3>3
  <2> QED  BY <2>1, <2>4, <2>5
<1>7. DOMAIN ParseBool = {"true", "false"}
  BY DEF ParseBool
<1> QED  BY <1>1, <1>2, <1>3, <1>5, <1>6, <1>7 DEF ReadVar, BadIgnore

LEMMA NextInv == IInv /\ [Next]_vars => IInv'
<1> SUFFICES ASSUME IInv, [Next]_vars PROVE IInv'
  OBVIOUS
<1> USE DEF Shape, LoopEnded, RefusedForCause, NumbersArePositive
<1>1. CASE ReadVar
  BY <1>1, ReadVarInv
<1>2. CASE EndOfVars
  BY <1>2, KeepsLoop DEF EndOfVars, IInv
<1>3. CASE ReadWorkerCount
  <2>1. at = "worker_count" /\ Shape
    BY <1>3 DEF ReadWorkerCount, IInv
  <2> DEFINE n == env_positive_usize("WORKER_COUNT", 8)
  <2>2. \/ n \in Nat /\ n >= 1
        \/ n = -1 /\ \E i \in 1 .. Len(env) : BadNumber(env[i])
    BY <2>1, PositiveOrBlamed
  <2>3. CASE n = -1 /\ Fail("err")
    BY <2>1, <2>2, <2>3, KeepsLoop DEF Fail, IInv, BadNumber, BadIgnore
  <2>4. CASE n # -1 /\ ~Fail("err")
    BY <1>3, <2>1, <2>2, <2>4, KeepsLoop DEF ReadWorkerCount, IInv
  <2> QED  BY <1>3, <2>3, <2>4 DEF ReadWorkerCount, Fail
<1>4. CASE ReadHandoffTimeout
  <2>1. at = "handoff_timeout" /\ Shape
    BY <1>4 DEF ReadHandoffTimeout, IInv
  <2> DEFINE n == env_positive_usize("HANDOFF_TIMEOUT", 3)
  <2>2. \/ n \in Nat /\ n >= 1
        \/ n = -1 /\ \E i \in 1 .. Len(env) : BadNumber(env[i])
    BY <2>1, PositiveOrBlamed
  <2>3. CASE n = -1 /\ Fail("err")
    BY <2>1, <2>2, <2>3, KeepsLoop DEF Fail, IInv, BadNumber, BadIgnore
  <2>4. CASE n # -1 /\ ~Fail("err")
    BY <1>4, <2>1, <2>2, <2>4, KeepsLoop DEF ReadHandoffTimeout, IInv
  <2> QED  BY <1>4, <2>3, <2>4 DEF ReadHandoffTimeout, Fail
<1>5. CASE UNCHANGED vars
  BY <1>5, KeepsLoop DEF vars, IInv
<1> QED  BY <1>1, <1>2, <1>3, <1>4, <1>5 DEF Next, Finished

LEMMA InvHolds == Spec => []IInv
BY InitInv, NextInv, PTL DEF Spec

-----------------------------------------------------------------------------
\* At the end of the loop a type is ignored exactly if a database of it is.
LEMMA IgnoredAtEnd ==
  ASSUME IInv, at = "ok"
  PROVE  ignored_request_types =
           UNION {OPS_BY_DATABASE[g] :
                    g \in {h \in DOMAIN OPS_BY_DATABASE : SetTrue(h)}}
<1>1. Done = 1 .. Len(env)
  BY DEF IInv, LoopEnded, Shape, Done
<1>2. \A g : SetTrueBefore(g) <=> SetTrue(g)
  BY <1>1 DEF SetTrueBefore, SetTrue
<1> QED  BY <1>2 DEF IInv, IgnoredSoFar

(***************************************************************************)
(* Config::from_env accepts, refuses and ignores exactly what its          *)
(* documentation says, for every environment, in whatever order and with   *)
(* whatever duplicates.                                                    *)
(***************************************************************************)
THEOREM ConfigIsRight == Spec => []ConfigIsExact
<1>1. IInv => ConfigIsExact
  <2> SUFFICES ASSUME IInv PROVE ConfigIsExact
    OBVIOUS
  <2>1. ASSUME at = "ok"
        PROVE  \A i \in 1 .. Len(env) : ~BadIgnore(env[i])
    BY <2>1 DEF IInv, LoopEnded, Shape, Done, DoneIsValid
  <2> QED  BY <2>1, IgnoredAtEnd
           DEF ConfigIsExact, IInv, RefusedForCause, BadNumber
<1> QED  BY <1>1, InvHolds, PTL

(***************************************************************************)
(* Whatever the environment, a daemon that starts has a worker and a       *)
(* handoff timeout that is not zero: env_positive_usize refuses the rest.  *)
(***************************************************************************)
THEOREM StartedDaemonCanServe == Spec => []DaemonCanServe
<1>1. IInv => DaemonCanServe
  BY DEF IInv, NumbersArePositive, DaemonCanServe
<1> QED  BY <1>1, InvHolds, PTL

\* The databases share no request type, and of the types that are about a
\* database its list leaves out only some that are never answered.
LEMMA DatabasesAreApart ==
  /\ \A g, h \in DOMAIN OPS_BY_DATABASE :
       g # h => RelatedTo(g) \cap OPS_BY_DATABASE[h] = {}
  /\ \A g \in DOMAIN OPS_BY_DATABASE : \A ty \in RelatedTo(g) :
       ty \in OPS_BY_DATABASE[g] \/ ty \in Unanswered
<1> USE DEF GETGRBYNAME, GETGRBYGID, GETHOSTBYADDR, GETHOSTBYADDRv6,
            GETHOSTBYNAME, GETHOSTBYNAMEv6, GETAI, INITGROUPS, GETNETGRENT,
            INNETGR, GETPWBYNAME, GETPWBYUID, GETSERVBYNAME, GETSERVBYPORT,
            GETFDGR, GETFDHST, GETFDNETGR, GETFDPW, GETFDSERV
<1>1. DOMAIN OPS_BY_DATABASE =
        {"GROUP", "HOSTS", "INITGROUPS", "NETGROUP", "PASSWD", "SERVICES"}
  BY DEF OPS_BY_DATABASE
<1>2. /\ OPS_BY_DATABASE["GROUP"] = {2, 3} /\ OPS_BY_DATABASE["HOSTS"] = {6, 7, 4, 5, 14}
      /\ OPS_BY_DATABASE["INITGROUPS"] = {15} /\ OPS_BY_DATABASE["NETGROUP"] = {19, 20}
      /\ OPS_BY_DATABASE["PASSWD"] = {0, 1} /\ OPS_BY_DATABASE["SERVICES"] = {16, 17}
  BY DEF OPS_BY_DATABASE
<1>3. /\ RelatedTo("GROUP") = {2, 3, 12}
      /\ RelatedTo("HOSTS") = {4, 5, 6, 7, 14, 13}
      /\ RelatedTo("INITGROUPS") = {15} /\ RelatedTo("NETGROUP") = {19, 20, 21}
      /\ RelatedTo("PASSWD") = {0, 1, 11} /\ RelatedTo("SERVICES") = {16, 17, 18}
  BY DEF RelatedTo
<1>4. {11, 12, 13, 18, 21} \subseteq Unanswered
  BY DEF Unanswered, GetFd, Unimplemented
<1>5. ASSUME NEW g \in DOMAIN OPS_BY_DATABASE, NEW h \in DOMAIN OPS_BY_DATABASE,
             g # h
      PROVE  RelatedTo(g) \cap OPS_BY_DATABASE[h] = {}
  BY <1>1, <1>2, <1>3, <1>5
<1>6. ASSUME NEW g \in DOMAIN OPS_BY_DATABASE, NEW ty \in RelatedTo(g)
      PROVE  ty \in OPS_BY_DATABASE[g] \/ ty \in Unanswered
  BY <1>1, <1>2, <1>3, <1>4, <1>6
<1> QED  BY <1>5, <1>6

(***************************************************************************)
(* Whatever the environment, nsncd answers none of the requests related to *)
(* a database that is ignored, and those of the others as before: should   *)
(* one type be in two databases' lists, this would fail.                   *)
(***************************************************************************)
THEOREM IgnoredStaysSilent == Spec => []IgnoredDatabaseIsSilent
<1>1. IInv => IgnoredDatabaseIsSilent
  <2> SUFFICES ASSUME IInv, at = "ok",
                      NEW g \in DOMAIN OPS_BY_DATABASE, NEW ty \in RelatedTo(g)
               PROVE  ty \in ignored_request_types \cup Unanswered
                        <=> SetTrue(g) \/ ty \in Unanswered
    BY DEF IgnoredDatabaseIsSilent
  <2>1. ty \in ignored_request_types <=>
          \E h \in DOMAIN OPS_BY_DATABASE : SetTrue(h) /\ ty \in OPS_BY_DATABASE[h]
    BY IgnoredAtEnd
  <2>2. \A h \in DOMAIN OPS_BY_DATABASE : ty \in OPS_BY_DATABASE[h] => h = g
    BY DatabasesAreApart
  <2>3. ty \in OPS_BY_DATABASE[g] \/ ty \in Unanswered
    BY DatabasesAreApart
  <2> QED  BY <2>1, <2>2, <2>3
<1> QED  BY <1>1, InvHolds, PTL
=============================================================================
