------------------------------- MODULE Config -------------------------------
(***************************************************************************)
(* src/config.rs: Config::from_env, one turn of its loop over env::vars()  *)
(* per step, then the two integer variables.                               *)
(*                                                                         *)
(* The environment is a sequence of entries; execve allows a variable to   *)
(* be there twice, and env::var returns the first.  Of a key it matters    *)
(* which variable it is, and for NSNCD_IGNORE_<group> the group; a value   *)
(* is a string, of which it matters whether it parses.  A number that does *)
(* not fit a usize does not parse.                                         *)
(***************************************************************************)
EXTENDS Handlers

CONSTANTS Environment,  \* the environments to start in
          ParseUsize    \* the strings that parse to a usize, with the result

Entry == [key : STRING, group : STRING, value : STRING]

ASSUME ConfigAssumption == /\ Environment \subseteq Seq(Entry)
                           /\ ParseUsize \in [DOMAIN ParseUsize -> Nat]

ParseBool == [true |-> TRUE, false |-> FALSE]
Unicode(entry) == entry.value # "not_unicode"

VARIABLES at,            \* where from_env is, or how it ended
          env,           \* the environment
          next,          \* the entry that the loop looks at next
          ignored_request_types,
          worker_count,
          handoff_timeout

vars == <<at, env, next, ignored_request_types, worker_count, handoff_timeout>>

\* With the names in upper case, as from_env's ops_map has them.
OPS_BY_DATABASE ==
  [GROUP      |-> {GETGRBYNAME, GETGRBYGID},
   HOSTS      |-> {GETHOSTBYADDR, GETHOSTBYADDRv6, GETHOSTBYNAME,
                   GETHOSTBYNAMEv6, GETAI},
   INITGROUPS |-> {INITGROUPS},
   NETGROUP   |-> {GETNETGRENT, INNETGR},
   PASSWD     |-> {GETPWBYNAME, GETPWBYUID},
   SERVICES   |-> {GETSERVBYNAME, GETSERVBYPORT}]

Init == /\ at = "vars"
        /\ env \in Environment
        /\ next = 1
        /\ ignored_request_types = {}
        /\ worker_count = 0
        /\ handoff_timeout = 0

Fail(how) == /\ at' = how
             /\ UNCHANGED <<env, next, ignored_request_types, worker_count,
                            handoff_timeout>>

\* RequestTypeSet::insert for each type of a group whose variable is true.
InsertInto(set, entry) ==
  /\ ignored_request_types' = set \cup
       (IF ParseBool[entry.value] THEN OPS_BY_DATABASE[entry.group] ELSE {})
  /\ next' = next + 1
  /\ UNCHANGED <<at, env, worker_count, handoff_timeout>>

Overwrite(entry) == InsertInto({}, entry)  \* mutant: starts from an empty set
Insert(entry) == InsertInto(ignored_request_types, entry)

Skip == /\ next' = next + 1
        /\ UNCHANGED <<at, env, ignored_request_types, worker_count,
                       handoff_timeout>>

\* One turn of `for (key, value) in env::vars()'.  The iterator panics on an
\* entry that is not Unicode; an unknown group is an error before the value is
\* looked at.
ReadVar ==
  /\ at = "vars"
  /\ next <= Len(env)
  /\ LET entry == env[next]
         known == entry.group \in DOMAIN OPS_BY_DATABASE
         bool == entry.value \in DOMAIN ParseBool
     IN  \/ ~Unicode(entry) /\ Fail("panic")
         \/ Unicode(entry) /\ entry.key # "IGNORE" /\ Skip
         \/ Unicode(entry) /\ entry.key = "IGNORE" /\ ~known /\ Fail("err")
         \/ /\ Unicode(entry) /\ entry.key = "IGNORE" /\ known
            /\ \/ ~bool /\ Fail("err")
               \/ bool /\ Insert(entry)

EndOfVars == /\ at = "vars"
             /\ next > Len(env)
             /\ at' = "worker_count"
             /\ UNCHANGED <<env, next, ignored_request_types, worker_count,
                            handoff_timeout>>

\* env::var: where the first entry with this key is, 0 if there is none.
First(key) == SelectInSeq(env, LAMBDA entry : entry.key = key)

\* -1 stands for the error: the string does not parse, or it parses to 0.
AllowsZero(s) == s \in DOMAIN ParseUsize  \* mutant: no test of `val > 0'
Positive(s) == s \in DOMAIN ParseUsize /\ ParseUsize[s] > 0

env_positive_usize(key, default) ==
  IF First(key) = 0 THEN default
  ELSE LET s == env[First(key)].value
       IN  IF Positive(s) THEN ParseUsize[s] ELSE -1

ReadWorkerCount ==
  LET n == env_positive_usize("WORKER_COUNT", 8)
  IN  /\ at = "worker_count"
      /\ \/ n = -1 /\ Fail("err")
         \/ /\ n # -1
            /\ worker_count' = n
            /\ at' = "handoff_timeout"
            /\ UNCHANGED <<env, next, ignored_request_types, handoff_timeout>>

ReadHandoffTimeout ==
  LET n == env_positive_usize("HANDOFF_TIMEOUT", 3)
  IN  /\ at = "handoff_timeout"
      /\ \/ n = -1 /\ Fail("err")
         \/ /\ n # -1
            /\ handoff_timeout' = n
            /\ at' = "ok"
            /\ UNCHANGED <<env, next, ignored_request_types, worker_count>>

Finished == at \in {"ok", "err", "panic"} /\ UNCHANGED vars

Next == \/ ReadVar
        \/ EndOfVars
        \/ ReadWorkerCount
        \/ ReadHandoffTimeout
        \/ Finished

Spec == Init /\ [][Next]_vars

-----------------------------------------------------------------------------
(* What the documentation of from_env promises.                            *)

SetTrue(group) == \E i \in 1 .. Len(env) : /\ env[i].key = "IGNORE"
                                           /\ env[i].group = group
                                           /\ env[i].value = "true"

\* A variable "must be either `true' or `false'", of a known database.
BadIgnore(entry) == /\ entry.key = "IGNORE"
                    /\ \/ entry.group \notin DOMAIN OPS_BY_DATABASE
                       \/ entry.value \notin {"true", "false"}

(***************************************************************************)
(* Whatever the order of the environment, and whatever is in it twice: the *)
(* configuration is accepted only if every NSNCD_IGNORE_ variable is       *)
(* valid, and it ignores a request type exactly if a variable of one of    *)
(* its databases is true; it is refused only for a bad variable.           *)
(***************************************************************************)
ConfigIsExact ==
  /\ at = "ok" =>
       /\ \A i \in 1 .. Len(env) : ~BadIgnore(env[i])
       /\ ignored_request_types =
            UNION {OPS_BY_DATABASE[g] :
                     g \in {h \in DOMAIN OPS_BY_DATABASE : SetTrue(h)}}
  /\ at = "err" =>
       \E i \in 1 .. Len(env) :
         \/ BadIgnore(env[i])
         \/ /\ env[i].key \in {"WORKER_COUNT", "HANDOFF_TIMEOUT"}
            /\ env[i].value \notin DOMAIN ParseUsize \/ ParseUsize[env[i].value] = 0

(***************************************************************************)
(* "Both must be positive (non-zero)": the daemon never starts without a   *)
(* worker, which Daemon.tla takes for granted, or with a timeout of zero,  *)
(* which would turn away every client that finds the workers busy.         *)
(***************************************************************************)
DaemonCanServe == at = "ok" => worker_count >= 1 /\ handoff_timeout >= 1

\* The request types whose names say that they are about a database.
RelatedTo(group) ==
  CASE group = "GROUP"      -> {GETGRBYNAME, GETGRBYGID, GETFDGR}
    [] group = "HOSTS"      -> {GETHOSTBYNAME, GETHOSTBYNAMEv6, GETHOSTBYADDR,
                                GETHOSTBYADDRv6, GETAI, GETFDHST}
    [] group = "INITGROUPS" -> {INITGROUPS}
    [] group = "NETGROUP"   -> {GETNETGRENT, INNETGR, GETFDNETGR}
    [] group = "PASSWD"     -> {GETPWBYNAME, GETPWBYUID, GETFDPW}
    [] group = "SERVICES"   -> {GETSERVBYNAME, GETSERVBYPORT, GETFDSERV}

(***************************************************************************)
(* "If one of these variables is set to true, nsncd will not respond to    *)
(* the requests related to that database" (README), and it goes on         *)
(* responding to the others.                                               *)
(***************************************************************************)
IgnoredDatabaseIsSilent ==
  at = "ok" =>
    \A group \in DOMAIN OPS_BY_DATABASE : \A ty \in RelatedTo(group) :
      ty \in ignored_request_types \cup Unanswered
        <=> SetTrue(group) \/ ty \in Unanswered
=============================================================================
