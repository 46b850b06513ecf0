----------------------------- MODULE HostLookup -----------------------------
(***************************************************************************)
(* src/ffi.rs: gethostbyaddr_r and gethostbyname2_r, which call glibc with *)
(* a buffer that doubles for as long as glibc says ERANGE, and decode the  *)
(* hostent glibc leaves in it.  Both are followed here from the request to *)
(* the reply of handle_request.                                            *)
(*                                                                         *)
(* A C array is a sequence in which Null is the null pointer; what follows *)
(* it is other memory.  glibc may answer each call differently.            *)
(***************************************************************************)
EXTENDS GlibcClient

CONSTANTS Null,
          InitialSize,  \* 1024 bytes
          SizeLimit,    \* 10 * 1000 * 1000 bytes
          AllocLimit,   \* the largest buffer the allocator can provide
          NameService   \* what glibc may come up with: [need, hostent, herrno]

\* The hostents that from_libc_hostent can make sense of.
Supported(h) == /\ <<h.h_addrtype, h.h_length>> \in {<<AF_INET, 4>>,
                                                      <<AF_INET6, 16>>}
                /\ h.h_name # Null

\* glibc's side of the contract: arrays end, with elements of this kind up to
\* there; an address has h_length bytes or more of memory behind its pointer.
CArray(array, S) ==
  /\ Len(array) \in Nat
  /\ \E n \in 1 .. Len(array) : /\ array[n] = Null
                                /\ \A i \in 1 .. n - 1 : array[i] \in S
WellFormedHostent(h) ==
  Supported(h) =>
    /\ h.h_name \in CString
    /\ CArray(h.h_aliases, CString)
    /\ CArray(h.h_addr_list, {a \in Seq(0 .. 255) : Len(a) >= h.h_length})

ASSUME HostLookupAssumption ==
  /\ InitialSize \in Nat \ {0}
  /\ SizeLimit \in Nat
  /\ AllocLimit \in Nat
  /\ InitialSize < 2 * SizeLimit
  /\ \A a \in NameService : /\ a.need \in Nat
                            /\ a.herrno \in Int
                            /\ a.hostent = Null \/ WellFormedHostent(a.hostent)

VARIABLES at,              \* where the lookup is
          ty,              \* the request it is for
          capacity,        \* buf.capacity()
          herrno,          \* the local that glibc writes to
          hostent_result,  \* what the pointer of this name points to
          said,            \* what glibc made of the last call
          reply            \* the result of handle_request

vars == <<at, ty, capacity, herrno, hostent_result, said, reply>>

ByAddr == {GETHOSTBYADDR, GETHOSTBYADDRv6}
ByName == {GETHOSTBYNAME, GETHOSTBYNAMEv6}

Location == {"call", "result", "returned", "panicked", "aborted"}
Ended == {"returned", "panicked", "aborted"}

\* Before the first call there is neither a result nor an error.
Unasked == [need |-> 0, hostent |-> Null, herrno |-> 0]

TypeOK == /\ at \in Location
          /\ ty \in ByAddr \cup ByName
          /\ capacity \in Nat
          /\ said \in NameService \cup {Unasked}

Init == /\ at = "call"
        /\ ty \in ByAddr \cup ByName
        /\ capacity = InitialSize
        /\ herrno = 0
        /\ hostent_result = Null
        /\ said = Unasked
        /\ reply = Err

-----------------------------------------------------------------------------
(* glibc.  A buffer that is too small is an internal error of the lookup;  *)
(* a success leaves h_errno as it was, or clears it.                       *)

NETDB_INTERNAL == -1
ERANGE == said.need > capacity

Call(answer) ==
  LET tooSmall == answer.need > capacity
      found == ~tooSmall /\ answer.hostent # Null
  IN  /\ at = "call"
      /\ said' = answer
      /\ hostent_result' = IF found THEN answer.hostent ELSE Null
      /\ herrno' \in IF tooSmall THEN {NETDB_INTERNAL}
                     ELSE IF found THEN {herrno, 0}
                     ELSE {answer.herrno}
      /\ at' = "result"
      /\ UNCHANGED <<ty, capacity, reply>>

-----------------------------------------------------------------------------
(* The loop: the test after the call, and the growth of the buffer.        *)

\* Mutant: the limit is compared with the size the buffer would get.
LimitNextSize == ERANGE /\ (ty \in ByAddr => 2 * capacity < SizeLimit)

\* Only gethostbyaddr_r has a limit.
TryAgain == ERANGE /\ (ty \in ByAddr => capacity < SizeLimit)

DoesNotGrow == capacity  \* mutant: reserve(capacity()) of an empty vector

\* buf.reserve(buf.capacity() * 2) of a vector of length 0.
Doubled == 2 * capacity

Grow == /\ at = "result"
        /\ TryAgain
        /\ capacity <= AllocLimit \div 2
        /\ capacity' = Doubled
        /\ at' = "call"
        /\ UNCHANGED <<ty, herrno, hostent_result, said, reply>>

\* reserve panics past isize::MAX and aborts where the allocator fails.
GrowFails == /\ at = "result"
             /\ TryAgain
             /\ capacity > AllocLimit \div 2
             /\ at' \in {"panicked", "aborted"}
             /\ UNCHANGED <<ty, capacity, herrno, hostent_result, said, reply>>

-----------------------------------------------------------------------------
(* The result.                                                             *)

AddrLen(family) == IF family = AF_INET THEN 4 ELSE 16

\* The elements of an array up to its null pointer.
UntilNull(array) ==
  LET n == CHOOSE i \in 1 .. Len(array) :
             array[i] = Null /\ \A j \in 1 .. i - 1 : array[j] # Null
  IN  SubSeq(array, 1, n - 1)

from_libc_hostent(value) ==
  LET addrs == UntilNull(value.h_addr_list)
      len == AddrLen(value.h_addrtype)
  IN  IF \/ value.h_addrtype \notin {AF_INET, AF_INET6}
         \/ value.h_length # len
         \/ value.h_name = Null
      THEN [is |-> "other"]
      ELSE [is |-> "ok",
            of |-> [name |-> value.h_name,
                    aliases |-> UntilNull(value.h_aliases),
                    addr_list |-> [i \in 1 .. Len(addrs) |->
                                     [family |-> value.h_addrtype,
                                      octets |-> SubSeq(addrs[i], 1, len)]],
                    herrno |-> 0]]

\* Mutant: h_errno is looked at before the result.
HerrnoFirst(hostent, error) ==
  IF error # 0 THEN [is |-> "herror", of |-> error]
  ELSE from_libc_hostent(hostent)

unmarshal_gethostbyxx(hostent, error) ==
  IF hostent # Null THEN from_libc_hostent(hostent)
                    ELSE [is |-> "herror", of |-> error]

\* A key that the handler of this request accepts.
LookupKey == [len |-> IF ty = GETHOSTBYADDR THEN 4 ELSE 16,
              text |-> "name", name |-> <<1>>]

Return == /\ at = "result"
          /\ ~TryAgain
          /\ reply' = handle_request({}, ty, LookupKey,
                        unmarshal_gethostbyxx(hostent_result, herrno))
          /\ at' = "returned"
          /\ UNCHANGED <<ty, capacity, herrno, hostent_result, said>>

Finished == at \in Ended /\ UNCHANGED vars

Step == \/ \E answer \in NameService : Call(answer)
        \/ Grow
        \/ GrowFails
        \/ Return

Next == Step \/ Finished

\* Each call of glibc returns, with whatever result.
Spec == Init /\ [][Next]_vars
FairSpec == Spec /\ WF_vars(Step)

-----------------------------------------------------------------------------
\* What the hostent of a successful call means to a reader of C arrays.
IsArray(seq, array) == /\ Len(seq) < Len(array)
                       /\ array[Len(seq) + 1] = Null
                       /\ \A i \in 1 .. Len(seq) : seq[i] = array[i]

(***************************************************************************)
(* The client is told what the last call said, and nothing of the earlier  *)
(* ones: not the NETDB_INTERNAL that an ERANGE left in h_errno, and no     *)
(* result of a buffer that has been given back.  A hostent arrives with    *)
(* all its aliases and addresses and with no error; an error arrives with  *)
(* its number; a hostent of an unknown kind closes the connection, and so  *)
(* never does one of a known kind (its addresses are of one family).       *)
(***************************************************************************)
ClientSeesLastAnswer ==
  at = "returned" =>
    LET h == said.hostent
        got == Decode(ty, reply.cells)
    IN  IF ERANGE THEN got = [is |-> "herror", of |-> NETDB_INTERNAL]
        ELSE IF h = Null THEN got = [is |-> "herror", of |-> said.herrno]
        ELSE IF ~Supported(h) THEN reply = Err
        ELSE IF h.h_addr_list[1] = Null THEN got = [is |-> "herror", of |-> 0]
        ELSE /\ got.is = "ok"
             /\ got.of.name = h.h_name
             /\ got.of.herrno = 0
             /\ IsArray(got.of.aliases, h.h_aliases)
             /\ Len(got.of.addr_list) < Len(h.h_addr_list)
             /\ h.h_addr_list[Len(got.of.addr_list) + 1] = Null
             /\ \A i \in 1 .. Len(got.of.addr_list) :
                  /\ got.of.addr_list[i].family = h.h_addrtype
                  /\ IsPrefix(got.of.addr_list[i].octets, h.h_addr_list[i])

(***************************************************************************)
(* A lookup gives up on ERANGE only if it is one by address and the answer *)
(* needs more than the limit: the doubling passes the limit before the     *)
(* test ends it.  The limit also holds: an address lookup never has a      *)
(* buffer of twice the limit.                                              *)
(***************************************************************************)
GivesUpPastLimit == at = "returned" /\ ERANGE =>
                      ty \in ByAddr /\ said.need > SizeLimit
AddrBufferBounded == ty \in ByAddr => capacity < 2 * SizeLimit

BufferIsExact == GivesUpPastLimit /\ AddrBufferBounded

(***************************************************************************)
(* The retries end, whatever glibc says.  An address lookup returns; a     *)
(* name lookup, which has no limit, returns or ends with the memory and    *)
(* takes the process along.                                                *)
(***************************************************************************)
RetriesEnd == <>(at = "returned" \/ (ty \in ByName /\ at \in Ended))
=============================================================================
