-------------------------- MODULE HostLookupProofs --------------------------
(* Proofs about HostLookup.tla, for any sizes and any name service.        *)
EXTENDS HostLookup, ReplyProofs

IInv == TypeOK /\ BufferIsExact

LEMMA InitIInv == Init => IInv
  BY HostLookupAssumption
  DEF Init, IInv, TypeOK, BufferIsExact, GivesUpPastLimit, AddrBufferBounded,
      Location, Unasked

LEMMA NextIInv == IInv /\ [Next]_vars => IInv'
<1> SUFFICES ASSUME IInv, [Next]_vars PROVE IInv'
  OBVIOUS
<1> USE HostLookupAssumption
    DEF IInv, TypeOK, BufferIsExact, GivesUpPastLimit, AddrBufferBounded,
        Location, ERANGE
<1>1. ASSUME NEW answer \in NameService, Call(answer) PROVE IInv'
  BY <1>1 DEF Call
<1>2. CASE Grow
  BY <1>2 DEF Grow, TryAgain, Doubled
<1>3. CASE GrowFails
  BY <1>3 DEF GrowFails
<1>4. CASE Return
  <2>1. /\ at' = "returned"
        /\ UNCHANGED <<ty, capacity, said>>
        /\ ~TryAgain
    BY <1>4 DEF Return
  <2>2. said.need \in Nat
    BY DEF Unasked
  <2>3. ERANGE => ty \in ByAddr /\ said.need > SizeLimit
    BY <2>1, <2>2 DEF TryAgain
  <2> QED BY <2>1, <2>3
<1>5. CASE UNCHANGED vars
  BY <1>5 DEF vars
<1> QED BY <1>1, <1>2, <1>3, <1>4, <1>5 DEF Next, Step, Finished

(***************************************************************************)
(* For any initial size, limit and allocator: gethostbyaddr_r gives up     *)
(* only on an answer larger than its limit and never holds a buffer of     *)
(* twice the limit, and gethostbyname2_r never gives up on ERANGE.         *)
(***************************************************************************)
THEOREM BuffersAreExact == Spec => []BufferIsExact
<1>1. IInv => BufferIsExact
  BY DEF IInv
<1> QED BY InitIInv, NextIInv, <1>1, PTL DEF Spec
-----------------------------------------------------------------------------
\* What the last call of glibc amounts to, earlier calls aside.
LastAnswer == IF ERANGE THEN [is |-> "herror", of |-> NETDB_INTERNAL]
              ELSE IF said.hostent = Null
                   THEN [is |-> "herror", of |-> said.herrno]
                   ELSE from_libc_hostent(said.hostent)

LocalsOfLastCall == at # "call" =>
                      unmarshal_gethostbyxx(hostent_result, herrno) = LastAnswer

ReplyOfLastCall == at = "returned" =>
                     reply = handle_request({}, ty, LookupKey, LastAnswer)

LEMMA InitLastCall == Init => LocalsOfLastCall /\ ReplyOfLastCall
  BY DEF Init, LocalsOfLastCall, ReplyOfLastCall

LEMMA NextLastCall == /\ LocalsOfLastCall
                      /\ ReplyOfLastCall
                      /\ [Next]_vars
                      => LocalsOfLastCall' /\ ReplyOfLastCall'
<1> SUFFICES ASSUME LocalsOfLastCall, ReplyOfLastCall, [Next]_vars
             PROVE  LocalsOfLastCall' /\ ReplyOfLastCall'
  OBVIOUS
<1> USE DEF LocalsOfLastCall, ReplyOfLastCall, LastAnswer, ERANGE
<1>1. ASSUME NEW answer \in NameService, Call(answer)
      PROVE  LocalsOfLastCall' /\ ReplyOfLastCall'
  BY <1>1 DEF Call, unmarshal_gethostbyxx
<1>2. CASE Grow
  BY <1>2 DEF Grow
<1>3. CASE GrowFails
  BY <1>3 DEF GrowFails
<1>4. CASE Return
  BY <1>4 DEF Return, LookupKey
<1>5. CASE UNCHANGED vars
  BY <1>5 DEF vars, LookupKey
<1> QED BY <1>1, <1>2, <1>3, <1>4, <1>5 DEF Next, Step, Finished

(***************************************************************************)
(* After any number of retries, the reply is the one handle_request makes  *)
(* of the last call alone: no h_errno and no hostent of an earlier call    *)
(* gets into it, also where glibc leaves h_errno as it was.                *)
(***************************************************************************)
THEOREM EarlierCallsForgotten == Spec => []ReplyOfLastCall
  BY InitLastCall, NextLastCall, PTL DEF Spec
-----------------------------------------------------------------------------
(* What the client makes of it.                                            *)

\* The elements of an array that ends, up to its first null pointer.
LEMMA UntilNullProperties ==
  ASSUME NEW S, NEW array, CArray(array, S)
  PROVE  LET seq == UntilNull(array)
         IN  /\ seq \in Seq(S)
             /\ IsArray(seq, array)
             /\ \A i \in 1 .. Len(seq) : array[i] # Null
<1> DEFINE Ends == {i \in 1 .. Len(array) : array[i] = Null}
           First(i) == array[i] = Null /\ \A j \in 1 .. i - 1 : array[j] # Null
           n == CHOOSE i \in 1 .. Len(array) : First(i)
           seq == [i \in 1 .. n - 1 |-> array[i]]
<1>0. Len(array) \in Nat
  BY DEF CArray
<1>1. PICK m \in 1 .. Len(array) : array[m] = Null /\ \A i \in 1 .. m - 1 : array[i] \in S
  BY DEF CArray
<1>2. PICK k \in Ends : \A i \in Ends : k <= i
  <2>1. Ends \in SUBSET Nat /\ Ends # {}
    BY <1>0, <1>1
  <2> HIDE DEF Ends
  <2> QED  BY <2>1, LeastExists
<1>3. k \in 1 .. Len(array) /\ First(k)
  <2>1. k \in 1 .. Len(array) /\ array[k] = Null
    BY <1>2
  <2>2. ASSUME NEW j \in 1 .. k - 1, array[j] = Null PROVE FALSE
    <3>1. j \in Ends
      BY <1>0, <2>1, <2>2
    <3> QED  BY <1>0, <1>2, <2>1, <3>1
  <2> QED  BY <2>1, <2>2
<1>4. n \in 1 .. Len(array) /\ First(n)
  <2> HIDE DEF First
  <2> QED  BY <1>3, Zenon
<1>5. UntilNull(array) = SubSeq(array, 1, n - 1)
  BY Zenon DEF UntilNull
<1> HIDE DEF n
<1>6. n - 1 \in Nat /\ n <= m
  BY <1>0, <1>1, <1>4
<1>7. \A i \in 1 .. n - 1 : array[i] \in S /\ array[i] # Null
  BY <1>0, <1>1, <1>4, <1>6
<1>8. SubSeq(array, 1, n - 1) = seq
  BY <1>6
<1>9. seq \in Seq(S) /\ Len(seq) = n - 1 /\ \A i \in 1 .. n - 1 : seq[i] = array[i]
  BY <1>6, <1>7
<1> HIDE DEF seq
<1>10. Len(seq) < Len(array) /\ array[Len(seq) + 1] = Null
  BY <1>0, <1>4, <1>6, <1>9
<1>11. /\ seq \in Seq(S) /\ IsArray(seq, array)
       /\ \A i \in 1 .. Len(seq) : array[i] # Null
  BY <1>7, <1>9, <1>10 DEF IsArray
<1> QED  BY <1>5, <1>8, <1>11, Zenon

\* The first bytes of an address.
LEMMA FirstOctets ==
  ASSUME NEW a \in Seq(0 .. 255), NEW len \in Nat, len <= Len(a)
  PROVE  /\ SubSeq(a, 1, len) \in [1 .. len -> 0 .. 255]
         /\ IsPrefix(SubSeq(a, 1, len), a)
<1> DEFINE p == [i \in 1 .. len |-> a[i]]
<1>1. Len(a) \in Nat /\ \A i \in 1 .. len : a[i] \in 0 .. 255
  <2>1. Len(a) \in Nat /\ \A i \in 1 .. Len(a) : a[i] \in 0 .. 255
    BY ElementOfSeq, LenProperties, Zenon
  <2>2. \A i \in 1 .. len : i \in 1 .. Len(a)
    BY <2>1
  <2> QED  BY <2>1, <2>2, Zenon
<1>2. SubSeq(a, 1, len) = p
  OBVIOUS
<1>3. /\ p \in Seq(0 .. 255) /\ Len(p) = len /\ p \in [1 .. len -> 0 .. 255]
      /\ \A i \in 1 .. len : p[i] = a[i]
  BY <1>1
<1>4. SubSeq(p, 1, len) = p
  OBVIOUS
<1> HIDE DEF p
<1>5. IsPrefix(p, a)
  BY <1>1, <1>2, <1>3, <1>4 DEF IsPrefix
<1> QED  BY <1>2, <1>3, <1>5

(* from_libc_hostent reads a hostent to the end of its arrays and not      *)
(* beyond, or refuses it for its type, its length or its missing name.     *)
LEMMA HostentIsRead ==
  ASSUME NEW h, WellFormedHostent(h)
  PROVE  LET r == from_libc_hostent(h)
         IN  /\ r \in HostResult
             /\ ~Supported(h) => r = [is |-> "other"]
             /\ Supported(h) =>
                  /\ r.is = "ok"
                  /\ r.of.name = h.h_name
                  /\ r.of.herrno = 0
                  /\ IsArray(r.of.aliases, h.h_aliases)
                  /\ h.h_addr_list[1] = Null <=> r.of.addr_list = <<>>
                  /\ Len(r.of.addr_list) < Len(h.h_addr_list)
                  /\ h.h_addr_list[Len(r.of.addr_list) + 1] = Null
                  /\ \A i \in 1 .. Len(r.of.addr_list) :
                       /\ r.of.addr_list[i].family = h.h_addrtype
                       /\ IsPrefix(r.of.addr_list[i].octets, h.h_addr_list[i])
<1> DEFINE addrs == UntilNull(h.h_addr_list)
           len == AddrLen(h.h_addrtype)
           aliases == UntilNull(h.h_aliases)
           list == [i \in 1 .. Len(addrs) |->
                      [family |-> h.h_addrtype, octets |-> SubSeq(addrs[i], 1, len)]]
           host == [name |-> h.h_name, aliases |-> aliases, addr_list |-> list,
                    herrno |-> 0]
           r == from_libc_hostent(h)
<1>1. Supported(h) <=> ~(\/ h.h_addrtype \notin {AF_INET, AF_INET6}
                         \/ h.h_length # len
                         \/ h.h_name = Null)
  BY DEF Supported, AddrLen, AF_INET, AF_INET6
<1>2. /\ ~Supported(h) => r = [is |-> "other"]
      /\ Supported(h) => r = [is |-> "ok", of |-> host]
  BY <1>1, Zenon DEF from_libc_hostent
<1>3. CASE ~Supported(h)
  BY <1>2, <1>3 DEF HostResult
<1>4. CASE Supported(h)
  <2>1. /\ h.h_name \in CString /\ CArray(h.h_aliases, CString)
        /\ CArray(h.h_addr_list, {a \in Seq(0 .. 255) : Len(a) >= h.h_length})
    BY <1>4 DEF WellFormedHostent
  <2>2. /\ h.h_addrtype \in {AF_INET, AF_INET6} /\ h.h_length = len
        /\ len = IF h.h_addrtype = AF_INET THEN 4 ELSE 16
    BY <1>1, <1>4 DEF AddrLen
  <2> HIDE DEF len
  <2>3. aliases \in Seq(CString) /\ IsArray(aliases, h.h_aliases)
    BY <2>1, UntilNullProperties, Zenon
  <2>4. /\ addrs \in Seq({a \in Seq(0 .. 255) : Len(a) >= h.h_length})
        /\ IsArray(addrs, h.h_addr_list)
        /\ \A i \in 1 .. Len(addrs) : h.h_addr_list[i] # Null
    BY <2>1, UntilNullProperties, Zenon
  <2> HIDE DEF addrs, aliases
  <2>5. /\ Len(addrs) \in Nat
        /\ \A i \in 1 .. Len(addrs) : /\ addrs[i] \in Seq(0 .. 255)
                                      /\ len <= Len(addrs[i])
                                      /\ addrs[i] = h.h_addr_list[i]
    BY <2>2, <2>4 DEF IsArray
  <2>6. ASSUME NEW i \in 1 .. Len(addrs)
        PROVE  /\ [family |-> h.h_addrtype, octets |-> SubSeq(addrs[i], 1, len)] \in Address
               /\ IsPrefix(SubSeq(addrs[i], 1, len), h.h_addr_list[i])
    <3>1. addrs[i] \in Seq(0 .. 255) /\ len <= Len(addrs[i]) /\ len \in Nat
      BY <2>2, <2>5
    <3> DEFINE octets == SubSeq(addrs[i], 1, len)
    <3>2. octets \in [1 .. len -> 0 .. 255] /\ IsPrefix(octets, addrs[i])
      BY <3>1, FirstOctets
    <3> HIDE DEF octets
    <3>3. [family |-> h.h_addrtype, octets |-> octets] \in Address
      BY <2>2, <3>2 DEF Address, AF_INET, AF_INET6
    <3>4. IsPrefix(octets, h.h_addr_list[i])
      BY <2>5, <3>2, Zenon
    <3> QED  BY <3>3, <3>4 DEF octets
  <2>7. list \in Seq(Address) /\ Len(list) = Len(addrs)
    BY <2>5, <2>6
  <2>8. ASSUME NEW i \in 1 .. Len(list)
        PROVE  list[i].family = h.h_addrtype /\ IsPrefix(list[i].octets, h.h_addr_list[i])
    <3>1. i \in 1 .. Len(addrs)
      BY <2>7
    <3>2. list[i].family = h.h_addrtype /\ list[i].octets = SubSeq(addrs[i], 1, len)
      BY <3>1
    <3> QED  BY <2>6, <3>1, <3>2, Zenon
  <2> HIDE DEF list
  <2>9. h.h_addr_list[1] = Null <=> list = <<>>
    <3>1. CASE Len(addrs) = 0
      BY <2>4, <2>7, <3>1 DEF IsArray
    <3>2. CASE Len(addrs) # 0
      <4>1. 1 \in 1 .. Len(addrs)
        BY <2>5, <3>2
      <4> QED  BY <2>4, <2>7, <3>2, <4>1
    <3> QED  BY <3>1, <3>2
  <2>10. Len(list) < Len(h.h_addr_list) /\ h.h_addr_list[Len(list) + 1] = Null
    BY <2>4, <2>7 DEF IsArray
  <2>11. host \in Host
    <3>1. \A i, j \in 1 .. Len(list) : list[i].family = list[j].family
      BY <2>8
    <3> QED  BY <2>1, <2>3, <2>7, <3>1 DEF Host
  <2>12. r = [is |-> "ok", of |-> host]
    BY <1>2, <1>4
  <2>13. /\ host.name = h.h_name /\ host.herrno = 0 /\ host.aliases = aliases
         /\ host.addr_list = list
    OBVIOUS
  <2> HIDE DEF host, r
  <2>14. r \in HostResult /\ r.is = "ok" /\ r.of = host
    BY <2>11, <2>12 DEF HostResult
  <2> QED  BY <1>4, <2>3, <2>8, <2>9, <2>10, <2>13, <2>14, Zenon DEF r
<1> QED  BY <1>3, <1>4

\* The result of the lookup is one that handle_request can be given.
LEMMA LastAnswerType ==
  ASSUME TypeOK
  PROVE  LastAnswer \in HostResult
<1>1. CASE ERANGE
  BY <1>1 DEF LastAnswer, HostResult, NETDB_INTERNAL
<1>2. CASE ~ERANGE /\ said.hostent = Null
  <2>1. said.herrno \in Int
    BY HostLookupAssumption DEF TypeOK, Unasked
  <2> QED  BY <1>2, <2>1 DEF LastAnswer, HostResult
<1>3. CASE ~ERANGE /\ said.hostent # Null
  <2>1. WellFormedHostent(said.hostent)
    BY <1>3, HostLookupAssumption DEF TypeOK, Unasked
  <2> QED  BY <1>3, <2>1, HostentIsRead, Zenon DEF LastAnswer
<1> QED  BY <1>1, <1>2, <1>3

\* The key of a lookup passes the checks of its handler.
LEMMA LookupReply ==
  ASSUME TypeOK, NEW answer
  PROVE  handle_request({}, ty, LookupKey, answer) = HostReply(answer)
<1>1. ty \in HostTypes /\ ty \notin Unanswered /\ ty \in RequestType /\ ty \notin {}
  BY NumbersHold DEF Numbers, HostTypes, TypeOK, ByAddr, ByName, RequestType, LASTREQ
<1>2. GoodKey(ty, LookupKey)
  <2>1. ty \notin {GETPWBYUID, GETGRBYGID}
    BY <1>1, NumbersHold DEF Numbers, HostTypes
  <2>2. GETHOSTBYADDR # GETHOSTBYADDRv6
    BY NumbersHold DEF Numbers
  <2>3. LookupKey.text = "name" /\ LookupKey.len = IF ty = GETHOSTBYADDR THEN 4 ELSE 16
    BY DEF LookupKey
  <2>4. IsStr(LookupKey)
    BY <2>3 DEF IsStr
  <2>5. CASE ty = GETHOSTBYADDR
    BY <2>1, <2>2, <2>3, <2>5, Zenon DEF GoodKey
  <2>6. CASE ty = GETHOSTBYADDRv6
    BY <2>1, <2>2, <2>3, <2>6, Zenon DEF GoodKey
  <2>7. CASE ty # GETHOSTBYADDR /\ ty # GETHOSTBYADDRv6
    BY <2>1, <2>4, <2>7, Zenon DEF GoodKey
  <2> QED  BY <2>5, <2>6, <2>7
<1> QED  BY <1>1, <1>2, KeyDecides

(***************************************************************************)
(* After any number of retries, a client that decodes the reply learns     *)
(* what the last call of glibc said, for hostents of any size: the name,   *)
(* all aliases and addresses up to the ends of their C arrays and nothing  *)
(* behind them, or the error number; only an unknown kind of hostent is    *)
(* refused.                                                                *)
(***************************************************************************)
THEOREM LastAnswerReachesClient == Spec => []ClientSeesLastAnswer
<1>1. IInv /\ ReplyOfLastCall => ClientSeesLastAnswer
  <2> SUFFICES ASSUME IInv, ReplyOfLastCall, at = "returned"
               PROVE  ClientSeesLastAnswer
    BY DEF ClientSeesLastAnswer
  <2> DEFINE h == said.hostent
             got == Decode(ty, reply.cells)
  <2>1. TypeOK /\ ty \in HostTypes
    BY DEF IInv, TypeOK, ByAddr, ByName, HostTypes
  <2>2. reply = HostReply(LastAnswer) /\ LastAnswer \in HostResult
    BY <2>1, LookupReply, LastAnswerType DEF ReplyOfLastCall
  <2>3. got = DecodeHostent(reply.cells)
    BY <2>1, Kinds
  <2>4. LastAnswer.is # "other" => got = HostMeaning(LastAnswer)
    BY <2>2, <2>3, HostReplyDecodes, Zenon
  <2> HIDE DEF got
  <2>5. CASE ERANGE
    <3>1. LastAnswer = [is |-> "herror", of |-> NETDB_INTERNAL]
      BY <2>5 DEF LastAnswer
    <3>2. got = [is |-> "herror", of |-> NETDB_INTERNAL]
      BY <2>4, <3>1 DEF HostMeaning
    <3> QED  BY <2>5, <3>2, Zenon DEF ClientSeesLastAnswer, got
  <2>6. CASE ~ERANGE /\ h = Null
    <3>1. LastAnswer = [is |-> "herror", of |-> said.herrno]
      BY <2>6 DEF LastAnswer
    <3>2. got = [is |-> "herror", of |-> said.herrno]
      BY <2>4, <3>1 DEF HostMeaning
    <3> QED  BY <2>6, <3>2, Zenon DEF ClientSeesLastAnswer, got
  <2>7. CASE ~ERANGE /\ h # Null
    <3>1. WellFormedHostent(h)
      BY <2>1, <2>7, HostLookupAssumption DEF TypeOK, Unasked
    <3>2. LastAnswer = from_libc_hostent(h)
      BY <2>7 DEF LastAnswer
    <3> HIDE DEF h
    <3>3. CASE ~Supported(h)
      <4>1. LastAnswer = [is |-> "other"]
        BY <3>1, <3>2, <3>3, HostentIsRead, Zenon
      <4>2. LastAnswer.is = "other" /\ LastAnswer.is # "ok" /\ LastAnswer.is # "herror"
        BY <4>1
      <4>3. reply = Err
        BY <2>2, <4>2, Zenon DEF HostReply
      <4> QED  BY <2>7, <3>3, <4>3, Zenon DEF ClientSeesLastAnswer, got, h
    <3>4. CASE Supported(h)
      <4> DEFINE r == LastAnswer
      <4>1. /\ r.is = "ok"
            /\ r.of.name = h.h_name
            /\ r.of.herrno = 0
            /\ IsArray(r.of.aliases, h.h_aliases)
            /\ h.h_addr_list[1] = Null <=> r.of.addr_list = <<>>
            /\ Len(r.of.addr_list) < Len(h.h_addr_list)
            /\ h.h_addr_list[Len(r.of.addr_list) + 1] = Null
            /\ \A i \in 1 .. Len(r.of.addr_list) :
                 /\ r.of.addr_list[i].family = h.h_addrtype
                 /\ IsPrefix(r.of.addr_list[i].octets, h.h_addr_list[i])
        BY <3>1, <3>2, <3>4, HostentIsRead, Zenon
      <4> HIDE DEF r
      <4>2. got = HostMeaning(r)
        <5>1. LastAnswer.is # "other"
          BY <4>1 DEF r
        <5> QED  BY <2>4, <5>1 DEF r
      <4>3. CASE h.h_addr_list[1] = Null
        <5>1. got = [is |-> "herror", of |-> 0]
          BY <4>1, <4>2, <4>3, Zenon DEF HostMeaning
        <5> QED  BY <2>7, <3>4, <4>3, <5>1, Zenon DEF ClientSeesLastAnswer, got, h
      <4>4. CASE h.h_addr_list[1] # Null
        <5>1. got = r
          BY <4>1, <4>2, <4>4, Zenon DEF HostMeaning
        <5> QED  BY <2>7, <3>4, <4>1, <4>4, <5>1, Zenon DEF ClientSeesLastAnswer, got, h
      <4> QED  BY <4>3, <4>4
    <3> QED  BY <3>3, <3>4
  <2> QED  BY <2>5, <2>6, <2>7
<1> QED  BY InitIInv, NextIInv, InitLastCall, NextLastCall, <1>1, PTL DEF Spec
=============================================================================
