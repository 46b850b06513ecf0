------------------------------ MODULE Handlers ------------------------------
(***************************************************************************)
(* src/handlers.rs with the reply headers of src/protocol.rs: what a       *)
(* request is answered with, given what the name service said.             *)
(*                                                                         *)
(* A reply is a sequence of cells: a native-endian integer of four bytes,  *)
(* or one byte.  A string is the sequence of its bytes without the NUL;    *)
(* strings come from C, so CString::new cannot find a NUL inside them, and *)
(* their lengths fit an i32.                                               *)
(*                                                                         *)
(* A key has a length and a text.  "number" and "name" are NUL-terminated  *)
(* and valid UTF-8, "latin_number" and "latin" NUL-terminated but not      *)
(* UTF-8, and atoi finds an integer at the start of the numbers only;      *)
(* "bytes" has no NUL at its end, or one too many.  `name' is the string.  *)
(***************************************************************************)
EXTENDS Protocol, Sequences, SequencesExt

\* What the name service returns.
CString == Seq(1 .. 255)
Option(S) == [is : {"none"}] \cup [is : {"some"}, of : S]
User == [name : CString, passwd : CString, uid : Nat, gid : Nat,
         gecos : CString, dir : CString, shell : CString]
Group == [name : CString, passwd : CString, gid : Nat, mem : Seq(CString)]

AF_INET == 2
AF_INET6 == 10
Address == [family : {AF_INET}, octets : [1 .. 4 -> 0 .. 255]]
           \cup [family : {AF_INET6}, octets : [1 .. 16 -> 0 .. 255]]
AiEntry == [is : {"ok", "err"}, addr : Address, canon : Option(CString)]

\* The addresses of a hostent are of one family.
Host == {h \in [name : CString, aliases : Seq(CString),
                addr_list : Seq(Address), herrno : Int] :
           \A i, j \in 1 .. Len(h.addr_list) :
             h.addr_list[i].family = h.addr_list[j].family}

UserResult == [is : {"err"}] \cup Option(User)
GroupResult == [is : {"err"}] \cup Option(Group)
ListResult == [user : {"err", "none", "some"},
               list : [is : {"err"}] \cup [is : {"some"}, of : Seq(Nat)]]
AiResult == [is : {"err"}] \cup [is : {"some"}, of : Seq(AiEntry)]
HostResult == [is : {"other"}] \cup [is : {"herror"}, of : Int]
              \cup [is : {"ok"}, of : Host]

Word(n) == [width |-> 4, value |-> n]
Byte(b) == [width |-> 1, value |-> b]

\* The cells of a header, of a list of sizes, of a CString, of an address.
Ints(s) == [i \in 1 .. Len(s) |-> Word(s[i])]
Bytes(s) == [i \in 1 .. Len(s) |-> Byte(s[i])]
CStr(s) == Bytes(Append(s, 0))
LenWithNul(s) == Len(s) + 1

\* The same for a whole vector of strings, one after the other.
CStrs(ss) == FlattenSeq([i \in 1 .. Len(ss) |-> CStr(ss[i])])
LensWithoutNul(ss) == Ints([i \in 1 .. Len(ss) |-> Len(ss[i])])  \* mutant
LensWithNul(ss) == Ints([i \in 1 .. Len(ss) |-> LenWithNul(ss[i])])

Reply(cells) == [is |-> "reply", cells |-> cells]

\* The #[repr(C)] headers, field by field.
PwResponseHeader(version, found, name, passwd, uid, gid, gecos, dir, shell) ==
  Ints(<<version, found, name, passwd, uid, gid, gecos, dir, shell>>)
GrResponseHeader(version, found, name_len, passwd_len, gid, mem_cnt) ==
  Ints(<<version, found, name_len, passwd_len, gid, mem_cnt>>)
InitgroupsResponseHeader(version, found, ngrps) ==
  Ints(<<version, found, ngrps>>)
AiResponseHeader(version, found, naddrs, addrslen, canonlen, error) ==
  Ints(<<version, found, naddrs, addrslen, canonlen, error>>)
HstResponseHeader(version, found, name, aliases, addrtype, length, addrs, error) ==
  Ints(<<version, found, name, aliases, addrtype, length, addrs, error>>)

-----------------------------------------------------------------------------
(* Option<User> and Option<Group> are [is |-> "none"] or [is |-> "some",   *)
(* of |-> the record].                                                     *)

serialize_user(user) ==
  IF user.is = "none" THEN Reply(PwResponseHeader(0, 0, 0, 0, 0, 0, 0, 0, 0))
  ELSE LET u == user.of
       IN  Reply(PwResponseHeader(VERSION, 1, LenWithNul(u.name),
                                  LenWithNul(u.passwd), u.uid, u.gid,
                                  LenWithNul(u.gecos), LenWithNul(u.dir),
                                  LenWithNul(u.shell))
                 \o CStr(u.name) \o CStr(u.passwd) \o CStr(u.gecos)
                 \o CStr(u.dir) \o CStr(u.shell))

serialize_group(group) ==
  IF group.is = "none" THEN Reply(GrResponseHeader(0, 0, 0, 0, 0, 0))
  ELSE LET g == group.of
       IN  Reply(GrResponseHeader(VERSION, 1, LenWithNul(g.name),
                                  LenWithNul(g.passwd), g.gid, Len(g.mem))
                 \o LensWithNul(g.mem)
                 \o CStr(g.name) \o CStr(g.passwd) \o CStrs(g.mem))

\* A gid is a u32; one past i32::MAX fails to convert, and with it the reply.
serialize_initgroups(groups) ==
  IF \E i \in 1 .. Len(groups) : groups[i] > I32Max THEN Err
  ELSE Reply(InitgroupsResponseHeader(VERSION, 1, Len(groups))
             \o Ints(groups))

Octets(addrs) ==
  FlattenSeq([i \in 1 .. Len(addrs) |-> Bytes(addrs[i].octets)])
HasFamily(addrs, family) ==
  \E i \in 1 .. Len(addrs) : addrs[i].family = family

\* Hostent::error_value
error_value(herrno) ==
  [name |-> <<>>, aliases |-> <<>>, addr_list |-> <<>>, herrno |-> herrno]

serialize_hostent(h) ==
  LET inet == HasFamily(h.addr_list, AF_INET)
      inet6 == HasFamily(h.addr_list, AF_INET6)
  IN  IF inet /\ inet6 THEN Err
      ELSE IF h.addr_list = <<>>
      THEN Reply(HstResponseHeader(VERSION, 0, 0, 0, -1, -1, 0, h.herrno))
      ELSE Reply(HstResponseHeader(VERSION, 1, LenWithNul(h.name),
                                   Len(h.aliases),
                                   IF inet THEN AF_INET ELSE AF_INET6,
                                   IF inet THEN 4 ELSE 16,
                                   Len(h.addr_list), h.herrno)
                 \o CStr(h.name) \o LensWithNul(h.aliases)
                 \o Octets(h.addr_list) \o CStrs(h.aliases))

serialize_address_info(resp) ==
  LET families == [i \in 1 .. Len(resp.addrs) |-> resp.addrs[i].family]
      addrs == Octets(resp.addrs)
  IN  IF Len(addrs) > 0
      THEN Reply(AiResponseHeader(VERSION, 1, Len(resp.addrs), Len(addrs),
                                  LenWithNul(resp.canon_name), 0)
                 \o addrs \o Bytes(families) \o CStr(resp.canon_name))
      ELSE Reply(AiResponseHeader(VERSION, 0, 0, 0, 0, 0))

-----------------------------------------------------------------------------
(* The arms of handle_request.  `answer' is what the lookup returned; an   *)
(* error of a key or of a lookup refuses the request.                      *)

IsStr(key) == key.text \in {"number", "name"}
IsNumber(key) == key.text \in {"number", "latin_number"}

getpwbyuid(key, answer) == IF IsNumber(key) /\ answer.is # "err"
                           THEN serialize_user(answer) ELSE Err

NameMustExist(key, answer) ==  \* mutant: no such user is an error
  IF IsStr(key) /\ answer.is = "some" THEN serialize_user(answer) ELSE Err

getpwbyname(key, answer) == IF IsStr(key) /\ answer.is # "err"
                            THEN serialize_user(answer) ELSE Err

getgrbygid(key, answer) == IF IsNumber(key) /\ answer.is # "err"
                           THEN serialize_group(answer) ELSE Err

getgrbyname(key, answer) == IF IsStr(key) /\ answer.is # "err"
                            THEN serialize_group(answer) ELSE Err

\* answer.user is what User::from_name found, answer.list what getgrouplist
\* did; the latter's failure is logged and stands for an empty list.
GroupsOf(answer) == IF answer.user = "some" /\ answer.list.is = "some"
                    THEN answer.list.of ELSE <<>>
initgroups(key, answer) == IF IsStr(key) /\ answer.user # "err"
                           THEN serialize_initgroups(GroupsOf(answer))
                           ELSE Err

\* filter_map(|e| e.ok()): the entries that are errors are dropped.
OkEntries(list) ==
  FlattenSeq([i \in 1 .. Len(list) |->
                IF list[i].is = "ok" THEN <<list[i]>> ELSE <<>>])

\* The first entry left may carry the canonical name, else the name asked for
\* is used.
AiResponse(key, answer) ==
  LET entries == IF answer.is = "err" THEN <<>> ELSE OkEntries(answer.of)
  IN  [canon_name |-> IF entries # <<>> /\ entries[1].canon.is = "some"
                      THEN entries[1].canon.of ELSE key.name,
       addrs |-> [i \in 1 .. Len(entries) |-> entries[i].addr]]
getai(key, answer) == IF IsStr(key)
                      THEN serialize_address_info(AiResponse(key, answer))
                      ELSE Err

\* Ok(hostent), Err(HError(n)) or Err(Other(_)).
HostReply(answer) ==
  CASE answer.is = "ok"     -> serialize_hostent(answer.of)
    [] answer.is = "herror" -> serialize_hostent(error_value(answer.of))
    [] answer.is = "other"  -> Err

gethostbyaddr(key, answer) == IF key.len = 4 THEN HostReply(answer) ELSE Err
gethostbyaddrv6(key, answer) == IF key.len = 16 THEN HostReply(answer) ELSE Err
gethostbyname(key, answer) == IF IsStr(key) THEN HostReply(answer) ELSE Err
gethostbynamev6(key, answer) == IF IsStr(key) THEN HostReply(answer) ELSE Err

\* Types that get an empty reply: nothing to invalidate, nothing to share,
\* nobody to shut down, nothing implemented.
GetFd == {GETFDPW, GETFDGR, GETFDHST, GETFDSERV, GETFDNETGR}
Unimplemented == {GETSTAT, GETSERVBYNAME, GETSERVBYPORT, GETNETGRENT, INNETGR,
                  LASTREQ}
Unanswered == {INVALIDATE, SHUTDOWN} \cup GetFd \cup Unimplemented

\* Config::should_ignore
should_ignore(ignored, ty) == ty \in ignored

handle_request(ignored, ty, key, answer) ==
  IF should_ignore(ignored, ty) \/ ty \in Unanswered THEN Reply(<<>>)
  ELSE CASE ty = GETPWBYUID      -> getpwbyuid(key, answer)
         [] ty = GETPWBYNAME     -> getpwbyname(key, answer)
         [] ty = GETGRBYGID      -> getgrbygid(key, answer)
         [] ty = GETGRBYNAME     -> getgrbyname(key, answer)
         [] ty = INITGROUPS      -> initgroups(key, answer)
         [] ty = GETAI           -> getai(key, answer)
         [] ty = GETHOSTBYADDR   -> gethostbyaddr(key, answer)
         [] ty = GETHOSTBYADDRv6 -> gethostbyaddrv6(key, answer)
         [] ty = GETHOSTBYNAME   -> gethostbyname(key, answer)
         [] ty = GETHOSTBYNAMEv6 -> gethostbynamev6(key, answer)

\* The keys for which a request gets as far as a lookup.
GoodKey(ty, key) == CASE ty \in {GETPWBYUID, GETGRBYGID} -> IsNumber(key)
                      [] ty = GETHOSTBYADDR              -> key.len = 4
                      [] ty = GETHOSTBYADDRv6            -> key.len = 16
                      [] OTHER                           -> IsStr(key)
=============================================================================
