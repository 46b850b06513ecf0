--------------------------- MODULE MCHandleStream ---------------------------
(* HandleStream for model checking.                                        *)
EXTENDS HandleStream

Msg(len, version, ty, key_len, text, name) ==
  [buf |-> [len |-> len, version |-> version, ty |-> ty, key_len |-> key_len],
   text |-> text, name |-> name]

-----------------------------------------------------------------------------
(* Requests of every shape: lengths around the header, the key, the buffer *)
(* and both ends of i32.                                                   *)

AnyRequest ==
  {Msg(len, version, ty, key_len, "name", <<1>>) :
     len \in {0, 11, 12, 13, 14, 15, 40, 41}, version \in {1, 2},
     ty \in {-1, SHUTDOWN, LASTREQ, LASTREQ + 1},
     key_len \in {-128, -13, -12, -1, 0, 1, 2, 28, 29, 115, 116, 127}}

-----------------------------------------------------------------------------
(* One well-formed request of every type and kind of key, and every answer *)
(* that two-letter strings and short lists can make up.                    *)

GoodRequest ==
  {Msg(14, VERSION, ty, 2, text, <<1>>) :
     ty \in RequestType,
     text \in {"number", "name", "latin_number", "latin", "bytes"}}
  \cup {Msg(12 + n, VERSION, ty, n, "bytes", <<>>) :
          n \in {4, 16}, ty \in {GETHOSTBYADDR, GETHOSTBYADDRv6}}

Strings == {<<>>, <<1>>, <<1, 2>>}
Lists(S) == UNION {[1 .. n -> S] : n \in 0 .. 2}
Failed == {[is |-> "err"]}
NotThere == {Absent}

Users == [name : {<<1>>}, passwd : {<<>>, <<3>>}, uid : {0, 200}, gid : {7},
          gecos : Strings, dir : Strings, shell : Strings]
UserAnswers == Failed \cup NotThere \cup {Some(u) : u \in Users}

Groups == [name : {<<1>>, <<1, 2>>}, passwd : Strings, gid : {0, 200},
           mem : Lists(Strings)]
GroupAnswers == Failed \cup NotThere \cup {Some(g) : g \in Groups}

ListAnswers ==
  [user : {"err", "none", "some"},
   list : Failed \cup {Some(l) : l \in Lists({0, 7, 127})}]

\* With a gid that is a valid u32 but not an i32.
WideListAnswers ==
  [user : {"err", "some"}, list : {Some(l) : l \in Lists({0, 127, 128})}]

V4 == [family |-> AF_INET, octets |-> <<127, 0, 0, 1>>]
V4b == [family |-> AF_INET, octets |-> <<10, 0, 0, 2>>]
V6 == [family |-> AF_INET6,
       octets |-> <<0, 0, 0, 0, 0, 0, 0, 0, 0, 0, 0, 0, 0, 0, 0, 1>>]

AiEntries == [is : {"err", "ok"}, addr : {V4, V6},
              canon : {Absent, Some(<<1, 2>>)}]
AiAnswers == Failed \cup {Some(l) : l \in Lists(AiEntries)}

\* glibc's hostent has addresses of one family only.
Hosts == [name : {<<1>>, <<1, 2>>}, aliases : Lists(Strings), herrno : {0},
          addr_list : Lists({V4, V4b}) \cup Lists({V6})]
HostAnswers == {[is |-> "other"]}
               \cup {[is |-> "herror", of |-> n] : n \in {-1, 1, 2}}
               \cup {[is |-> "ok", of |-> h] : h \in Hosts}

Requests == AnyRequest \cup GoodRequest

IgnoredTypes == {GETGRBYGID}
=============================================================================
