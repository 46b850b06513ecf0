---------------------------- MODULE MCHostLookup ----------------------------
(* HostLookup for model checking, with the sizes of the code.              *)
EXTENDS HostLookup

\* Around the sizes a buffer can have, and around the limit.
Needs == {0, 1024, 1025, 8388609, 9999999, 10000000, 10000001, 16777217,
          67108865}

V4 == <<127, 0, 0, 1>>
V4b == <<10, 0, 0, 2>>
V6 == <<0, 0, 0, 0, 0, 0, 0, 0, 0, 0, 0, 0, 0, 0, 0, 1>>

\* Arrays that end where they should, and the memory behind them.
AliasArrays == {<<Null, <<3>>>>, <<<<1, 2>>, Null>>,
                <<<<1>>, <<>>, Null, <<3>>, Null>>}
Hostent(name, aliases, types, lengths, addrs) ==
  [h_name : {name}, h_aliases : aliases, h_addrtype : types,
   h_length : lengths, h_addr_list : addrs]

Hostents ==
  Hostent(<<1, 2>>, AliasArrays, {AF_INET}, {4},
          {<<Null>>, <<V4, V4b, Null>>, <<V6, Null, V4>>})
  \cup Hostent(<<1, 2>>, AliasArrays, {AF_INET6}, {16}, {<<V6, Null>>})
  \cup Hostent(<<1, 2>>, {<<Null>>}, {AF_INET, AF_INET6, 1}, {4, 16}, {<<V6, Null>>})
  \cup Hostent(Null, {<<Null>>}, {AF_INET}, {4}, {<<V4, Null>>})

Said == {[need |-> n, hostent |-> h, herrno |-> 0] :
           n \in {0, 1025}, h \in Hostents}
        \cup {[need |-> n, hostent |-> Null, herrno |-> e] :
                n \in Needs, e \in {1, 2}}
=============================================================================
