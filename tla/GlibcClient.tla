----------------------------- MODULE GlibcClient -----------------------------
(***************************************************************************)
(* The reader of the replies, which is glibc and not part of nsncd: it     *)
(* trusts the header and cuts what follows by the lengths found there.     *)
(* The layouts are the ones the comments of handlers.rs and protocol.rs    *)
(* and the captured reply in test_hostent_serialization describe.          *)
(***************************************************************************)
EXTENDS Handlers

Values(cells) == [i \in 1 .. Len(cells) |-> cells[i].value]
From(cells, i) == SubSeq(cells, i, Len(cells))

\* Where piece i starts when pieces of these lengths follow each other.
Offset(lens) == LET off[i \in 1 .. Len(lens) + 1] ==
                      IF i = 1 THEN 0 ELSE off[i - 1] + lens[i - 1]
                IN  off

\* The reply is used up exactly, by pieces of one width each.
Fits(cells, lens) ==
  LET off == Offset(lens)
  IN  /\ off[Len(lens) + 1] = Len(cells)
      /\ \A p \in 1 .. Len(lens) :
           \A i, j \in off[p] + 1 .. off[p + 1] : cells[i].width = cells[j].width

Cut(cells, lens) ==
  LET off == Offset(lens)
  IN  [p \in 1 .. Len(lens) |->
         Values(SubSeq(cells, off[p] + 1, off[p + 1]))]

Garbled == [is |-> "garbled"]
Some(x) == [is |-> "some", of |-> x]
Absent == [is |-> "none"]
Found(cells) == cells[2].value = 1

\* getpwnam_r, getpwuid_r
DecodeUser(cells) ==
  LET h == Values(cells)
      lens == <<h[3], h[4], h[7], h[8], h[9]>>
      body == From(cells, 10)
      p == Cut(body, lens)
  IN  IF ~Found(cells) THEN Absent
      ELSE IF ~Fits(body, lens) THEN Garbled
      ELSE Some([name |-> Front(p[1]), passwd |-> Front(p[2]), uid |-> h[5],
                 gid |-> h[6], gecos |-> Front(p[3]), dir |-> Front(p[4]),
                 shell |-> Front(p[5])])

\* getgrnam_r, getgrgid_r
DecodeGroup(cells) ==
  LET h == Values(cells)
      lens == <<h[3], h[4]>> \o SubSeq(h, 7, 6 + h[6])
      body == From(cells, 7 + h[6])
      p == Cut(body, lens)
  IN  IF ~Found(cells) THEN Absent
      ELSE IF ~Fits(body, lens) THEN Garbled
      ELSE Some([name |-> Front(p[1]), passwd |-> Front(p[2]), gid |-> h[5],
                 mem |-> [i \in 1 .. h[6] |-> Front(p[2 + i])]])

\* getgrouplist
DecodeInitgroups(cells) ==
  IF Found(cells) /\ Fits(From(cells, 4), <<cells[3].value>>)
  THEN Some(Values(From(cells, 4))) ELSE Garbled

\* gethostbyname2_r, gethostbyaddr_r
DecodeHostent(cells) ==
  LET h == Values(cells)
      sizes == SubSeq(h, 9 + h[3], 8 + h[3] + h[4])
      addrs == [i \in 1 .. h[7] |-> h[6]]
      lens == <<h[3], h[4]>> \o addrs \o sizes
      body == From(cells, 9)
      p == Cut(body, lens)
  IN  IF ~Found(cells) THEN [is |-> "herror", of |-> h[8]]
      ELSE IF ~Fits(body, lens) THEN Garbled
      ELSE [is |-> "ok",
            of |-> [name |-> Front(p[1]), herrno |-> h[8],
                    addr_list |-> [i \in 1 .. h[7] |->
                                     [family |-> h[5], octets |-> p[2 + i]]],
                    aliases |-> [i \in 1 .. h[4] |-> Front(p[2 + h[7] + i])]]]

\* getaddrinfo: the families say how to cut the addresses before them.
DecodeAi(cells) ==
  LET h == Values(cells)
      families == SubSeq(h, 7 + h[4], 6 + h[4] + h[3])
      addrs == [i \in 1 .. h[3] |-> IF families[i] = AF_INET THEN 4 ELSE 16]
      lens == addrs \o <<h[3], h[5]>>
      body == From(cells, 7)
      p == Cut(body, lens)
  IN  IF ~Found(cells) THEN Absent
      ELSE IF ~Fits(body, lens) THEN Garbled
      ELSE Some([canon_name |-> Front(p[h[3] + 2]),
                 addrs |-> [i \in 1 .. h[3] |-> [family |-> families[i],
                                                 octets |-> p[i]]]])

Decode(ty, cells) ==
  CASE ty \in {GETPWBYUID, GETPWBYNAME} -> DecodeUser(cells)
    [] ty \in {GETGRBYGID, GETGRBYNAME} -> DecodeGroup(cells)
    [] ty = INITGROUPS                  -> DecodeInitgroups(cells)
    [] ty = GETAI                       -> DecodeAi(cells)
    [] OTHER                            -> DecodeHostent(cells)

\* What a client should learn from the answer of the name service.
Meaning(ty, key, answer) ==
  CASE ty = INITGROUPS -> Some(GroupsOf(answer))
    [] ty = GETAI      -> LET resp == AiResponse(key, answer)
                          IN  IF resp.addrs = <<>> THEN Absent ELSE Some(resp)
    [] ty \in {GETPWBYUID, GETPWBYNAME, GETGRBYGID, GETGRBYNAME} -> answer
    [] OTHER           -> IF answer.is = "ok" /\ answer.of.addr_list = <<>>
                          THEN [is |-> "herror", of |-> answer.of.herrno]
                          ELSE answer
=============================================================================
