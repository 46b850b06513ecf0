------------------------- MODULE HandleStreamProofs -------------------------
(***************************************************************************)
(* Proofs about Request::parse (Protocol.tla), for any width of i32 and    *)
(* both builds, and about handle_stream (HandleStream.tla), for any        *)
(* messages, any answers of the name service and any buffer.               *)
(***************************************************************************)
EXTENDS HandleStream, ReplyProofs

USE ProtocolAssumption DEF ProtocolAssumption

(***************************************************************************)
(* Request::parse accepts exactly the complete requests, and then returns  *)
(* their type and their whole key: no value of the length field, wrapped   *)
(* or not, makes it accept anything else.                                  *)
(***************************************************************************)
THEOREM ParseIsExact ==
  \A b \in Buffer :
    /\ parse(b).is = "ok" <=> WellFormed(b)
    /\ WellFormed(b) => parse(b) = Ok(b.ty, b.key_len)
<1> SUFFICES ASSUME NEW b \in Buffer
             PROVE  /\ parse(b).is = "ok" <=> WellFormed(b)
                    /\ WellFormed(b) => parse(b) = Ok(b.ty, b.key_len)
  OBVIOUS
<1> USE DEF Buffer, I32, HeaderRefused, key_end, Wrap, RequestType, VERSION,
            GETPWBYNAME, LASTREQ
<1>1. ASSUME WellFormed(b) PROVE parse(b) = Ok(b.ty, b.key_len)
  BY <1>1 DEF WellFormed, parse
<1>2. ASSUME ~WellFormed(b) PROVE parse(b) \in {Err, Panics}
  BY <1>2 DEF WellFormed, parse
<1> QED BY <1>1, <1>2 DEF Ok, Err, Panics

(***************************************************************************)
(* handle_stream reads once, so parse may see only the first bytes of what *)
(* a client sends.  What it accepts then is what it would make of the      *)
(* whole: a request that arrives in pieces is refused or read correctly,   *)
(* never taken for another one.                                            *)
(***************************************************************************)
THEOREM PrefixIsNotMisread ==
  \A b \in Buffer : \A n \in 0 .. b.len :
    parse(Prefix(b, n)).is = "ok" => parse(b) = parse(Prefix(b, n))
<1> SUFFICES ASSUME NEW b \in Buffer, NEW n \in 0 .. b.len,
                    parse(Prefix(b, n)).is = "ok"
             PROVE  parse(b) = parse(Prefix(b, n))
  OBVIOUS
<1>1. /\ Prefix(b, n) \in Buffer
      /\ Prefix(b, n).len = n
      /\ Prefix(b, n).version = b.version
      /\ Prefix(b, n).ty = b.ty
      /\ Prefix(b, n).key_len = b.key_len
  BY DEF Prefix, Buffer
<1>2. WellFormed(Prefix(b, n))
  BY <1>1, ParseIsExact
<1>3. WellFormed(b)
  BY <1>1, <1>2 DEF WellFormed, Buffer, I32
<1> QED BY <1>1, <1>2, <1>3, ParseIsExact

(***************************************************************************)
(* The inputs on which parse neither returns Ok nor Err: with a valid      *)
(* header, a length field from -12 to -1 in every build, and one within 12 *)
(* of i32::MAX in a build with overflow checks.                            *)
(***************************************************************************)
THEOREM ParsePanicsExactly ==
  \A b \in Buffer :
    parse(b) = Panics <=>
      /\ ~HeaderRefused(b)
      /\ \/ b.key_len \in -12 .. -1
         \/ OverflowChecks /\ b.key_len > I32Max - 12
<1> SUFFICES ASSUME NEW b \in Buffer
             PROVE  parse(b) = Panics <=>
                      /\ ~HeaderRefused(b)
                      /\ \/ b.key_len \in -12 .. -1
                         \/ OverflowChecks /\ b.key_len > I32Max - 12
  OBVIOUS
<1>1. Panics # Err /\ \A ty, n : Ok(ty, n) # Panics
  BY DEF Panics, Err, Ok
<1> QED BY <1>1 DEF parse, HeaderRefused, key_end, Wrap, Buffer, I32

-----------------------------------------------------------------------------
USE HandleStreamAssumption DEF HandleStreamAssumption

LEMMA InitIInv == Init => IInv
<1> SUFFICES ASSUME Init PROVE IInv
  OBVIOUS
<1>1. sent.buf.len \in Nat
  BY DEF Init, Buffer
<1> QED BY <1>1 DEF Init, IInv, BufferIsPrefix, ParsedIsBuffer, Location

LEMMA NextIInv == IInv /\ [Next]_vars => IInv'
<1> SUFFICES ASSUME IInv, [Next]_vars PROVE IInv'
  OBVIOUS
<1> USE DEF IInv, BufferIsPrefix, ParsedIsBuffer, Location, clientVars
<1>0. sent.buf.len \in Nat
  BY DEF Buffer
<1>1. ASSUME NEW n \in 1 .. sent.buf.len, Arrive(n) PROVE IInv'
  BY <1>0, <1>1 DEF Arrive
<1>2. CASE HangUp
  BY <1>2 DEF HangUp
<1>3. CASE Read
  BY <1>0, <1>3 DEF Read
<1>4. CASE ReadFails
  BY <1>4 DEF ReadFails
<1>5. CASE Parse
  <2>1. parse(buf).is \in {"ok", "err", "panic"}
    BY DEF parse, Ok, Err, Panics
  <2>2. /\ at' \in Location
        /\ at' = "handle" => parse(buf).is = "ok"
        /\ at' \notin {"write", "shutdown"}
    BY <1>5, <2>1 DEF Parse
  <2> QED BY <1>5, <2>2 DEF Parse
<1>6. ASSUME NEW ans, Handle(ans) PROVE IInv'
  BY <1>6 DEF Handle
<1>7. CASE Write \/ WriteFails \/ Shutdown
  BY <1>7 DEF Write, WriteFails, Shutdown
<1>8. CASE UNCHANGED vars
  BY <1>8 DEF vars
<1> QED BY <1>1, <1>2, <1>3, <1>4, <1>5, <1>6, <1>7, <1>8 DEF Next, Finished

\* What has been parsed is what was sent.
LEMMA ReadRight == IInv => RequestIsWhatWasSent
<1> SUFFICES ASSUME IInv, at \in {"handle", "write", "shutdown"}
             PROVE  /\ WellFormed(sent.buf)
                    /\ request = Ok(sent.buf.ty, sent.buf.key_len)
  BY DEF RequestIsWhatWasSent
<1>1. sent.buf \in Buffer
  BY DEF IInv, BufferIsPrefix
<1>2. PICK n \in 0 .. sent.buf.len : buf = Prefix(sent.buf, n)
  BY DEF IInv, BufferIsPrefix
<1>3. request = parse(Prefix(sent.buf, n)) /\ request.is = "ok"
  BY <1>2 DEF IInv, ParsedIsBuffer
<1>4. request = parse(sent.buf)
  BY <1>1, <1>3, PrefixIsNotMisread
<1> QED BY <1>1, <1>3, <1>4, ParseIsExact

(***************************************************************************)
(* However the client's bytes are cut up on their way, a worker acts only  *)
(* on a request that was sent in full, and reads it as it was meant.       *)
(***************************************************************************)
THEOREM RequestIsReadRight == Spec => []RequestIsWhatWasSent
<1> QED BY InitIInv, NextIInv, ReadRight, PTL DEF Spec

-----------------------------------------------------------------------------
(* The reply on its way to the client.                                     *)

\* A request that got past parse has one of the types.
LEMMA AcceptedType ==
  ASSUME IInv, at \in {"handle", "write", "shutdown"}
  PROVE  request.is = "ok" /\ request.ty \in RequestType
<1>1. IInv => RequestIsWhatWasSent
  BY ReadRight
<1>2. WellFormed(sent.buf) /\ request = Ok(sent.buf.ty, sent.buf.key_len)
  BY <1>1 DEF RequestIsWhatWasSent
<1> QED  BY <1>2 DEF WellFormed, Ok

LEMMA InitReply == Init => ReplyOnItsWay
BY DEF Init, ReplyOnItsWay

\* A step that leaves the request, the answer and the reply alone.
LEMMA SameReply ==
  ASSUME UNCHANGED <<sent, request, answer, response>>
  PROVE  /\ Handled' = Handled
         /\ Replied' = Replied
         /\ (Result.is)' = Result.is
<1>1. Key' = Key
  BY DEF Key
<1>2. Result' = Result
  BY <1>1 DEF Result
<1>3. Answers(request.ty)' = Answers(request.ty)
  BY Zenon DEF Answers
<1> QED  BY <1>2, <1>3 DEF Handled, Replied

LEMMA NextReply == IInv /\ ReplyOnItsWay /\ [Next]_vars => ReplyOnItsWay'
<1> SUFFICES ASSUME IInv, ReplyOnItsWay, [Next]_vars PROVE ReplyOnItsWay'
  OBVIOUS
<1> USE DEF clientVars
<1>1. ASSUME NEW n \in 1 .. sent.buf.len, Arrive(n) PROVE ReplyOnItsWay'
  BY <1>1, SameReply DEF Arrive, ReplyOnItsWay
<1>2. CASE HangUp
  BY <1>2, SameReply DEF HangUp, ReplyOnItsWay
<1>3. CASE Read
  BY <1>3, SameReply DEF Read, ReplyOnItsWay
<1>4. CASE ReadFails
  BY <1>4, SameReply DEF ReadFails, ReplyOnItsWay, Err
<1>5. CASE Parse
  <2>1. parse(buf).is \in {"ok", "err", "panic"}
    BY DEF parse, Ok, Err, Panics
  <2>2. /\ at' \in {"handle", "returned", "panicked"}
        /\ at' = "returned" => request'.is # "ok"
        /\ delivered' = <<>>
    BY <1>5, <2>1 DEF Parse, ReplyOnItsWay
  <2> QED  BY <2>2 DEF ReplyOnItsWay
<1>6. ASSUME NEW ans \in Answers(request.ty), Handle(ans) PROVE ReplyOnItsWay'
  <2>1. request.is = "ok" /\ request.ty \in RequestType /\ at = "handle"
    BY <1>6, AcceptedType DEF Handle
  <2>2. Key' = Key /\ request' = request /\ answer' = ans /\ delivered' = <<>>
    BY <1>6, <2>1 DEF Handle, Key, ReplyOnItsWay
  <2>3. Result' = handle_request(Ignored, request.ty, Key, ans)
    BY <2>2 DEF Result
  <2>4. Answers(request.ty)' = Answers(request.ty)
    BY <2>2, Zenon DEF Answers
  <2>5. Handled'
    BY <2>1, <2>2, <2>4 DEF Handled
  <2>6. /\ Result'.is = "reply" => response' = Result'.cells /\ at' = "write"
        /\ Result'.is # "reply" => at' = "returned"
    BY <1>6, <2>3 DEF Handle
  <2> QED  BY <2>2, <2>5, <2>6 DEF ReplyOnItsWay, Replied
<1>7. CASE Write
  BY <1>7, SameReply DEF Write, ReplyOnItsWay
<1>8. CASE WriteFails
  BY <1>8, SameReply DEF WriteFails, ReplyOnItsWay
<1>9. CASE Shutdown
  BY <1>9, SameReply DEF Shutdown, ReplyOnItsWay
<1>10. CASE UNCHANGED vars
  BY <1>10, SameReply DEF vars, ReplyOnItsWay
<1> QED BY <1>1, <1>2, <1>3, <1>4, <1>5, <1>6, <1>7, <1>8, <1>9, <1>10
        DEF Next, Finished

\* The answer to a type that is looked up is what such a lookup can come to.
LEMMA AnswersAreResults ==
  ASSUME NEW ty \in RequestType, ty \notin Unanswered
  PROVE  Answers(ty) \subseteq ResultOf(ty)
<1> USE NumbersHold DEF Numbers
<1>1. CASE ty \in {GETPWBYUID, GETPWBYNAME}
  <2>1. /\ ty \notin {GETGRBYGID, GETGRBYNAME} /\ ty # INITGROUPS /\ ty # GETAI
        /\ ty \notin {GETHOSTBYADDR, GETHOSTBYADDRv6, GETHOSTBYNAME, GETHOSTBYNAMEv6}
    BY <1>1
  <2>2. Answers(ty) = UserAnswer
    BY ONLY <1>1, <2>1, ty \notin Unanswered, Zenon DEF Answers
  <2> QED  BY <1>1, <2>2, Kinds
<1>2. CASE ty \in {GETGRBYGID, GETGRBYNAME}
  <2>1. /\ ty \notin {GETPWBYUID, GETPWBYNAME} /\ ty # INITGROUPS /\ ty # GETAI
        /\ ty \notin {GETHOSTBYADDR, GETHOSTBYADDRv6, GETHOSTBYNAME, GETHOSTBYNAMEv6}
    BY <1>2
  <2>2. Answers(ty) = GroupAnswer
    BY ONLY <1>2, <2>1, ty \notin Unanswered, Zenon DEF Answers
  <2> QED  BY <1>2, <2>2, Kinds
<1>3. CASE ty = INITGROUPS
  <2>1. /\ ty \notin {GETPWBYUID, GETPWBYNAME} /\ ty \notin {GETGRBYGID, GETGRBYNAME}
        /\ ty # GETAI
        /\ ty \notin {GETHOSTBYADDR, GETHOSTBYADDRv6, GETHOSTBYNAME, GETHOSTBYNAMEv6}
    BY <1>3
  <2>2. Answers(ty) = ListAnswer
    BY ONLY <1>3, <2>1, ty \notin Unanswered, Zenon DEF Answers
  <2> QED  BY <1>3, <2>2, Kinds
<1>4. CASE ty = GETAI
  <2>1. /\ ty \notin {GETPWBYUID, GETPWBYNAME} /\ ty \notin {GETGRBYGID, GETGRBYNAME}
        /\ ty # INITGROUPS
        /\ ty \notin {GETHOSTBYADDR, GETHOSTBYADDRv6, GETHOSTBYNAME, GETHOSTBYNAMEv6}
    BY <1>4
  <2>2. Answers(ty) = AiAnswer
    BY ONLY <1>4, <2>1, ty \notin Unanswered, Zenon DEF Answers
  <2> QED  BY <1>4, <2>2, Kinds
<1>5. CASE ty \in HostTypes
  <2>1. /\ ty \notin {GETPWBYUID, GETPWBYNAME} /\ ty \notin {GETGRBYGID, GETGRBYNAME}
        /\ ty # INITGROUPS /\ ty # GETAI
        /\ ty \in {GETHOSTBYADDR, GETHOSTBYADDRv6, GETHOSTBYNAME, GETHOSTBYNAMEv6}
    BY <1>5 DEF HostTypes
  <2>2. Answers(ty) = HostAnswer
    BY ONLY <2>1, ty \notin Unanswered, Zenon DEF Answers
  <2> QED  BY <1>5, <2>2, Kinds
<1> QED  BY <1>1, <1>2, <1>3, <1>4, <1>5, Types

\* The string in the key, whatever the key.
LEMMA KeyName == IInv => Key.name \in CString
BY DEF IInv, BufferIsPrefix, Key

(***************************************************************************)
(* Whatever reaches the client of handle_stream decodes to what the name   *)
(* service answered to the request it sent, for answers of any size.       *)
(***************************************************************************)
THEOREM RepliesAreRead == Spec => []ReplyDecodes
<1>1. IInv /\ ReplyOnItsWay => ReplyDecodes
  <2> SUFFICES ASSUME IInv, ReplyOnItsWay, delivered # <<>>
               PROVE  Decode(request.ty, delivered) = Meaning(request.ty, Key, answer)
    BY DEF ReplyDecodes
  <2>1. /\ request.ty \in RequestType /\ answer \in Answers(request.ty)
        /\ Result.is = "reply" /\ delivered = Result.cells
    BY DEF ReplyOnItsWay, Replied, Handled
  <2>2. request.ty \notin Unanswered
    <3> SUFFICES ASSUME request.ty \in Unanswered PROVE FALSE
      OBVIOUS
    <3>1. Result = Reply(<<>>)
      BY Zenon DEF Result, handle_request
    <3> QED  BY <2>1, <3>1 DEF Reply
  <2>3. answer \in ResultOf(request.ty)
    BY <2>1, <2>2, AnswersAreResults
  <2>4. Key.name \in CString
    BY KeyName
  <2>5. Decode(request.ty, Result.cells) = Meaning(request.ty, Key, answer)
    BY <2>1, <2>3, <2>4, RepliesDecode, Zenon DEF Result
  <2> QED  BY <2>1, <2>5, Zenon
<1> QED  BY InitIInv, NextIInv, InitReply, NextReply, <1>1, PTL DEF Spec

(***************************************************************************)
(* However the steps of the worker and of its client interleave: a client  *)
(* that stays is told the result of every lookup that did not fail.        *)
(***************************************************************************)
THEOREM LookupsReachTheClient == Spec => []LookupIsAnswered
<1>1. IInv /\ ReplyOnItsWay => LookupIsAnswered
  <2> SUFFICES ASSUME IInv, ReplyOnItsWay, at = "returned", LookedUp, ~gone,
                      request.ty # INITGROUPS, answer.is \notin {"err", "other"}
               PROVE  delivered # <<>>
    BY DEF LookupIsAnswered
  <2>1. /\ request.is = "ok" /\ request.ty \notin Ignored
        /\ request.ty \notin Unanswered /\ GoodKey(request.ty, Key)
    BY DEF LookedUp
  <2>2. /\ Handled
        /\ Result.is = "reply" => delivered = Result.cells
    BY <2>1 DEF ReplyOnItsWay, Replied
  <2>3. request.ty \in RequestType /\ answer \in ResultOf(request.ty)
    BY <2>1, <2>2, AnswersAreResults DEF Handled
  <2>4. Key.name \in CString
    BY KeyName
  <2>5. Result.is = "reply" /\ Result.cells # <<>>
    BY <2>1, <2>3, <2>4, LookupsAreAnswered, Zenon DEF Result
  <2> QED  BY <2>2, <2>5
<1> QED  BY InitIInv, NextIInv, InitReply, NextReply, <1>1, PTL DEF Spec
=============================================================================
