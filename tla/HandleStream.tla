---------------------------- MODULE HandleStream ----------------------------
(***************************************************************************)
(* handle_stream of src/main.rs: a worker, one connection, and the client  *)
(* at its other end, whose bytes arrive when they please and who may leave *)
(* at any time.  One read, one parse, one lookup, one write, one shutdown. *)
(***************************************************************************)
EXTENDS GlibcClient

CONSTANTS BufSize,        \* size of the worker's buffer
          Ignored,        \* config.ignored_request_types
          Message,        \* what a client may send: [buf, text, name]
          UserAnswer,     \* what User::from_uid and from_name may return,
          GroupAnswer,    \*   Group::from_gid and from_name,
          ListAnswer,     \*   User::from_name and getgrouplist,
          AiAnswer,       \*   getaddrinfo,
          HostAnswer      \*   gethostbyaddr_r and gethostbyname2_r

ASSUME HandleStreamAssumption == /\ BufSize \in 0 .. I32Max
                                 /\ Ignored \subseteq RequestType
                                 /\ \A m \in Message : /\ m.buf \in Buffer
                                                        /\ m.name \in CString
                                 /\ UserAnswer \subseteq UserResult
                                 /\ GroupAnswer \subseteq GroupResult
                                 /\ ListAnswer \subseteq ListResult
                                 /\ AiAnswer \subseteq AiResult
                                 /\ HostAnswer \subseteq HostResult

VARIABLES at,         \* where the worker is in handle_stream
          sent,       \* the message the client is sending
          arrived,    \* how many of its bytes are at the socket
          gone,       \* has the client hung up?
          buf,        \* the worker's buffer, once read into
          request,    \* the result of parse
          answer,     \* what the lookup returned
          response,   \* the reply of handle_request
          delivered   \* what the client received

vars == <<at, sent, arrived, gone, buf, request, answer, response, delivered>>
clientVars == <<sent, arrived, gone>>

NoAnswer == [is |-> "unasked"]

Location == {"read", "parse", "handle", "write", "shutdown", "returned",
             "panicked"}

Init == /\ at = "read"
        /\ sent \in Message
        /\ arrived = 0
        /\ gone = FALSE
        /\ buf = Prefix(sent.buf, 0)
        /\ request = Err
        /\ answer = NoAnswer
        /\ response = <<>>
        /\ delivered = <<>>

-----------------------------------------------------------------------------
(* The client.                                                             *)

Arrive(n) == /\ ~gone
             /\ n > arrived
             /\ arrived' = n
             /\ UNCHANGED <<at, sent, gone, buf, request, answer, response,
                            delivered>>

HangUp == /\ ~gone
          /\ gone' = TRUE
          /\ UNCHANGED <<at, sent, arrived, buf, request, answer, response,
                         delivered>>

-----------------------------------------------------------------------------
(* The worker.                                                             *)

\* stream.read returns what is there, up to the size of the buffer, and waits
\* only if there is nothing; at the end of the stream it returns 0.
Read == /\ at = "read"
        /\ arrived > 0 \/ gone
        /\ at' = "parse"
        /\ buf' = Prefix(sent.buf, IF arrived < BufSize THEN arrived
                                                        ELSE BufSize)
        /\ UNCHANGED <<clientVars, request, answer, response, delivered>>

ReadFails == /\ at = "read"
             /\ at' = "returned"
             /\ UNCHANGED <<clientVars, buf, request, answer, response,
                            delivered>>

\* Request::parse(&buf[0..size_read])
Parse == /\ at = "parse"
         /\ request' = parse(buf)
         /\ at' = CASE parse(buf).is = "ok"    -> "handle"
                    [] parse(buf).is = "err"   -> "returned"
                    [] parse(buf).is = "panic" -> "panicked"
         /\ UNCHANGED <<clientVars, buf, answer, response, delivered>>

Key == [len |-> request.key_len, text |-> sent.text, name |-> sent.name]

\* What the name service may say to a request of this type.
Answers(ty) ==
  CASE ty \in {GETPWBYUID, GETPWBYNAME} -> UserAnswer
    [] ty \in {GETGRBYGID, GETGRBYNAME} -> GroupAnswer
    [] ty = INITGROUPS                  -> ListAnswer
    [] ty = GETAI                       -> AiAnswer
    [] ty \in {GETHOSTBYADDR, GETHOSTBYADDRv6, GETHOSTBYNAME, GETHOSTBYNAMEv6}
                                        -> HostAnswer
    [] ty \in Unanswered                -> {NoAnswer}

\* handlers::handle_request; an error is logged and the stream dropped.
Handle(ans) ==
  LET result == handle_request(Ignored, request.ty, Key, ans)
  IN  /\ at = "handle"
      /\ answer' = ans
      /\ response' = IF result.is = "reply" THEN result.cells ELSE <<>>
      /\ at' = IF result.is = "reply" THEN "write" ELSE "returned"
      /\ UNCHANGED <<clientVars, buf, request, delivered>>

\* write_all: the whole reply, to a client that is there to read it.
Write == /\ at = "write"
         /\ ~gone
         /\ delivered' = response
         /\ at' = "shutdown"
         /\ UNCHANGED <<clientVars, buf, request, answer, response>>

\* A client that left resets the connection, which is not worth a word.
WriteFails == /\ at = "write"
              /\ gone
              /\ at' = "shutdown"
              /\ UNCHANGED <<clientVars, buf, request, answer, response,
                             delivered>>

\* stream.shutdown; its failure is logged only.  The stream is dropped.
Shutdown == /\ at = "shutdown"
            /\ at' = "returned"
            /\ UNCHANGED <<clientVars, buf, request, answer, response,
                           delivered>>

Finished == at \in {"returned", "panicked"} /\ UNCHANGED vars

Next == \/ \E n \in 1 .. sent.buf.len : Arrive(n)
        \/ HangUp
        \/ Read
        \/ ReadFails
        \/ Parse
        \/ /\ at = "handle"
           /\ \E ans \in Answers(request.ty) : Handle(ans)
        \/ Write
        \/ WriteFails
        \/ Shutdown
        \/ Finished

Spec == Init /\ [][Next]_vars

-----------------------------------------------------------------------------
(***************************************************************************)
(* A worker acts only on a request that the client sent in full, with the  *)
(* type and the key the client gave it, however the bytes were cut up on   *)
(* their way: into several packets, or by the size of the buffer.          *)
(***************************************************************************)
RequestIsWhatWasSent ==
  at \in {"handle", "write", "shutdown"} =>
    /\ WellFormed(sent.buf)
    /\ request = Ok(sent.buf.ty, sent.buf.key_len)

\* The inductive invariant behind it: the buffer holds a prefix of the message,
\* and what has been parsed is that prefix.
BufferIsPrefix ==
  /\ at \in Location
  /\ sent \in Message
  /\ arrived \in 0 .. sent.buf.len
  /\ \E n \in 0 .. sent.buf.len : buf = Prefix(sent.buf, n)

ParsedIsBuffer == at \in {"handle", "write", "shutdown"} =>
                    request = parse(buf) /\ request.is = "ok"

IInv == BufferIsPrefix /\ ParsedIsBuffer

\* What handle_request made of the request and the answer to it.
Result == handle_request(Ignored, request.ty, Key, answer)
Handled == /\ request.is = "ok"
           /\ request.ty \in RequestType
           /\ answer \in Answers(request.ty)
Replied == Handled /\ Result.is = "reply" /\ response = Result.cells

\* The inductive invariant behind the next two properties: where the reply is
\* on its way, and why a connection may have ended without one.
ReplyOnItsWay ==
  /\ at \in {"read", "parse"} => request = Err
  /\ at \in {"write", "shutdown"} => Replied
  /\ at = "shutdown" => gone \/ delivered = response
  /\ at = "returned" => \/ request.is # "ok"
                        \/ Handled /\ Result.is # "reply"
                        \/ Replied /\ (gone \/ delivered = response)
  /\ delivered # <<>> => /\ at \in {"shutdown", "returned"}
                         /\ Replied /\ delivered = response

(***************************************************************************)
(* A client that cuts the reply by the lengths in its header finds exactly *)
(* what the name service answered: every field, in its place, with nothing *)
(* left over.                                                              *)
(***************************************************************************)
ReplyDecodes ==
  delivered # <<>> =>
    Decode(request.ty, delivered) = Meaning(request.ty, Key, answer)

\* A lookup of this type was made, and the name service came up with a result.
LookedUp == /\ request.is = "ok"
            /\ request.ty \notin Ignored \cup Unanswered
            /\ GoodKey(request.ty, Key)

(***************************************************************************)
(* Every lookup that did not fail is answered, also one that found         *)
(* nothing: a client that stays is told so and need not guess from a       *)
(* closed connection.  (Group lists are the subject of the next property.) *)
(***************************************************************************)
LookupIsAnswered ==
  at = "returned" /\ LookedUp /\ ~gone /\ request.ty # INITGROUPS =>
    delivered # <<>> \/ answer.is \in {"err", "other"}

(***************************************************************************)
(* "getting supplementary groups never fails", "we return found = 1 and an *)
(* empty list if User::from_name fails", and refusing the lookup makes the *)
(* client "skip nsncd for all future lookups" (handle_request).            *)
(***************************************************************************)
InitgroupsIsAnswered ==
  at = "returned" /\ LookedUp /\ ~gone /\ request.ty = INITGROUPS =>
    delivered # <<>>

\* parse answers with a Result on every input: no request unwinds the worker.
ParseReturns == at # "panicked"
=============================================================================
