------------------------------ MODULE Protocol ------------------------------
(***************************************************************************)
(* src/protocol.rs: the request types and Request::parse.                  *)
(*                                                                         *)
(* A buffer is a record: its length, the three integers at its start, and  *)
(* what its key is like (see Handlers.tla).  The integers mean something   *)
(* only if the buffer is long enough to hold them.  An i32 ranges over     *)
(* -(I32Max + 1) .. I32Max: 2^31 - 1 in the code, less for model checking. *)
(***************************************************************************)
EXTENDS Integers

CONSTANTS I32Max,         \* i32::MAX
          OverflowChecks  \* TRUE in a debug build, FALSE in a release build

ASSUME ProtocolAssumption == /\ I32Max \in Nat
                             /\ I32Max >= 22
                             /\ OverflowChecks \in BOOLEAN

I32 == -(I32Max + 1) .. I32Max

VERSION == 2

\* The values of enum RequestType, in order.
GETPWBYNAME == 0
GETPWBYUID == 1
GETGRBYNAME == 2
GETGRBYGID == 3
GETHOSTBYNAME == 4
GETHOSTBYNAMEv6 == 5
GETHOSTBYADDR == 6
GETHOSTBYADDRv6 == 7
SHUTDOWN == 8
GETSTAT == 9
INVALIDATE == 10
GETFDPW == 11
GETFDGR == 12
GETFDHST == 13
GETAI == 14
INITGROUPS == 15
GETSERVBYNAME == 16
GETSERVBYPORT == 17
GETFDSERV == 18
GETNETGRENT == 19
INNETGR == 20
GETFDNETGR == 21
LASTREQ == 22

RequestType == GETPWBYNAME .. LASTREQ

\* The result of one addition of 12 in two's complement.
Wrap(n) == IF n > I32Max THEN n - 2 * (I32Max + 1) ELSE n

\* The three outcomes of parse.
Ok(ty, key_len) == [is |-> "ok", ty |-> ty, key_len |-> key_len]
Err == [is |-> "err"]
Panics == [is |-> "panic"]

\* Too short for a header, wrong version, unknown type: Err, in this order.
HeaderRefused(buf) == \/ buf.len < 12
                      \/ buf.version # VERSION
                      \/ buf.ty \notin RequestType

KeyEndShort(buf) == Wrap(11 + buf.key_len)  \* mutant: off by one
key_end(buf) == Wrap(12 + buf.key_len)

(***************************************************************************)
(* Request::parse.  `12 + key_len' overflows with a panic or by wrapping;  *)
(* a negative sum does not convert to usize; a sum past the end of the     *)
(* buffer is refused; and the slice 12..key_end panics if it is reversed.  *)
(***************************************************************************)
parse(buf) ==
  IF HeaderRefused(buf) THEN Err
  ELSE IF OverflowChecks /\ 12 + buf.key_len > I32Max THEN Panics
  ELSE IF key_end(buf) < 0 \/ buf.len < key_end(buf) THEN Err
  ELSE IF key_end(buf) < 12 THEN Panics
  ELSE Ok(buf.ty, key_end(buf) - 12)

-----------------------------------------------------------------------------
(* What parse is for.                                                      *)

\* handle_stream's buffer has 4096 bytes; what matters is that a length is an
\* i32, because parse does not accept the key of a longer buffer.
Buffer == [len : 0 .. I32Max, version : I32, ty : I32, key_len : I32]

\* A complete request: a header of this version and all of its key.
WellFormed(buf) == /\ buf.len >= 12
                   /\ buf.version = VERSION
                   /\ buf.ty \in RequestType
                   /\ buf.key_len >= 0
                   /\ buf.len >= 12 + buf.key_len

\* The first n bytes of a buffer.
Prefix(buf, n) == [buf EXCEPT !.len = n]
=============================================================================
