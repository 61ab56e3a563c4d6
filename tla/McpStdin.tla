------------------------------ MODULE McpStdin ------------------------------
(***************************************************************************)
(* read_line_limited, the reader of the MCP server's stdin.  A byte is its *)
(* place in the input.  A step is one fill_buf, which gives the bytes up   *)
(* to a place nobody chooses, and what is consumed of them.  What a call   *)
(* returns is answered before the next one.  Errors of the pipe and bytes  *)
(* that are not UTF-8 are left out.                                        *)
(***************************************************************************)
EXTENDS Integers, Sequences

CONSTANTS Limit,      \* MAX_REQUEST_SIZE
          MaxBytes    \* bound of the inputs

ASSUME LimitAssumption == Limit \in Nat /\ MaxBytes \in Nat

VARIABLES stdin,      \* what the client writes until it closes the pipe
          consumed,   \* bytes that the reader has consumed
          begun,      \* bytes consumed when the current call began
          skipping,   \* the call is in skip_until_newline
          got         \* what the calls returned: an error or the bytes of a line

reader == <<stdin, consumed, begun, skipping, got>>

Inputs == UNION {[bytes : {n}, newlines : SUBSET (1..n)] : n \in 0..MaxBytes}
Empty == [bytes |-> 0, newlines |-> {}]

ReaderInit ==
  /\ stdin = Empty
  /\ consumed = 0 /\ begun = 0 /\ skipping = FALSE /\ got = <<>>

WriteInput ==
  /\ stdin = Empty
  /\ stdin' \in Inputs \ {Empty}
  /\ UNCHANGED <<consumed, begun, skipping, got>>

-----------------------------------------------------------------------------
(* One fill_buf.  The bytes behind consumed, up to upto, are available.    *)

Places == (consumed + 1)..stdin.bytes
Newlines(upto) == stdin.newlines \cap (consumed + 1)..upto
Position(upto) == {n \in Newlines(upto) : \A m \in Newlines(upto) : n <= m}

Returns(kind, last) ==
  got' = Append(got, [kind |-> kind, first |-> begun + 1, last |-> last])

\* A newline is found: the call ends behind it.
TakeLine(upto) ==
  /\ ~skipping
  /\ \E n \in Position(upto) :
       /\ Returns(IF n - 1 - begun > Limit THEN "error" ELSE "line", n - 1)
       /\ consumed' = n /\ begun' = n
  /\ UNCHANGED <<stdin, skipping>>

\* No newline, and what is buffered stays within the limit.
TakePart(upto) ==
  /\ ~skipping /\ Newlines(upto) = {} /\ upto - begun <= Limit
  /\ consumed' = upto
  /\ UNCHANGED <<stdin, begun, skipping, got>>

\* Mutation: no skip_until_newline, the rest of the line is left for the next call.
LeaveRest(upto) ==
  /\ ~skipping /\ Newlines(upto) = {} /\ upto - begun > Limit
  /\ Returns("error", upto)
  /\ consumed' = upto /\ begun' = upto
  /\ UNCHANGED <<stdin, skipping>>

\* No newline, and the line is too long: skip_until_newline.
Overflow(upto) ==
  /\ ~skipping /\ Newlines(upto) = {} /\ upto - begun > Limit
  /\ consumed' = upto /\ skipping' = TRUE
  /\ UNCHANGED <<stdin, begun, got>>

SkipPart(upto) ==
  /\ skipping /\ Newlines(upto) = {}
  /\ consumed' = upto
  /\ UNCHANGED <<stdin, begun, skipping, got>>

SkipEnd(upto) ==
  /\ skipping
  /\ \E n \in Position(upto) : /\ Returns("error", n - 1)
                               /\ consumed' = n /\ begun' = n
  /\ skipping' = FALSE
  /\ UNCHANGED stdin

\* Nothing is available: a last line without its newline is a line.
EndOfLine ==
  /\ consumed = stdin.bytes /\ (skipping \/ begun < consumed)
  /\ Returns(IF skipping THEN "error" ELSE "line", consumed)
  /\ begun' = consumed /\ skipping' = FALSE
  /\ UNCHANGED <<stdin, consumed>>

\* None: serve_mcp_stdio returns, and the next client finds a new server.
EndOfInput ==
  /\ stdin # Empty /\ consumed = stdin.bytes /\ ~skipping /\ begun = consumed
  /\ stdin' = Empty
  /\ consumed' = 0 /\ begun' = 0 /\ skipping' = FALSE /\ got' = <<>>

Reads ==
  \E upto \in Places : TakeLine(upto) \/ TakePart(upto) \/ Overflow(upto)
                       \/ SkipPart(upto) \/ SkipEnd(upto)

ReaderNext == WriteInput \/ Reads \/ EndOfLine \/ EndOfInput

ReaderSpec == ReaderInit /\ [][ReaderNext]_reader

-----------------------------------------------------------------------------
(* Properties. *)

\* What the calls returned, one after the other, are the lines of the input:
\* each begins behind the newline of the one before, contains no newline, and
\* ends before one or, if it is not empty, at the end of the input.
Follows(i) ==
  /\ got[i].first = IF i = 1 THEN 1 ELSE got[i - 1].last + 2
  /\ stdin.newlines \cap got[i].first..got[i].last = {}
  /\ \/ got[i].last + 1 \in stdin.newlines
     \/ got[i].last = stdin.bytes /\ got[i].first <= got[i].last /\ i = Len(got)

\* However the bytes are cut, each line within the limit is read whole and in
\* order, each longer one gives one error and nothing of it is taken for a
\* request, and at the end of the input no line is missing.
ReaderFramesLines ==
  /\ \A i \in DOMAIN got :
       /\ Follows(i)
       /\ got[i].kind = IF got[i].last - got[i].first >= Limit THEN "error" ELSE "line"
  /\ ~skipping /\ begun = stdin.bytes /\ begun > 0 =>
       got # <<>> /\ got[Len(got)].last \in {stdin.bytes, stdin.bytes - 1}
=============================================================================
