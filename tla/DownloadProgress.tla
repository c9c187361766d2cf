-------------------------- MODULE DownloadProgress --------------------------
(***************************************************************************)
(* ReaderWithProgress of libmachine/mcnutils/b2p.go: the reader download   *)
(* wraps an HTTP body in.  Each Read adds the bytes read to a running      *)
(* total, computes the percentage against the Content-Length and prints    *)
(* every even percentage not yet printed: "N%" at multiples of ten, "."    *)
(* otherwise.  Close prints a newline.  io.Copy calls Read with whatever   *)
(* chunk sizes the connection delivers.                                    *)
(***************************************************************************)
EXTENDS Integers, Sequences

CONSTANTS
    MaxLength   \* largest body, in bytes, the model downloads

ASSUME MaxLength \in Nat \ {0}

VARIABLES
    expectedLength,     \* s.ContentLength: the body length, or -1 (unknown)
    bodyLength,         \* the bytes the body really holds
    bytesTransferred,
    nextPercentToPrint,
    out,                \* what was printed: a percentage N for "N%",
                        \* Dot for ".", Newline for Close's line feed
    closed

vars == <<expectedLength, bodyLength, bytesTransferred, nextPercentToPrint,
          out, closed>>

Dot == -1
Newline == -2

Abs(x) == IF x >= 0 THEN x ELSE -x

\* Go's integer division truncates toward zero.
GoDiv(a, b) ==
    IF (a >= 0) = (b > 0) THEN Abs(a) \div Abs(b) ELSE -(Abs(a) \div Abs(b))

\* One pass of the loop body: "N%" at multiples of ten, "." at other even
\* percentages (next only takes even values, starting at 0).
Mark(next) ==
    IF next % 10 = 0 THEN <<next>>
    ELSE IF next % 2 = 0 THEN <<Dot>> ELSE <<>>

\* Mutation of Marks: the loop condition written percentage > next.
RECURSIVE MarksStrict(_, _)
MarksStrict(next, percentage) ==
    IF percentage > next THEN Mark(next) \o MarksStrict(next + 2, percentage)
    ELSE <<>>

\* for percentage >= r.nextPercentToPrint { print; next += 2 }: what the loop
\* prints ...
RECURSIVE Marks(_, _)
Marks(next, percentage) ==
    IF percentage >= next THEN Mark(next) \o Marks(next + 2, percentage)
    ELSE <<>>

\* ... and where it leaves nextPercentToPrint.
RECURSIVE NextAfter(_, _)
NextAfter(next, percentage) ==
    IF percentage >= next THEN NextAfter(next + 2, percentage) ELSE next

-----------------------------------------------------------------------------
\* client.Get answers a body and its Content-Length: the true length, or -1
\* when the length is unknown (chunked transfer, transparent gzip).  With a
\* known length the body holds exactly that many bytes.
Init ==
    /\ bodyLength \in 1..MaxLength
    /\ expectedLength \in {bodyLength, -1}
    /\ bytesTransferred = 0 /\ nextPercentToPrint = 0
    /\ out = <<>> /\ closed = FALSE

\* Mutation of Read: bytesTransferred += int64(len(p)), the buffer size
\* rather than the bytes read.
ReadBufLen(n) ==
    /\ ~closed
    /\ bytesTransferred + n <= bodyLength
    /\ \E buf \in n..MaxLength :
       LET total == bytesTransferred + buf
           percentage == GoDiv(total * 100, expectedLength)
       IN /\ bytesTransferred' = total
          /\ out' = out \o Marks(nextPercentToPrint, percentage)
          /\ nextPercentToPrint' = NextAfter(nextPercentToPrint, percentage)
    /\ UNCHANGED <<expectedLength, bodyLength, closed>>

\* ReaderWithProgress.Read: the wrapped Read returns n bytes (n > 0 here; a
\* zero-byte read changes nothing).
Read(n) ==
    /\ ~closed
    /\ bytesTransferred + n <= bodyLength
    /\ LET total == bytesTransferred + n
           percentage == GoDiv(total * 100, expectedLength)
       IN /\ bytesTransferred' = total
          /\ out' = out \o Marks(nextPercentToPrint, percentage)
          /\ nextPercentToPrint' = NextAfter(nextPercentToPrint, percentage)
    /\ UNCHANGED <<expectedLength, bodyLength, closed>>

\* ReaderWithProgress.Close, deferred in download: on EOF or on an error.
Close ==
    /\ ~closed
    /\ closed' = TRUE /\ out' = Append(out, Newline)
    /\ UNCHANGED <<expectedLength, bodyLength, bytesTransferred,
                   nextPercentToPrint>>

Next ==
    \/ \E n \in 1..MaxLength : Read(n)
    \/ Close

\* Nothing obliges io.Copy to finish: the download may fail at any Read.
Spec == Init /\ [][Next]_vars

-----------------------------------------------------------------------------
\* Every variable keeps its type; the printed percentage never passes 100.
TypeOK ==
    /\ expectedLength \in {-1} \cup 1..MaxLength
    /\ bodyLength \in 1..MaxLength
    /\ bytesTransferred \in 0..bodyLength
    /\ nextPercentToPrint \in 0..102
    /\ out \in Seq({Dot, Newline} \cup 0..100)
    /\ closed \in BOOLEAN

\* The progress line a whole download of known length prints, by a direct
\* definition: 0%, then four dots, then 10%, ..., up to 100%.
Reference ==
    [i \in 1..51 |-> IF (i - 1) % 5 = 0 THEN 2 * (i - 1) ELSE Dot]

\* However the body arrives in chunks, a download of known length prints
\* exactly the reference progress line by the time it has read the whole
\* body, and never more than a prefix of it before: no mark is repeated,
\* skipped or printed out of order.
ProgressIsReference ==
    LET printed == IF closed THEN SubSeq(out, 1, Len(out) - 1) ELSE out
    IN expectedLength > 0 =>
         /\ Len(printed) <= Len(Reference)
         /\ printed = SubSeq(Reference, 1, Len(printed))
         /\ bytesTransferred = bodyLength => printed = Reference
====
