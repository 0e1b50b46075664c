--------------------------------- MODULE Rio ---------------------------------
(***************************************************************************)
(* The Rio functions (csapp.c, the same in five of the programs): reading   *)
(* and writing in the face of short counts and interruptions.               *)
(***************************************************************************)
EXTENDS Integers, Sequences, FiniteSetsExt

CONSTANTS
  BUFSIZE,   \* RIO_BUFSIZE
  EINTR,     \* what read and write may report instead of a count
  EIO

(***************************************************************************)
(* A descriptor: the bytes that will come, what the next calls of read or   *)
(* write do (at most so many bytes, or an error; then all there is), the    *)
(* bytes in the buffer of a rio_t, and those written.                       *)
(***************************************************************************)
Descriptor(bytes, results) ==
  [bytes |-> bytes, results |-> results, buffer |-> <<>>, written |-> <<>>]

Drop(s, n) == SubSeq(s, n + 1, Len(s))
Result(fd) == IF fd.results = <<>> THEN 100 ELSE Head(fd.results)
Called(fd) == [fd EXCEPT !.results = IF @ = <<>> THEN @ ELSE Tail(@)]
Count(fd, n, most) == Min({n, most, Result(fd)})

\* A read that gave these bytes, or EIO, and what it leaves of the descriptor.
Got(data, fd) == [data |-> data, fd |-> fd]

RECURSIVE rio_readn(_, _)
rio_readn(fd, n) ==
  IF n = 0 THEN Got(<<>>, fd)
  ELSE IF Result(fd) = EIO THEN Got(EIO, Called(fd))
  ELSE IF Result(fd) = EINTR THEN rio_readn(Called(fd), n)
  ELSE IF fd.bytes = <<>> THEN Got(<<>>, Called(fd))
  ELSE LET nread == Count(fd, n, Len(fd.bytes))
           rest == rio_readn([Called(fd) EXCEPT !.bytes = Drop(@, nread)], n - nread)
       IN  IF rest.data = EIO THEN rest
           ELSE Got(SubSeq(fd.bytes, 1, nread) \o rest.data, rest.fd)

\* The descriptor with what was written; FALSE when not all of it was.
RECURSIVE rio_writen(_, _)
rio_writen(fd, data) ==
  IF data = <<>> THEN <<TRUE, fd>>
  ELSE IF Result(fd) = EIO THEN <<FALSE, Called(fd)>>
  ELSE IF Result(fd) = EINTR THEN rio_writen(Called(fd), data)
  ELSE LET nwritten == Count(fd, Len(data), Len(data))
       IN  rio_writen([Called(fd) EXCEPT !.written = @ \o SubSeq(data, 1, nwritten)],
                      Drop(data, nwritten))

\* From the buffer, when there is something in it.
Take(rp, n) == Got(SubSeq(rp.buffer, 1, Min({n, Len(rp.buffer)})), [rp EXCEPT !.buffer = Drop(@, n)])

RECURSIVE rio_read(_, _)
rio_read(rp, n) ==
  IF rp.buffer # <<>> THEN Take(rp, n)
  ELSE IF Result(rp) = EINTR THEN rio_read(Called(rp), n)
  ELSE IF Result(rp) = EIO THEN Got(EIO, Called(rp))
  ELSE IF rp.bytes = <<>> THEN Got(<<>>, Called(rp))
  ELSE LET filled == Count(rp, BUFSIZE, Len(rp.bytes))
       IN  Take([Called(rp) EXCEPT !.buffer = SubSeq(rp.bytes, 1, filled),
                                   !.bytes = Drop(@, filled)], n)

RECURSIVE rio_readnb(_, _)
rio_readnb(rp, n) ==
  LET part == rio_read(rp, n) IN
  IF n = 0 THEN Got(<<>>, rp)
  ELSE IF part.data \in {EIO, <<>>} THEN part
  ELSE LET rest == rio_readnb(part.fd, n - Len(part.data))
       IN  IF rest.data = EIO THEN rest ELSE Got(part.data \o rest.data, rest.fd)

(***************************************************************************)
(* A line, byte by byte.  n, which is returned, counts from 1: it is the    *)
(* number of bytes when the line ends with a newline, and one more when it  *)
(* ends with the file or with the space for it.                             *)
(***************************************************************************)
Line(n, data, rp) == [n |-> n, data |-> data, fd |-> rp]

RECURSIVE LineFrom(_, _, _, _, _)
LineFrom(rp, maxlen, newline, n, data) ==
  LET byte == rio_read(rp, 1) IN
  IF n >= maxlen THEN Line(n, data, rp)
  ELSE IF byte.data = EIO THEN Line(-1, data, byte.fd)
  ELSE IF byte.data = <<>> THEN Line(IF n = 1 THEN 0 ELSE n, data, byte.fd)
  ELSE IF byte.data = <<newline>> THEN Line(n, Append(data, newline), byte.fd)
  ELSE LineFrom(byte.fd, maxlen, newline, n + 1, data \o byte.data)

rio_readlineb(rp, maxlen, newline) == LineFrom(rp, maxlen, newline, 1, <<>>)

==============================================================================
