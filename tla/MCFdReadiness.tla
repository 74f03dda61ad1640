--------------------------- MODULE MCFdReadiness ---------------------------
\* Instances of FdReadiness for TLC.
EXTENDS FdReadiness

\* A shared registration outlives its readers: one reader is replaced or removed and
\* another added, and data comes again after it has been read.
Shared == [pinned |-> TRUE, adds |-> 2, recvs |-> 0, need |-> 1, data |-> 2, writable |-> 0,
           reuse |-> 0, transport |-> FALSE]

\* One that is not shared is dropped with its reader and made again, or replaced.
Dropped == [Shared EXCEPT !.pinned = FALSE, !.data = 0, !.transport = TRUE]

\* Edges of both sides, to a single reader that may be removed.
Single == [Shared EXCEPT !.pinned = FALSE, !.adds = 1, !.data = 1, !.writable = 1]

\* Two calls of sock_recv, of one socket or of two with the same number.
Helpers == [Shared EXCEPT !.pinned = FALSE, !.adds = 0, !.recvs = 2, !.need = 2, !.reuse = 1]

\* One, and a reader, before, after or of another socket.
Mixed == [Helpers EXCEPT !.adds = 1, !.recvs = 1, !.need = 1, !.data = 1]

All == {Shared, Dropped, Single, Helpers, Mixed}
=============================================================================
