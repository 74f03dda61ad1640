---------------------------- MODULE MCConnection ----------------------------
\* Instances of Connection for TLC.
EXTENDS Connection, TLC

CONSTANTS t1, t2

Script(a, b) == (t1 :> a) @@ (t2 :> b)

Plain == [script |-> Script(<<>>, <<>>), tls |-> FALSE, inbound |-> 0, need |-> 1, limit |-> 4,
          high |-> 4, pinned |-> FALSE, cut |-> {}, giveup |-> FALSE, server |-> FALSE]

\* A request and its answer, while another task writes.
Request == [Plain EXCEPT !.script = Script(<<"write", "read">>, <<"write">>), !.inbound = 1]

\* Reads of whatever there is, until the peer ends the connection.
Reading == [Plain EXCEPT !.script = Script(<<"write", "read", "read">>, <<>>), !.inbound = 2,
                         !.cut = {"eof"}]

\* An answer in several parts, more than the reader's buffer may hold, or less and the end.
Partial == [Plain EXCEPT !.script = Script(<<"exact", "read">>, <<>>), !.inbound = 3, !.need = 2,
                         !.limit = 0, !.cut = {"eof", "reset"}]

\* Two writers with flow control, of which one closes; the connection's opener may give up.
Writing == [Plain EXCEPT !.script = Script(<<"write", "drain">>, <<"write", "close", "drain">>),
                         !.high = 0, !.pinned = TRUE, !.cut = {"reset"}, !.giveup = TRUE]

\* The same under TLS, with a reader that is paused and resumed.
Secure == [Plain EXCEPT !.script = Script(<<"write", "read">>, <<"write">>), !.tls = TRUE,
                        !.inbound = 1, !.limit = 0]

\* A TLS connection that is closed while a task reads; a stream that is ended or aborted
\* while it is written.
Closing == [Plain EXCEPT !.script = Script(<<"read">>, <<"write", "close">>), !.tls = TRUE,
                         !.inbound = 1]
Ending  == [Plain EXCEPT !.script = Script(<<"write", "eof">>, <<"write", "abort">>),
                         !.cut = {"reset"}]

\* An upgrade to TLS that succeeds, fails, or is given up.
Upgrade == [Plain EXCEPT !.script = Script(<<"starttls", "read">>, <<>>), !.inbound = 1,
                         !.giveup = TRUE, !.cut = {"eof", "reset"}]

\* A connection that a server has accepted.
Accepted == [Plain EXCEPT !.script = Script(<<"write", "close">>, <<>>), !.server = TRUE,
                          !.cut = {"reset"}]

All     == {Request, Reading, Partial, Writing, Secure, Closing, Ending, Upgrade, Accepted}
Partials == {Partial}
=============================================================================
