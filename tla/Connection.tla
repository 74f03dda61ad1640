---------------------------- MODULE Connection ----------------------------
(***************************************************************************)
(* One connection of mt_asyncio: SocketTransport of _transports.py with    *)
(* its claims, StreamReader, StreamReaderProtocol and StreamWriter of      *)
(* _streams.py on top of it, SSLProtocol of _tls.py in between where the   *)
(* connection is a TLS one, and the server it belongs to (module Serving). *)
(*                                                                         *)
(* A task runs a script of writes, reads, drain, start_tls, close.  The    *)
(* reactor's callbacks run on any worker: _read_ready, dispatched for the  *)
(* descriptor or by call_soon, _write_ready, _startup,                     *)
(* _call_connection_lost and the handles of SSLProtocol.  A region of the  *)
(* connection's lock is one step where nothing in it is read without the   *)
(* lock; the wakes that defer_wakes holds back take effect at its end.     *)
(* The region of a write is several steps, each with the lock held, for    *)
(* its order is what the lock is for.  A chunk that is written is two      *)
(* units, numbered in the order the writes got the lock; a send takes a    *)
(* part of it.                                                             *)
(*                                                                         *)
(* What the classes inherit from CPython (asyncio.selector_events,         *)
(* asyncio.streams, asyncio.sslproto) is reduced to what these classes     *)
(* rely on.                                                                *)
(***************************************************************************)
EXTENDS Serving, Sequences

CONSTANTS Tasks, ConnApps, Nobody

Readers == {"fd", "soon"}              \* _read_ready of the descriptor's handle; of call_soon
Senders == Tasks \cup {"wready", "ssl"}
Ops     == {"write", "eof", "drain", "read", "exact", "close", "abort", "starttls"}

\* script: what each task does; inbound: bound on what the peer sends; need: how much
\* `exact` waits for; limit: StreamReader's; high: the buffered chunks that pause the
\* protocol; pinned: sock_connect has registered the descriptor; cut: what the peer may do
\* to end the connection; server: whether a server has accepted it.
ASSUME ConnAppsAssumption ==
  ConnApps \subseteq [script : [Tasks -> Seq(Ops)], tls : BOOLEAN, inbound : Nat, need : Nat,
                  limit : Nat, high : Nat, pinned : BOOLEAN, cut : SUBSET {"eof", "reset"},
                  giveup : BOOLEAN, server : BOOLEAN]
ASSUME ConnNoneAssumption == Nobody \notin Senders /\ Tasks \cap {"wready", "ssl"} = {}

VARIABLES
  setup,       \* which of ConnApps it is
  \* SocketTransport
  lock,        \* _lock: who holds it over several steps
  claims, deferred, since,  \* _claims, _read_deferred, _read_defer_since
  buffer,      \* _buffer: the chunks that are not sent
  eof,         \* _eof: the number of the FIN that follows them, or 0
  closing, connLost, tpaused, \* _closing, _conn_lost, _paused
  sockOpen,    \* whether the socket is open
  registered, reading, writing, \* the loop's registration of it, and its callbacks
  state,       \* of the protocol: "new", "made", "lost"
  lostSoon,    \* whether _call_connection_lost is queued: "no", "clean", with None, or "exc"
  opener,      \* who opens the connection: not yet accepted, awaits, has it, has given up
  \* StreamReader
  rbuf, rpaused, ending, feedGen, seenGen, waiter,
  \* StreamReaderProtocol
  wpaused, drainers,
  \* SSLProtocol
  tls,         \* start_tls or make_ssl_transport has come to this
  bio, incoming, resume, \* _outgoing, _incoming, whether _resume_reading_locked is queued
  \* kernel and peer
  inbox, peerSent, peer, wire,
  numbered,    \* how many units have been written
  \* tasks and callbacks
  tpc, at, held, \* a task's place, and its claim (_mt_claims)
  awake, thrown, \* whose awaited future is done, and with an exception
  slice,       \* what a sender has taken and not yet sent or put back
  sending, ssl, \* whether _write_ready has sent and not put back; what SSLProtocol is writing for
  rpc, late, forced,     \* a reader's place; who has claimed since it looked; whether it gave up waiting
  requeued     \* how many _read_ready handles are queued

claimVars  == <<claims, deferred, since>>
linkVars   == <<closing, connLost, tpaused, sockOpen, registered, reading, writing, state,
                lostSoon>>
streamVars == <<rbuf, rpaused, ending, feedGen, seenGen, waiter>>
flowVars   == <<wpaused, drainers>>
tlsVars    == <<tls, bio, incoming, resume>>
outVars    == <<buffer, eof, wire, numbered, slice, sending, ssl>>
peerVars   == <<inbox, peerSent, peer>>
taskVars   == <<tpc, at, held, awake, thrown>>
readVars   == <<rpc, late, forced, requeued>>
connectionVars ==
  <<setup, lock, claimVars, linkVars, opener, streamVars, flowVars, tlsVars, outVars, peerVars,
    taskVars, readVars, servingVars>>

ConnPCs == {"op", "enter", "outgoing", "raw", "check", "paused", "resume", "look", "take", "clear",
        "delete", "maybe", "resumed", "helper", "suspend", "requeue", "parked", "done"}

LinkTyped ==
  /\ setup \in ConnApps /\ lock \in Senders \cup {Nobody}
  /\ closing \in BOOLEAN /\ connLost \in BOOLEAN /\ tpaused \in BOOLEAN /\ sockOpen \in BOOLEAN
  /\ registered \in BOOLEAN /\ reading \in BOOLEAN /\ writing \in BOOLEAN
  /\ lostSoon \in {"no", "clean", "exc"}
  /\ state \in {"new", "made", "lost"} /\ opener \in {"none", "await", "open", "gaveup"}

ClaimsTyped ==
  /\ claims \subseteq Tasks /\ held \subseteq Tasks
  /\ deferred \in BOOLEAN /\ since \in {"none", "recent", "old"}
  /\ rpc \in [Readers -> {"idle", "checked"}] /\ late \in [Readers -> SUBSET Tasks]
  /\ forced \in [Readers -> BOOLEAN] /\ requeued \in Nat

StreamTyped ==
  /\ rbuf \in 0..setup.inbound /\ incoming \in 0..setup.inbound
  /\ inbox \in 0..setup.inbound /\ peerSent \in 0..setup.inbound
  /\ rpaused \in BOOLEAN /\ ending \in {"no", "eof", "exc"}
  /\ feedGen \in Nat /\ seenGen \in 0..feedGen /\ waiter \in Tasks \cup {Nobody}
  /\ peer \in {"up", "eof", "reset"}

OutTyped ==
  /\ buffer \in Seq(Seq(Nat)) /\ wire \in Seq(Nat) /\ eof \in Nat /\ numbered \in Nat
  /\ slice \in [Senders -> Seq(Nat)] /\ bio \in Seq(Nat)
  /\ sending \in BOOLEAN /\ ssl \in {"idle", "begin", "resume", "read"}
  /\ tls \in {"none", "set", "begun", "done", "shutdown", "unwrapped", "closed", "failed"}

TaskTyped ==
  /\ tpc \in [Tasks -> ConnPCs] /\ at \in [Tasks -> Nat]
  /\ awake \subseteq Tasks /\ thrown \subseteq awake
  /\ wpaused \in BOOLEAN /\ drainers \subseteq Tasks /\ resume \in BOOLEAN

ConnTypeOK == LinkTyped /\ ClaimsTyped /\ StreamTyped /\ OutTyped /\ TaskTyped /\ ServingTypeOK

TransportInit ==
  /\ lock = Nobody /\ claims = {} /\ deferred = FALSE /\ since = "none"
  /\ closing = FALSE /\ connLost = FALSE /\ tpaused = FALSE /\ sockOpen = TRUE
  /\ registered = setup.pinned /\ reading = FALSE /\ writing = FALSE
  /\ state = "new" /\ lostSoon = "no" /\ buffer = <<>> /\ eof = 0

ReaderInit ==
  rbuf = 0 /\ rpaused = FALSE /\ ending = "no" /\ feedGen = 0 /\ seenGen = 0 /\ waiter = Nobody

ProtocolInit == wpaused = FALSE /\ drainers = {}

SslInit == tls = "none" /\ bio = <<>> /\ incoming = 0 /\ resume = FALSE

\* open_connection waits for the connection it makes, start_server for one to accept.
OpenConnection == opener = IF setup.server THEN "none" ELSE "await"

ConnInit ==
  /\ setup \in ConnApps
  /\ TransportInit /\ ReaderInit /\ ProtocolInit /\ SslInit /\ OpenConnection
  /\ inbox = 0 /\ peerSent = 0 /\ peer = "up" /\ wire = <<>> /\ numbered = 0
  /\ tpc = [t \in Tasks |-> "op"] /\ at = [t \in Tasks |-> 1] /\ held = {}
  /\ awake = {} /\ thrown = {}
  /\ slice = [s \in Senders |-> <<>>] /\ sending = FALSE /\ ssl = "idle"
  /\ rpc = [r \in Readers |-> "idle"] /\ late = [r \in Readers |-> {}]
  /\ forced = [r \in Readers |-> FALSE] /\ requeued = 0
  /\ CreateServer(IF setup.server THEN Addresses ELSE {})

GoTo(t, l) == tpc' = [tpc EXCEPT ![t] = l]
Op(t)    == IF at[t] \in DOMAIN setup.script[t] THEN setup.script[t][at[t]] ELSE "end"
Return(t) == GoTo(t, "op") /\ at' = [at EXCEPT ![t] = @ + 1]
Raise(t)  == GoTo(t, "op") /\ at' = [at EXCEPT ![t] = Len(setup.script[t]) + 1]

\* The task runs an operation of its script; the opener has returned.
Runs(t, op) == tpc[t] = "op" /\ Op(t) = op /\ opener = "open"

-----------------------------------------------------------------------------
\* What CPython's classes do, inside a region of the lock.

\* The descriptor's registration lives as long as a callback or sock_connect needs it.
Reads(on) == reading' = on /\ registered' = (setup.pinned \/ on \/ writing)

\* _SelectorTransport.close.
Close ==
  IF closing THEN UNCHANGED linkVars
  ELSE LET now == buffer = <<>> IN
       /\ closing' = TRUE
       /\ reading' = FALSE
       /\ writing' = (writing /\ ~now)
       /\ registered' = (setup.pinned \/ writing')
       /\ connLost' = (connLost \/ now)
       /\ lostSoon' = IF now THEN "clean" ELSE lostSoon
       /\ UNCHANGED <<tpaused, sockOpen, state>>

\* _fatal_error and _force_close, with an exception ("exc") or, from abort, without ("clean").
\* A transport whose socket is gone, though nobody counted the connection as lost, has no
\* loop any more to queue its end on.
ForceClose(how) ==
  IF connLost THEN UNCHANGED <<linkVars, buffer>>
  ELSE /\ buffer' = <<>>
       /\ closing' = TRUE /\ connLost' = TRUE
       /\ lostSoon' = IF sockOpen THEN how ELSE "no"
       /\ reading' = FALSE /\ writing' = FALSE
       /\ registered' = (setup.pinned /\ sockOpen)
       /\ UNCHANGED <<tpaused, sockOpen, state>>

\* Then _loop is None, and what needs it raises.
Unlooped == ~sockOpen /\ ~connLost

\* Whether the application's transport is the SSLProtocolTransport, and whether SSLProtocol
\* has left the state in which it takes data from it.
Encrypted == tls \in {"done", "shutdown", "unwrapped", "closed"}
Leaving   == tls \in {"shutdown", "unwrapped", "closed"}

\* pause_reading of the transport, or of SSLProtocolTransport.
PauseReading ==
  /\ tpaused' = TRUE
  /\ IF Encrypted THEN UNCHANGED <<reading, registered>> ELSE Reads(FALSE)

\* SSLProtocol._resume_reading.
ResumeSsl == resume' = TRUE /\ UNCHANGED <<reading, registered>>

\* resume_reading of either.
ResumeReading ==
  IF closing \/ ~tpaused THEN UNCHANGED <<linkVars, resume>>
  ELSE /\ tpaused' = FALSE
       /\ IF Encrypted THEN ResumeSsl ELSE Reads(TRUE) /\ UNCHANGED resume
       /\ UNCHANGED <<closing, connLost, sockOpen, writing, state, lostSoon>>

\* A completed future wakes the task that waits for it.
Waiting    == IF waiter = Nobody THEN {} ELSE {waiter}
TlsWaiters == {t \in Tasks : Op(t) = "starttls" /\ tpc[t] \in {"suspend", "requeue", "parked"}}

\* StreamReader.feed_data, with the pause of the transport above twice the limit.
FeedData(n) ==
  LET pause == ~rpaused /\ rbuf + n > 2 * setup.limit IN
  /\ rbuf' = rbuf + n
  /\ feedGen' = feedGen + 1
  /\ waiter' = Nobody
  /\ awake' = awake \cup Waiting
  /\ rpaused' = (rpaused \/ pause)
  /\ IF pause /\ ~closing /\ ~tpaused
       THEN PauseReading
       ELSE UNCHANGED <<tpaused, reading, registered>>
  /\ UNCHANGED <<thrown, ending, seenGen, closing, connLost, sockOpen, writing, state, lostSoon>>

\* StreamReader.feed_eof or set_exception, with those it wakes besides.
FeedEnd(how, others) ==
  /\ ending' = IF ending = "exc" THEN ending ELSE how
  /\ feedGen' = feedGen + 1
  /\ waiter' = Nobody
  /\ awake' = awake \cup Waiting \cup others
  /\ thrown' = IF how = "exc" THEN thrown \cup (awake' \ awake) ELSE thrown
  /\ UNCHANGED <<rbuf, rpaused, seenGen>>

\* The socket takes the first k of these units.
Send(units, k) == wire' = wire \o SubSeq(units, 1, k)
Left(units, k) == SubSeq(units, k + 1, Len(units))

\* _SelectorSocketTransport.write of what s has taken; a broken socket is a fatal error.
RawWrite(s) ==
  /\ IF connLost \/ ~sockOpen THEN UNCHANGED <<linkVars, buffer, wire, wpaused>>
     ELSE IF peer = "reset" THEN ForceClose("exc") /\ UNCHANGED <<wire, wpaused>>
     ELSE /\ IF buffer = <<>>
               THEN \E k \in 0..Len(slice[s]) :
                      /\ Send(slice[s], k)
                      /\ buffer' = IF k = Len(slice[s]) THEN <<>> ELSE <<Left(slice[s], k)>>
               ELSE buffer' = Append(buffer, slice[s]) /\ UNCHANGED wire
          /\ writing' = (buffer' # <<>>)
          /\ registered' = (setup.pinned \/ reading \/ writing')
          /\ wpaused' = (wpaused \/ Len(buffer') > setup.high)
          /\ UNCHANGED <<closing, connLost, tpaused, sockOpen, reading, state, lostSoon>>
  /\ slice' = [slice EXCEPT ![s] = <<>>]

-----------------------------------------------------------------------------
\* SocketTransport: startup and teardown.

\* A server accepts the connection, from the moment it listens; so does one whose
\* create_server has raised since.
Accept ==
  /\ opener = "none" /\ listening # {}
  /\ Attach(Client)
  /\ opener' = "await"
  /\ UNCHANGED <<setup, lock, claimVars, linkVars, streamVars, flowVars, tlsVars, outVars, peerVars,
                 taskVars, readVars>>

\* make_ssl_transport: the transport's protocol is an SSLProtocol, with the same lock, and
\* its connection_made starts the handshake.
MakeSslTransport == IF setup.tls THEN "begun" ELSE tls

\* _startup: connection_made, then the reader, then the waiter.  After the end of the
\* connection there is no protocol any more, and it raises.
Startup ==
  /\ state = "new" /\ opener # "none" /\ lock = Nobody
  /\ state' = "made"
  /\ IF closing THEN UNCHANGED <<reading, registered>> ELSE Reads(TRUE)
  /\ tls' = MakeSslTransport
  /\ opener' = IF opener = "await" /\ ~setup.tls THEN "open" ELSE opener
  /\ UNCHANGED <<setup, lock, claimVars, closing, connLost, tpaused, sockOpen, writing, lostSoon,
                 streamVars, flowVars, bio, incoming, resume, outVars, peerVars, taskVars, readVars,
                 servingVars>>

\* The opener is cancelled, and closes the transport it has made.
GiveUp ==
  /\ opener = "await" /\ setup.giveup /\ lock = Nobody
  /\ opener' = "gaveup"
  /\ Close
  /\ UNCHANGED <<setup, lock, claimVars, streamVars, flowVars, tlsVars, outVars, peerVars, taskVars,
                 readVars, servingVars>>

\* Mutant: the registration is left to whoever made it.
CallConnectionLostUnreleased ==
  /\ state' = "lost" /\ sockOpen' = FALSE
  /\ registered' = setup.pinned /\ reading' = FALSE /\ writing' = FALSE
  /\ closing' = TRUE /\ lostSoon' = "no"
  /\ FeedEnd(IF lostSoon = "exc" THEN "exc" ELSE "eof",
             (IF wpaused THEN drainers ELSE {}) \cup TlsWaiters)
  /\ Detach(Client)
  /\ UNCHANGED <<connLost, tpaused, creating, infos, opened, listening, sockets>>

\* _call_connection_lost: the registration goes before the socket is closed; the protocol's
\* connection_lost ends the stream, with the exception of whoever has closed it by force, and
\* wakes who waits; the server loses a client.
CallConnectionLost ==
  /\ state' = "lost" /\ sockOpen' = FALSE
  /\ registered' = FALSE /\ reading' = FALSE /\ writing' = FALSE
  /\ closing' = TRUE /\ lostSoon' = "no"
  /\ FeedEnd(IF lostSoon = "exc" THEN "exc" ELSE "eof",
             (IF wpaused THEN drainers ELSE {}) \cup TlsWaiters)
  /\ Detach(Client)
  /\ UNCHANGED <<connLost, tpaused, creating, infos, opened, listening, sockets>>

Lost ==
  /\ lostSoon # "no" /\ lock = Nobody
  /\ CallConnectionLost
  /\ opener' = IF opener = "await" THEN "gaveup" ELSE opener
  /\ UNCHANGED <<setup, lock, claimVars, flowVars, tlsVars, outVars, peerVars, tpc, at, held,
                 readVars>>

-----------------------------------------------------------------------------
\* SocketTransport: the reactor's callbacks.

\* Whether there is something for recv.
Readable == inbox > 0 \/ peer # "up"

\* _read_ready, under _claim_lock: it stands aside for a task that has written and not yet
\* suspended, for so long.  The descriptor's handle is dispatched again as long as there is
\* something to read (module FdReadiness).
ReadCheck(r) ==
  /\ rpc[r] = "idle" /\ sockOpen
  /\ IF r = "fd" THEN reading /\ Readable /\ UNCHANGED requeued
                 ELSE requeued > 0 /\ requeued' = requeued - 1
  /\ IF claims # {} /\ since # "old"
       THEN /\ deferred' = TRUE
            /\ since' = "recent"
            /\ UNCHANGED <<claims, rpc, late, forced>>
       ELSE /\ deferred' = FALSE
            /\ since' = "none"
            /\ rpc' = [rpc EXCEPT ![r] = "checked"]
            /\ late' = [late EXCEPT ![r] = {}]
            /\ forced' = [forced EXCEPT ![r] = claims # {}]
            /\ UNCHANGED claims
  /\ UNCHANGED <<setup, lock, linkVars, opener, streamVars, flowVars, tlsVars, outVars, peerVars,
                 taskVars, servingVars>>

\* _MAX_READ_DEFER goes by.
DeferExpires ==
  /\ since = "recent"
  /\ since' = "old"
  /\ UNCHANGED <<setup, lock, claims, deferred, linkVars, opener, streamVars, flowVars, tlsVars,
                 outVars, peerVars, taskVars, readVars, servingVars>>

\* _on_handshake_complete with an exception: the connection is closed by force, and the task
\* in start_tls is thrown it.
HandshakeFails ==
  /\ ForceClose("exc")
  /\ tls' = "failed"
  /\ awake' = awake \cup TlsWaiters
  /\ thrown' = thrown \cup (TlsWaiters \ awake)

\* ... and then, under the lock, the callback of CPython's transport: recv, and what the
\* protocol does with what it gets.  SSLProtocol keeps what it may not pass on.
ReadRun(r) ==
  /\ rpc[r] = "checked" /\ lock = Nobody
  /\ rpc' = [rpc EXCEPT ![r] = "idle"]
  /\ \/ /\ connLost \/ ~sockOpen \/ ~Readable
        /\ UNCHANGED <<linkVars, streamVars, tls, incoming, inbox, buffer, awake, thrown>>
     \/ /\ ~connLost /\ sockOpen /\ peer = "reset"
        /\ ForceClose("exc")
        /\ UNCHANGED <<streamVars, tls, incoming, inbox, awake, thrown>>
     \/ /\ ~connLost /\ sockOpen /\ peer # "reset" /\ inbox > 0
        /\ inbox' = 0
        /\ IF tls = "none" \/ (tls = "done" /\ ~tpaused)
             THEN FeedData(incoming + inbox) /\ incoming' = 0
             ELSE incoming' = incoming + inbox /\ UNCHANGED <<linkVars, streamVars, awake, thrown>>
        /\ UNCHANGED <<tls, buffer>>
     \/ /\ ~connLost /\ sockOpen /\ peer = "eof" /\ inbox = 0 /\ tls = "begun"
        /\ HandshakeFails
        /\ UNCHANGED <<streamVars, incoming, inbox>>
     \/ /\ ~connLost /\ sockOpen /\ peer = "eof" /\ inbox = 0 /\ tls # "begun"
        /\ FeedEnd("eof", {})
        /\ IF tls = "none"
             THEN Reads(FALSE) /\ UNCHANGED <<closing, connLost, tpaused, sockOpen, writing, state,
                                              lostSoon>>
             ELSE Close
        /\ UNCHANGED <<tls, incoming, inbox, buffer>>
  /\ UNCHANGED <<setup, lock, claimVars, opener, flowVars, bio, resume, eof, wire, numbered,
                 slice, sending, ssl, peerSent, peer, tpc, at, held, late, forced, requeued, servingVars>>

\* _locked_write_ready, with _write_send: the first chunk is taken, a part of it is sent ...
WriteSend ==
  /\ sending' = TRUE
  /\ \E k \in 1..Len(Head(buffer)) :
       Send(Head(buffer), k) /\ slice' = [slice EXCEPT !["wready"] = Left(Head(buffer), k)]
  /\ buffer' = Tail(buffer)
  /\ UNCHANGED <<linkVars, ssl>>

\* Mutant: the callback does not take the lock.
WriteReadyUnlocked ==
  /\ writing /\ ~sending /\ buffer # <<>>
  /\ WriteSend
  /\ UNCHANGED <<setup, lock, claimVars, opener, streamVars, flowVars, tlsVars, eof, numbered,
                 peerVars, taskVars, readVars, servingVars>>

WriteReady ==
  /\ writing /\ ~sending /\ lock = Nobody
  /\ IF peer = "reset"
       THEN ForceClose("exc") /\ UNCHANGED <<lock, wire, slice, sending, ssl>>
       ELSE WriteSend /\ lock' = "wready"
  /\ UNCHANGED <<setup, claimVars, opener, streamVars, flowVars, tlsVars, eof, numbered, peerVars,
                 taskVars, readVars, servingVars>>

\* ... and the rest is put back.  With nothing left the protocol may write again, a
\* transport that is closing comes to its end, and one that is done with writing says so.
WritePut ==
  /\ sending /\ lock \in {"wready", Nobody}
  /\ sending' = FALSE /\ lock' = Nobody
  /\ slice' = [slice EXCEPT !["wready"] = <<>>]
  /\ buffer' = IF slice["wready"] = <<>> THEN buffer ELSE <<slice["wready"]>> \o buffer
  /\ wpaused' = (wpaused /\ buffer' # <<>>)
  /\ wire' = IF buffer' = <<>> /\ ~closing /\ eof # 0 THEN Append(wire, eof) ELSE wire
  /\ IF buffer' = <<>> /\ closing
       THEN CallConnectionLost /\ opener' = IF opener = "await" THEN "gaveup" ELSE opener
       ELSE /\ awake' = IF wpaused /\ ~wpaused' THEN awake \cup drainers ELSE awake
            /\ writing' = (buffer' # <<>>)
            /\ registered' = (setup.pinned \/ reading \/ writing')
            /\ UNCHANGED <<closing, connLost, tpaused, sockOpen, reading, state, lostSoon, opener,
                           streamVars, thrown, servingVars>>
  /\ UNCHANGED <<setup, claimVars, drainers, tlsVars, eof, numbered, ssl, peerVars, tpc, at, held,
                 readVars>>

-----------------------------------------------------------------------------
\* SocketTransport.write, by a task.

\* _mt_claim: a task that runs claims the connection once.
Claim(t) ==
  IF t \in held THEN UNCHANGED <<held, claims, late>>
  ELSE /\ held' = held \cup {t}
       /\ claims' = claims \cup {t}
       /\ late' = [r \in Readers |-> IF rpc[r] = "checked" THEN late[r] \cup {t} ELSE late[r]]

\* write, writelines and write_eof: the claim, before the lock; SSLProtocolTransport.write
\* takes the lock first.
Write(t) ==
  /\ Runs(t, "write") \/ Runs(t, "eof")
  /\ IF tls = "none" THEN Claim(t) ELSE UNCHANGED <<held, claims, late>>
  /\ GoTo(t, "enter")
  /\ UNCHANGED <<setup, lock, deferred, since, linkVars, opener, streamVars, flowVars, tlsVars,
                 outVars, peerVars, at, awake, thrown, rpc, forced, requeued, servingVars>>

\* The lock is taken; the data are written, or encrypted first.  A transport that has lost
\* its connection, or is being shut down, ignores them; after write_eof, and without a
\* loop, it raises.
WriteEnter(t) ==
  LET units == <<numbered + 1, numbered + 2>> IN
  /\ tpc[t] = "enter" /\ Op(t) = "write" /\ lock = Nobody
  /\ IF eof # 0 \/ (tls = "none" /\ Unlooped)
       THEN Raise(t) /\ UNCHANGED <<lock, numbered, slice, bio>>
     ELSE IF connLost \/ ~sockOpen \/ Leaving
       THEN Return(t) /\ UNCHANGED <<lock, numbered, slice, bio>>
       ELSE /\ lock' = t
            /\ numbered' = numbered + 2
            /\ IF tls = "none"
                 THEN slice' = [slice EXCEPT ![t] = units] /\ GoTo(t, "raw") /\ UNCHANGED bio
                 ELSE bio' = bio \o units /\ GoTo(t, "outgoing") /\ UNCHANGED slice
            /\ UNCHANGED at
  /\ UNCHANGED <<setup, claimVars, linkVars, opener, streamVars, flowVars, tls, incoming, resume,
                 buffer, eof, wire, sending, ssl, peerVars, held, awake, thrown, readVars,
                 servingVars>>

\* write_eof: the FIN follows what is buffered.  SSLProtocolTransport has none.
WriteEof(t) ==
  /\ tpc[t] = "enter" /\ Op(t) = "eof" /\ lock = Nobody
  /\ IF Encrypted \/ closing \/ eof # 0
       THEN /\ IF Encrypted THEN Raise(t) ELSE Return(t)
            /\ UNCHANGED <<eof, numbered, wire>>
       ELSE /\ eof' = numbered + 1
            /\ numbered' = numbered + 1
            /\ IF buffer = <<>> /\ peer # "reset" THEN wire' = Append(wire, eof') ELSE UNCHANGED wire
            /\ IF buffer = <<>> /\ peer = "reset" THEN Raise(t) ELSE Return(t)
  /\ UNCHANGED <<setup, lock, claimVars, linkVars, opener, streamVars, flowVars, tlsVars, buffer,
                 slice, sending, ssl, peerVars, held, awake, thrown, readVars, servingVars>>

\* _process_outgoing: the records are taken, for a write of the raw transport.
WriteOutgoing(t) ==
  /\ tpc[t] = "outgoing" /\ lock = t
  /\ slice' = [slice EXCEPT ![t] = bio]
  /\ bio' = <<>>
  /\ Claim(t)
  /\ GoTo(t, "raw")
  /\ UNCHANGED <<setup, lock, deferred, since, linkVars, opener, streamVars, flowVars, tls,
                 incoming,
                 resume, buffer, eof, wire, numbered, sending, ssl, peerVars, at, awake, thrown, rpc,
                 forced, requeued, servingVars>>

\* The inherited write, and the end of the region.
WriteRaw(t) ==
  /\ tpc[t] = "raw" /\ lock = t
  /\ RawWrite(t)
  /\ lock' = Nobody
  /\ Return(t)
  /\ UNCHANGED <<setup, claimVars, opener, streamVars, drainers, tlsVars, eof, numbered, sending,
                 ssl,
                 peerVars, held, awake, thrown, readVars, servingVars>>

\* close, of a transport.
CloseTransport(t) ==
  /\ Runs(t, "close") /\ lock = Nobody /\ ~Encrypted
  /\ Close
  /\ Return(t)
  /\ UNCHANGED <<setup, lock, claimVars, opener, streamVars, flowVars, tlsVars, outVars, peerVars,
                 held, awake, thrown, readVars, servingVars>>

\* abort, of either transport.
AbortTransport(t) ==
  /\ Runs(t, "abort") /\ lock = Nobody
  /\ ForceClose("clean")
  /\ tls' = IF Encrypted THEN "failed" ELSE tls
  /\ IF Unlooped /\ ~Encrypted THEN Raise(t) ELSE Return(t)
  /\ UNCHANGED <<setup, lock, claimVars, opener, streamVars, flowVars, bio, incoming, resume, eof,
                 wire,
                 numbered, slice, sending, ssl, peerVars, held, awake, thrown, readVars, servingVars>>

-----------------------------------------------------------------------------
\* The suspension of a task: Future.__await__, _yield_now, and the end of its coroutine.

\* Where it goes on, or stays, once it has given its claims back.
Suspended(t) ==
  CASE Op(t) = "end" -> "done"
    [] Op(t) = "drain" /\ t \notin drainers -> "helper"
    [] OTHER -> "parked"

\* Mutant: everybody's claim goes.
ReleaseClaimAll(t) == claims' = {}

ReleaseClaim(t) == claims' = claims \ {t}

\* _mt_release_claims and, under _claim_lock, _mt_release_claim: the last claim to go calls
\* the reader that has stood aside ...
Suspend(t) ==
  /\ tpc[t] = "suspend" \/ Runs(t, "end")
  /\ IF t \in held
       THEN /\ held' = held \ {t}
            /\ ReleaseClaim(t)
            /\ deferred' = (deferred /\ claims' # {})
            /\ GoTo(t, IF deferred /\ claims' = {} THEN "requeue" ELSE Suspended(t))
       ELSE GoTo(t, Suspended(t)) /\ UNCHANGED <<held, claims, deferred>>
  /\ UNCHANGED <<setup, lock, since, linkVars, opener, streamVars, flowVars, tlsVars, outVars,
                 peerVars, at, awake, thrown, readVars, servingVars>>

\* ... outside of it, unless the transport is closing.
Requeue(t) ==
  /\ tpc[t] = "requeue"
  /\ requeued' = IF closing THEN requeued ELSE requeued + 1
  /\ GoTo(t, Suspended(t))
  /\ UNCHANGED <<setup, lock, claimVars, linkVars, opener, streamVars, flowVars, tlsVars, outVars,
                 peerVars, at, held, awake, thrown, rpc, late, forced, servingVars>>

-----------------------------------------------------------------------------
\* StreamWriter.drain.

\* A connection that is closing is given the time to end.
Drain(t) ==
  /\ Runs(t, "drain")
  /\ IF ending = "exc" THEN Raise(t)
     ELSE GoTo(t, IF closing \/ Leaving THEN "suspend" ELSE "helper") /\ UNCHANGED at
  /\ UNCHANGED <<setup, lock, claimVars, linkVars, opener, streamVars, flowVars, tlsVars, outVars,
                 peerVars, held, awake, thrown, readVars, servingVars>>

\* _drain_helper, under _flow_lock.
DrainHelper(t) ==
  /\ tpc[t] = "helper"
  /\ IF state = "lost" THEN Raise(t) /\ UNCHANGED drainers
     ELSE IF ~wpaused THEN Return(t) /\ UNCHANGED drainers
     ELSE drainers' = drainers \cup {t} /\ GoTo(t, "suspend") /\ UNCHANGED at
  /\ UNCHANGED <<setup, lock, claimVars, linkVars, opener, streamVars, wpaused, tlsVars, outVars,
                 peerVars, held, awake, thrown, readVars, servingVars>>

\* The future is done; the task leaves the list.
DrainWoken(t) ==
  /\ tpc[t] = "parked" /\ Op(t) = "drain" /\ t \in awake
  /\ awake' = awake \ {t}
  /\ drainers' = drainers \ {t}
  /\ thrown' = thrown \ {t}
  /\ IF t \in thrown THEN Raise(t) ELSE Return(t)
  /\ UNCHANGED <<setup, lock, claimVars, linkVars, opener, streamVars, wpaused, tlsVars, outVars,
                 peerVars, held, readVars, servingVars>>

-----------------------------------------------------------------------------
\* StreamReader: read (one look) and readexactly (a loop), as CPython has them, over
\* _wait_for_data.

ReadStart(t) ==
  /\ tpc[t] = "op" /\ Op(t) \in {"read", "exact"} /\ opener = "open"
  /\ IF ending = "exc" THEN Raise(t) ELSE GoTo(t, "check") /\ UNCHANGED at
  /\ UNCHANGED <<setup, lock, claimVars, linkVars, opener, streamVars, flowVars, tlsVars, outVars,
                 peerVars, held, awake, thrown, readVars, servingVars>>

ReadLook(t) ==
  /\ tpc[t] = "check"
  /\ IF (Op(t) = "read" /\ (rbuf > 0 \/ ending = "eof")) \/ (Op(t) = "exact" /\ rbuf >= setup.need)
       THEN GoTo(t, "take") /\ UNCHANGED at
     ELSE IF ending = "eof" THEN Raise(t)
     ELSE GoTo(t, "paused") /\ UNCHANGED at
  /\ UNCHANGED <<setup, lock, claimVars, linkVars, opener, streamVars, flowVars, tlsVars, outVars,
                 peerVars, held, awake, thrown, readVars, servingVars>>

\* _wait_for_data, before the lock: a paused transport is to go on.
WaitPaused(t) ==
  /\ tpc[t] = "paused"
  /\ IF waiter # Nobody
       THEN Raise(t) /\ UNCHANGED rpaused
       ELSE GoTo(t, IF rpaused THEN "resume" ELSE "look") /\ rpaused' = FALSE /\ UNCHANGED at
  /\ UNCHANGED <<setup, lock, claimVars, linkVars, opener, rbuf, ending, feedGen, seenGen, waiter,
                 flowVars, tlsVars, outVars, peerVars, held, awake, thrown, readVars, servingVars>>

\* resume_reading, outside of the reader's lock; here and in _maybe_resume_transport.
Resume(t) ==
  /\ tpc[t] \in {"resume", "resumed"} /\ lock = Nobody
  /\ ResumeReading
  /\ IF tpc[t] = "resume" THEN GoTo(t, "look") /\ UNCHANGED at ELSE Return(t)
  /\ UNCHANGED <<setup, lock, claimVars, opener, streamVars, flowVars, tls, bio, incoming, outVars,
                 peerVars, held, awake, thrown, readVars, servingVars>>

\* Where read and readexactly go on after _wait_for_data.
Look(t) == IF Op(t) = "read" THEN "take" ELSE "check"

\* Mutant: whatever was fed counts, even if it has been read already.
WaitLookAny(t) ==
  /\ IF feedGen # seenGen \/ ending # "no"
       THEN GoTo(t, Look(t)) /\ UNCHANGED waiter
       ELSE GoTo(t, "suspend") /\ waiter' = t
  /\ seenGen' = feedGen


\* Under the reader's lock: a generation that has not been seen is a reason to go back, if
\* there is something to see; otherwise the task waits.
WaitLook(t) ==
  /\ IF (feedGen # seenGen /\ rbuf > 0) \/ ending # "no"
       THEN GoTo(t, Look(t)) /\ UNCHANGED waiter
       ELSE GoTo(t, "suspend") /\ waiter' = t
  /\ seenGen' = feedGen

WaitForData(t) ==
  /\ tpc[t] = "look"
  /\ WaitLook(t)
  /\ UNCHANGED <<setup, lock, claimVars, linkVars, opener, rbuf, rpaused, ending, feedGen, flowVars,
                 tlsVars, outVars, peerVars, at, held, awake, thrown, readVars, servingVars>>

WaitWoken(t) ==
  /\ tpc[t] = "parked" /\ Op(t) \in {"read", "exact"} /\ t \in awake
  /\ awake' = awake \ {t}
  /\ waiter' = Nobody
  /\ seenGen' = feedGen
  /\ thrown' = thrown \ {t}
  /\ IF t \in thrown THEN Raise(t) ELSE GoTo(t, Look(t)) /\ UNCHANGED at
  /\ UNCHANGED <<setup, lock, claimVars, linkVars, opener, rbuf, rpaused, ending, feedGen, flowVars,
                 tlsVars, outVars, peerVars, held, readVars, servingVars>>

\* The data are copied; read deletes as much as it has asked for, which is all there is, and
\* readexactly clears a buffer of just the length it was to read ...
ReadCopy(t) ==
  /\ tpc[t] = "take"
  /\ GoTo(t, IF Op(t) = "read" \/ rbuf = setup.need THEN "clear" ELSE "delete")
  /\ UNCHANGED <<setup, lock, claimVars, linkVars, opener, streamVars, flowVars, tlsVars, outVars,
                 peerVars, at, held, awake, thrown, readVars, servingVars>>

\* ... in a second step, without the reader's lock: what feed_data has added in between, on
\* another worker, goes unread with it.
ReadDelete(t) ==
  /\ tpc[t] \in {"clear", "delete"}
  /\ rbuf' = IF tpc[t] = "clear" \/ rbuf < setup.need THEN 0 ELSE rbuf - setup.need
  /\ GoTo(t, "maybe")
  /\ UNCHANGED <<setup, lock, claimVars, linkVars, opener, rpaused, ending, feedGen, seenGen,
                 waiter,
                 flowVars, tlsVars, outVars, peerVars, at, held, awake, thrown, readVars, servingVars>>

\* _maybe_resume_transport: decided under the reader's lock.
MaybeResume(t) ==
  /\ tpc[t] = "maybe"
  /\ IF rpaused /\ rbuf <= setup.limit
       THEN rpaused' = FALSE /\ GoTo(t, "resumed") /\ UNCHANGED at
       ELSE Return(t) /\ UNCHANGED rpaused
  /\ UNCHANGED <<setup, lock, claimVars, linkVars, opener, rbuf, ending, feedGen, seenGen, waiter,
                 flowVars, tlsVars, outVars, peerVars, held, awake, thrown, readVars, servingVars>>

-----------------------------------------------------------------------------
\* SSLProtocol.

\* start_tls: the protocol is replaced, _begin is queued, and the task waits.
SetProtocol == tls' = "set"

StartTls(t) ==
  /\ Runs(t, "starttls") /\ lock = Nobody
  /\ SetProtocol
  /\ GoTo(t, "suspend")
  /\ UNCHANGED <<setup, lock, claimVars, linkVars, opener, streamVars, flowVars, bio, incoming,
                 resume, outVars, peerVars, at, held, awake, thrown, readVars, servingVars>>

\* _begin: connection_made starts the handshake, with a record to write ...
Begin ==
  /\ tls = "set" /\ ssl = "idle" /\ state = "made"
  /\ tls' = "begun"
  /\ ssl' = "begin"
  /\ numbered' = numbered + 1
  /\ slice' = [slice EXCEPT !["ssl"] = <<numbered + 1>>]
  /\ UNCHANGED <<setup, lock, claimVars, linkVars, opener, streamVars, flowVars, bio, incoming,
                 resume, buffer, eof, wire, sending, peerVars, taskVars, readVars, servingVars>>

\* ... which the raw transport writes ...
SslWrite ==
  /\ \/ ssl = "read" /\ lock = "ssl" /\ ssl' = "idle"
     \/ ssl = "begin" /\ lock = Nobody /\ ssl' = "resume"
  /\ lock' = Nobody
  /\ RawWrite("ssl")
  /\ UNCHANGED <<setup, claimVars, opener, streamVars, drainers, tlsVars, eof, numbered, sending,
                 peerVars, taskVars, readVars, servingVars>>

\* ... and then resumes reading.
BeginResume ==
  /\ ssl = "resume" /\ lock = Nobody
  /\ ssl' = "idle"
  /\ ResumeReading
  /\ UNCHANGED <<setup, lock, claimVars, opener, streamVars, flowVars, tls, bio, incoming, buffer,
                 eof, wire, numbered, slice, sending, peerVars, taskVars, readVars, servingVars>>

\* _resume_reading_locked and _do_read: what has come in goes to the application; a record
\* may have to be written.
DoRead ==
  /\ resume /\ lock = Nobody
  /\ resume' = FALSE
  /\ IF tls = "done" /\ incoming > 0 /\ ~tpaused /\ state = "made"
       THEN FeedData(incoming) /\ incoming' = 0
       ELSE UNCHANGED <<linkVars, streamVars, incoming, awake, thrown>>
  /\ \/ /\ ssl' = "read" /\ lock' = "ssl"
        /\ numbered' = numbered + 1
        /\ slice' = [slice EXCEPT !["ssl"] = bio \o <<numbered + 1>>]
        /\ bio' = <<>>
     \/ UNCHANGED <<ssl, lock, numbered, slice, bio>>
  /\ UNCHANGED <<setup, claimVars, opener, flowVars, tls, buffer, eof, wire, sending, peerVars, tpc,
                 at, held, readVars, servingVars>>

\* _on_handshake_complete: the opener, or the task in start_tls, goes on.
HandshakeComplete ==
  /\ tls = "begun" /\ ssl = "idle" /\ lock = Nobody /\ ~connLost /\ peer # "reset"
  /\ tls' = "done"
  /\ opener' = IF opener = "await" THEN "open" ELSE opener
  /\ awake' = awake \cup TlsWaiters
  /\ resume' = (incoming > 0)
  /\ UNCHANGED <<setup, lock, claimVars, linkVars, streamVars, flowVars, bio, incoming, outVars,
                 peerVars, tpc, at, held, thrown, readVars, servingVars>>

\* What the peer has sent, or its certificate, is refused.
HandshakeError ==
  /\ tls = "begun" /\ ssl = "idle" /\ lock = Nobody /\ ~connLost
  /\ HandshakeFails
  /\ UNCHANGED <<setup, lock, claimVars, opener, streamVars, flowVars, bio, incoming, resume, eof,
                 wire, numbered, slice, sending, ssl, peerVars, tpc, at, held, readVars, servingVars>>

\* _check_handshake_timeout.
HandshakeTimeout ==
  /\ tls = "begun" /\ lock = Nobody
  /\ ForceClose("exc")
  /\ tls' = "failed"
  /\ UNCHANGED <<setup, lock, claimVars, opener, streamVars, flowVars, bio, incoming, resume, eof,
                 wire, numbered, slice, sending, ssl, peerVars, taskVars, readVars, servingVars>>

\* close of SSLProtocolTransport: what has come in goes to the application, and the
\* close_notify to the peer.
CloseTls(t) ==
  /\ Runs(t, "close") /\ lock = Nobody /\ Encrypted
  /\ IF Leaving \/ state = "lost"
       THEN Return(t) /\ UNCHANGED <<lock, linkVars, streamVars, tls, bio, incoming, numbered,
                                     awake, thrown>>
       ELSE /\ IF incoming > 0 /\ ~tpaused
                 THEN FeedData(incoming) /\ incoming' = 0
                 ELSE UNCHANGED <<linkVars, streamVars, incoming, awake, thrown>>
            /\ tls' = "shutdown"
            /\ numbered' = numbered + 1
            /\ bio' = Append(bio, numbered + 1)
            /\ lock' = t
            /\ GoTo(t, "outgoing") /\ UNCHANGED at
  /\ UNCHANGED <<setup, claimVars, opener, flowVars, resume, buffer, eof, wire, slice, sending, ssl,
                 peerVars, held, readVars, servingVars>>

\* _on_shutdown_complete: the peer's close_notify has come; the close of the raw transport
\* is queued ...
ShutdownComplete ==
  /\ tls = "shutdown" /\ lock = Nobody /\ ~connLost /\ peer # "reset"
  /\ tls' = "unwrapped"
  /\ FeedEnd("eof", {})
  /\ UNCHANGED <<setup, lock, claimVars, linkVars, opener, flowVars, bio, incoming, resume, outVars,
                 peerVars, tpc, at, held, readVars, servingVars>>

CloseUnwrapped ==
  /\ tls = "unwrapped" /\ lock = Nobody
  /\ tls' = "closed"
  /\ Close
  /\ UNCHANGED <<setup, lock, claimVars, opener, streamVars, flowVars, bio, incoming, resume,
                 outVars,
                 peerVars, taskVars, readVars, servingVars>>

\* ... or has not, in time: _check_shutdown_timeout.
ShutdownTimeout ==
  /\ tls = "shutdown" /\ lock = Nobody
  /\ ForceClose("exc")
  /\ tls' = "failed"
  /\ UNCHANGED <<setup, lock, claimVars, opener, streamVars, flowVars, bio, incoming, resume, eof,
                 wire, numbered, slice, sending, ssl, peerVars, taskVars, readVars, servingVars>>

\* The task in start_tls goes on, or is cancelled; an exception closes the transport and
\* withdraws _begin.
StartTlsEnd(t) ==
  /\ tpc[t] = "parked" /\ Op(t) = "starttls"
  /\ \/ t \in awake \ thrown /\ Return(t) /\ UNCHANGED <<linkVars, tls>>
     \/ /\ t \in thrown \/ (setup.giveup /\ t \notin awake)
        /\ lock = Nobody
        /\ Close
        /\ tls' = IF tls = "set" THEN "none" ELSE tls
        /\ Raise(t)
  /\ awake' = awake \ {t}
  /\ thrown' = thrown \ {t}
  /\ UNCHANGED <<setup, lock, claimVars, opener, streamVars, flowVars, bio, incoming, resume,
                 outVars,
                 peerVars, held, readVars, servingVars>>

-----------------------------------------------------------------------------
\* The peer.

PeerSends ==
  /\ peerSent < setup.inbound /\ peer = "up" /\ sockOpen
  /\ peerSent' = peerSent + 1
  /\ inbox' = inbox + 1
  /\ UNCHANGED <<setup, lock, claimVars, linkVars, opener, streamVars, flowVars, tlsVars, outVars,
                 peer, taskVars, readVars, servingVars>>

PeerEnds ==
  /\ peer = "up"
  /\ peer' \in setup.cut
  /\ UNCHANGED <<setup, lock, claimVars, linkVars, opener, streamVars, flowVars, tlsVars, outVars,
                 inbox, peerSent, taskVars, readVars, servingVars>>

ServerStep ==
  /\ setup.server
  /\ CreateStep \/ CloseServer \/ \E c \in Callers : WaitClosed(c)
  /\ UNCHANGED <<setup, lock, claimVars, linkVars, opener, streamVars, flowVars, tlsVars, outVars,
                 peerVars, taskVars, readVars>>

-----------------------------------------------------------------------------
TaskStep(t) ==
  \/ Write(t) \/ WriteEnter(t) \/ WriteOutgoing(t) \/ WriteRaw(t) \/ WriteEof(t)
  \/ CloseTransport(t) \/ AbortTransport(t) \/ CloseTls(t)
  \/ Suspend(t) \/ Requeue(t)
  \/ Drain(t) \/ DrainHelper(t) \/ DrainWoken(t)
  \/ ReadStart(t) \/ ReadLook(t) \/ WaitPaused(t) \/ Resume(t) \/ WaitForData(t) \/ WaitWoken(t)
  \/ ReadCopy(t) \/ ReadDelete(t) \/ MaybeResume(t)
  \/ StartTls(t) \/ StartTlsEnd(t)

ReadStep(r) == ReadCheck(r) \/ ReadRun(r)

WriteStep == WriteReady \/ WritePut

HandleStep == Startup \/ Lost \/ Begin \/ SslWrite \/ BeginResume \/ DoRead \/ CloseUnwrapped

SslTimeout == HandshakeTimeout \/ ShutdownTimeout

ConnNext ==
  \/ \E t \in Tasks : TaskStep(t)
  \/ \E r \in Readers : ReadStep(r)
  \/ WriteStep \/ HandleStep \/ HandshakeComplete \/ HandshakeError \/ ShutdownComplete
  \/ SslTimeout
  \/ DeferExpires
  \/ Accept \/ GiveUp \/ PeerSends \/ PeerEnds \/ ServerStep

ConnSpec == ConnInit /\ [][ConnNext]_connectionVars

\* A worker goes on with what it does; handles that are queued are run (module WorkSchedule);
\* a socket that is written to becomes writable again; timers expire.
ConnFairness ==
  /\ \A t \in Tasks : WF_connectionVars(TaskStep(t))
  /\ \A r \in Readers : WF_connectionVars(ReadStep(r))
  /\ WF_connectionVars(WriteStep)
  /\ WF_connectionVars(HandleStep \/ SslTimeout)

ConnFairSpec == ConnSpec /\ ConnFairness

-----------------------------------------------------------------------------
\* Properties.

\* What is sent leaves in the order the writes got the lock: no write, of the application or
\* of SSLProtocol, comes between the parts of another one, and the end of the stream comes
\* after all of them.
WireOrder == \A i \in DOMAIN wire : wire[i] = i

\* The registration of a descriptor does not outlive its socket: the next socket with the
\* number does not get the events, or the callbacks, of this one.
ReleasedWithSocket == ~sockOpen => ~registered /\ ~reading /\ ~writing

\* The protocol gets data only while no task is between its write and its next suspension;
\* unless the task has waited too long, or has claimed after the reader had looked.
ReadStandsAside ==
  [][\A r \in Readers : rpc[r] = "checked" /\ inbox' < inbox =>
       rpc'[r] = "checked" \/ forced[r] \/ held \subseteq late[r]]_connectionVars

\* read returns nothing only at the end of the stream: bytes that have been read before do
\* not make a task come back to an empty buffer.
NoEmptyRead ==
  \A t \in Tasks : tpc[t] = "take" /\ Op(t) = "read" => rbuf > 0 \/ ending # "no"


\* readexactly does not spin: a task that reads comes to wait, or to an end.
ReaderSettles ==
  \A t \in Tasks : tpc[t] = "check" ~> tpc[t] \notin {"check", "paused", "resume", "look"}
=============================================================================
