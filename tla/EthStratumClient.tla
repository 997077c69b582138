--------------------------- MODULE EthStratumClient ---------------------------
(***************************************************************************)
(* The stratum pool client of EthStratumClient.cpp.                        *)
(*                                                                         *)
(* Actors:                                                                 *)
(*  - the io thread, running io_service::run(): it runs the ready          *)
(*    handlers one at a time, in order (the queue q), and only while it    *)
(*    runs do pending operations (resolve, connect, reads, writes, timers) *)
(*    complete and queue their handlers;                                   *)
(*  - a farm thread calling submitSolution();                              *)
(*  - the supervisor (not under src/): it calls connect() first, and after *)
(*    every onDisconnected callback either calls connect() from inside the *)
(*    callback or later from its own thread (ReconnectMode);               *)
(*  - the pool, at the far end of the TCP connection: it answers requests  *)
(*    in order, may stay silent on a share, and pushes notifications.      *)
(*                                                                         *)
(* JSON text, host names and hashes are abstracted to small records and    *)
(* model values; every branch of the handlers is kept.                     *)
(***************************************************************************)
EXTENDS Integers, Sequences, FiniteSets

CONSTANTS
  Configs,         \* the client configurations a behaviour may start in (records, below)
  Headers,         \* header hashes the pool may notify
  NoHeader,        \* h256()
  Difficulties,    \* values mining.set_difficulty may carry, in units of the 0.0001 floor
  DiffOne,         \* difficulty 1 in those units
  ExtraNonces,     \* extranonces the pool may assign
  NoExtraNonce,    \* m_extraNonce before the first subscribe answer
  MaxConnects,     \* bound on connect() calls
  MaxSubmits,      \* bound on submitSolution() calls
  MaxReports,      \* bound on submitHashrate() calls
  ChanBound        \* bound on pool messages in flight to the client

\* A configuration: the dialects m_connection.Version() may name, whether
\* m_connection.SecLevel() != NONE (TLS), whether resolve, connect, the TLS
\* handshake and the link may fail, whether an answer may arrive as a line
\* that is not one JSON object, whether the pool may refuse mining.authorize,
\* where the reconnect happens ("callback": connect() inside onDisconnected;
\* "thread": later, from the supervisor's thread), m_submit_hashrate, and
\* whether the pool sends client.get_version.
ConfigRecords ==
  [versions : SUBSET {"stratum", "ethproxy", "ethereumstratum"},
   secure : BOOLEAN, netMayFail : BOOLEAN, garble : BOOLEAN, authMayFail : BOOLEAN,
   reconnect : {"callback", "thread"}, hashrate : BOOLEAN, asksVersion : BOOLEAN]

ASSUME
  /\ Configs \subseteq ConfigRecords
  /\ Difficulties \subseteq Int /\ DiffOne \in Nat \ {0}

VARIABLES
  conf,            \* the configuration, fixed for the client's lifetime
  version,         \* m_connection.Version(), fixed for the client's lifetime
  ioThread,        \* m_serviceThread: "none", "running" (inside run()), "finished" (returned, joinable)
  ioStopped,       \* the io_service's stopped flag
  cb,              \* "disc" while the onDisconnected callback runs on the io thread
  q,               \* handlers ready to run, in order
  resolving,       \* async_resolve operations pending
  connecting,      \* async_connect operations pending on the socket
  reading,         \* async_read_until operations pending on the socket
  writes,          \* async_write operations pending, by handler: "resp" or "hash"
  sock,            \* m_socket / m_securesocket: "null" or "open"
  link,            \* the TCP connection to the pool is up
  workTimer,       \* m_worktimer armed
  respTimer,       \* m_responsetimer armed
  hashTimer,       \* m_hashrate_event armed
  m_pending, m_connected, m_linkdown, m_authorized, m_response_pending,
  m_stale,
  m_requestBuffer, \* requests written to the stream buffer, not yet sent
  m_currentHeader, \* m_current.header
  m_nextWorkDifficulty,
  m_extraNonce,
  lastWork,        \* the last WorkPackage handed to m_onWorkReceived
  toPool,          \* requests the pool received and has not answered
  toClient,        \* pool messages in flight to the client
  poolSubscribed,  \* the pool got the subscribe / login of this connection
  supPending,      \* the supervisor's thread owes a connect()
  connects,        \* connect() calls so far
  attempt,         \* history: "pending" from connect() to m_connected or onDisconnected
  farm,            \* the submitting farm thread: "idle", or "arming" between send and timer
  nSubs,           \* submitSolution() calls so far: shares 1..nSubs
  reports,         \* submitHashrate() calls so far
  subStale,        \* share -> whether it is stale (its own flag, or new work while it waited)
  outcome,         \* share -> the outcomes reported for it
  crashed          \* a null socket was dereferenced

Secure          == conf.secure
NetMayFail      == conf.netMayFail
PoolMayGarble   == conf.garble
AuthMayFail     == conf.authMayFail
ReconnectMode   == conf.reconnect
SubmitHashrate  == conf.hashrate
PoolAsksVersion == conf.asksVersion

ioVars    == <<ioThread, ioStopped, cb, q>>
opVars    == <<resolving, connecting, reading, writes>>
timerVars == <<workTimer, respTimer, hashTimer>>
sessVars  == <<m_pending, m_connected, m_linkdown, m_authorized,
               m_response_pending, m_stale, m_requestBuffer>>
protoVars == <<m_currentHeader, m_nextWorkDifficulty, m_extraNonce, lastWork>>
poolVars  == <<toPool, toClient, poolSubscribed>>
supVars   == <<supPending, connects, attempt>>
shareVars == <<nSubs, subStale, outcome>>
vars == <<conf, version, reports, farm, ioVars, opVars, sock, link, timerVars, sessVars, protoVars, poolVars,
          supVars, shareVars, crashed>>

-----------------------------------------------------------------------------
Shares == 1 .. MaxSubmits

\* A request: its JSON-RPC id (0 for the client.get_version reply, which echoes the pool's id) and,
\* for id 4, the share it carries.
Req(id, s) == [id |-> id, sub |-> s]

\* Pool messages.
Resp(id, ok, s) == [t |-> "resp", id |-> id, ok |-> ok, sub |-> s]
Subscribed(x)   == [t |-> "resp", id |-> 1, ok |-> TRUE, sub |-> 0, x |-> x]
Notify(hdr)     == [t |-> "notify", hdr |-> hdr]
SetDiff(d)      == [t |-> "setdiff", d |-> d]
SetXn(x)        == [t |-> "setxn", x |-> x]
GetVersion      == [t |-> "getver"]
\* A line readResponse cannot use: not framed by '{' and '}', or not JSON.
Garbled         == [t |-> "garbled"]
NoMsg           == [t |-> "none"]

\* Handlers queued on the io_service, with their error_code.
H(kind, ok, msg) == [h |-> kind, ok |-> ok, msg |-> msg]
Aborted(kind)    == H(kind, FALSE, NoMsg)

\* diff is the EthereumStratum share difficulty; 0 where the pool sends the
\* target itself.
NoWork == [hdr |-> NoHeader, diff |-> 0, xn |-> NoExtraNonce]

\* The reactor completes operations only inside a running run().
Reactor == ~crashed /\ ioThread = "running" /\ ~ioStopped

\* The io thread is free to run the next ready handler of kind k.
Ready(k) == Reactor /\ cb = "none" /\ q # <<>> /\ Head(q).h = k

Submitted == 1 .. nSubs
Waiting   == {s \in Submitted : outcome[s] = {}}

ReadsQueued == Len(SelectSeq(q, LAMBDA x : x.h = "read"))

\* m_pending after readResponse's decrement (lines 359-361).
PendingAfterRead == IF m_pending > 0 THEN m_pending - 1 ELSE 0

Outcomes == [o : {"accepted", "rejected", "timeout", "lost"}, stale : BOOLEAN]

TypeOK ==
  /\ conf \in Configs /\ version \in conf.versions /\ reports \in 0 .. MaxReports
  /\ ioThread \in {"none", "running", "finished"}
  /\ ioStopped \in BOOLEAN /\ cb \in {"none", "disc"}
  /\ resolving \in Nat /\ connecting \in Nat /\ reading \in Nat
  /\ writes \in Seq({"resp", "hash"})
  /\ sock \in {"null", "open"} /\ link \in BOOLEAN
  /\ {workTimer, respTimer, hashTimer} \subseteq BOOLEAN
  /\ m_pending \in Nat
  /\ m_requestBuffer \in Seq([id : 0 .. 6, sub : 0 .. MaxSubmits])
  /\ m_currentHeader \in Headers \cup {NoHeader}
  /\ m_nextWorkDifficulty \in Nat \ {0}
  /\ m_extraNonce \in ExtraNonces \cup {NoExtraNonce}
  /\ connects \in 0 .. MaxConnects
  /\ attempt \in {"idle", "pending", "done"}
  /\ farm \in {"idle", "arming"} /\ nSubs \in 0 .. MaxSubmits
  /\ subStale \in [Shares -> BOOLEAN]
  /\ outcome \in [Shares -> SUBSET Outcomes]

-----------------------------------------------------------------------------
(* The calls that handlers share.                                          *)

\* readline() without the m_pending test.
ReadLineUnguarded(pend, qr) ==
  /\ m_pending' = pend + 1
  /\ IF link THEN reading' = reading + 1 /\ q' = qr
             ELSE reading' = reading /\ q' = Append(qr, Aborted("read"))

\* readline() (320-338): one async_read_until unless one is counted in
\* m_pending. On a socket that is not connected the read fails at once.
ReadLine(pend, qr) ==
  IF pend = 0
  THEN /\ m_pending' = 1
       /\ IF link THEN reading' = reading + 1 /\ q' = qr
                  ELSE reading' = reading /\ q' = Append(qr, Aborted("read"))
  ELSE m_pending' = pend /\ reading' = reading /\ q' = qr

\* async_write_with_response() (221-233) of what the buffer holds. The TLS
\* path dereferences m_securesocket; the plain path writes to
\* m_nonsecuresocket, which disconnect() closes but keeps.
WriteWithResponse ==
  IF sock = "open" THEN writes' = Append(writes, "resp") ELSE writes' = writes

\* Dereferencing a socket pointer that disconnect() has reset.
NullDeref(tls) == sock = "null" /\ (tls => Secure)

\* disconnect() (157-192). Closing the socket fails its pending read and
\* connect (their handlers are queued with an error) and its writes (whose
\* handlers only log); io_service::stop(); then m_onDisconnected().
\* m_pending, m_stale and the request buffer are left as they are.
Disconnect(qr, cause) ==
  /\ crashed' = NullDeref(FALSE)
  /\ workTimer' = FALSE /\ respTimer' = FALSE
  /\ m_response_pending' = FALSE /\ m_linkdown' = TRUE
  /\ q' = qr \o [i \in 1 .. reading |-> Aborted("read")]
             \o [i \in 1 .. connecting |-> Aborted("connect")]
  /\ reading' = 0 /\ connecting' = 0 /\ writes' = <<>>
  /\ sock' = "null" /\ link' = FALSE
  /\ toPool' = <<>> /\ toClient' = <<>> /\ poolSubscribed' = FALSE
  /\ ioStopped' = TRUE
  /\ m_authorized' = FALSE /\ m_connected' = FALSE
  /\ cb' = "disc" /\ attempt' = IF attempt = "pending" THEN "done" ELSE attempt
  /\ outcome' = [s \in Shares |-> IF s \in Waiting
                                  THEN {[o |-> cause, stale |-> subStale[s]]}
                                  ELSE outcome[s]]
  /\ UNCHANGED <<ioThread, resolving, hashTimer, m_stale, m_requestBuffer,
                 protoVars, supPending, connects, nSubs, subStale>>

\* connect() (58-153): a fresh socket, async_resolve, and run() on a new
\* thread the first time; later only io_service::reset().
Connect ==
  /\ ~crashed
  /\ m_authorized' = FALSE /\ m_connected' = FALSE
  /\ sock' = "open" /\ link' = FALSE /\ poolSubscribed' = FALSE
  /\ toPool' = <<>> /\ toClient' = <<>>
  /\ resolving' = resolving + 1
  /\ IF ioThread = "none"
     THEN ioThread' = "running" /\ UNCHANGED ioStopped
     ELSE ioStopped' = FALSE /\ UNCHANGED ioThread
  /\ connects' = connects + 1 /\ attempt' = "pending"

ConnectKeeps == UNCHANGED <<q, connecting, reading, writes, timerVars, m_pending,
                            m_linkdown, m_response_pending, m_stale,
                            m_requestBuffer, protoVars, shareVars, crashed>>

-----------------------------------------------------------------------------
(* The supervisor (not under src/, spec 4.3: re-entry into RUNNING is its  *)
(* job): the first connect(), and a connect() after each onDisconnected,   *)
(* from inside the callback or from its own thread.                        *)

SupStart ==
  /\ connects = 0
  /\ Connect /\ ConnectKeeps /\ UNCHANGED <<cb, supPending>>

ReconnectInCallback ==
  /\ cb = "disc" /\ ReconnectMode = "callback" /\ connects < MaxConnects
  /\ Connect /\ ConnectKeeps
  /\ cb' = "none" /\ UNCHANGED supPending

CallbackReturns ==
  /\ ~crashed
  /\ cb = "disc" /\ (ReconnectMode = "thread" \/ connects = MaxConnects)
  /\ cb' = "none" /\ supPending' = (connects < MaxConnects)
  /\ UNCHANGED <<ioThread, ioStopped, q, opVars, sock, link, timerVars, sessVars,
                 protoVars, poolVars, connects, attempt, shareVars, crashed>>

SupReconnect ==
  /\ supPending
  /\ Connect /\ ConnectKeeps
  /\ supPending' = FALSE /\ UNCHANGED cb

-----------------------------------------------------------------------------
(* The reactor, inside run(): operations complete and queue handlers.      *)

NetResults == IF NetMayFail THEN BOOLEAN ELSE {TRUE}

ResolveDone ==
  /\ Reactor /\ resolving > 0
  /\ \E ok \in NetResults : q' = Append(q, H("resolve", ok, NoMsg))
  /\ resolving' = resolving - 1
  /\ UNCHANGED <<ioThread, ioStopped, cb, connecting, reading, writes, sock, link,
                 timerVars, sessVars, protoVars, poolVars, supVars, shareVars, crashed>>

ConnectDone ==
  /\ Reactor /\ connecting > 0
  /\ \E ok \in NetResults :
       /\ q' = Append(q, H("connect", ok, NoMsg))
       /\ link' = ok
  /\ connecting' = connecting - 1
  /\ UNCHANGED <<ioThread, ioStopped, cb, resolving, reading, writes, sock,
                 timerVars, sessVars, protoVars, poolVars, supVars, shareVars, crashed>>

\* An async_write sends the buffer; on a dead link it fails and the buffer
\* keeps its bytes. handleResponse is queued; handleHashrateResponse and the
\* failure path only log.
WriteDone ==
  /\ Reactor /\ writes # <<>>
  /\ IF link
     THEN /\ toPool' = toPool \o m_requestBuffer
          /\ m_requestBuffer' = <<>>
          /\ q' = IF Head(writes) = "resp" THEN Append(q, H("write", TRUE, NoMsg)) ELSE q
     ELSE UNCHANGED <<toPool, m_requestBuffer, q>>
  /\ writes' = Tail(writes)
  /\ UNCHANGED <<ioThread, ioStopped, cb, resolving, connecting, reading, sock, link,
                 timerVars, m_pending, m_connected, m_linkdown, m_authorized,
                 m_response_pending, m_stale, protoVars, toClient, poolSubscribed,
                 supVars, shareVars, crashed>>

ReadDone ==
  /\ Reactor /\ reading > 0 /\ link /\ toClient # <<>>
  /\ q' = Append(q, H("read", TRUE, Head(toClient)))
  /\ toClient' = Tail(toClient)
  /\ reading' = reading - 1
  /\ UNCHANGED <<ioThread, ioStopped, cb, resolving, connecting, writes, sock, link,
                 timerVars, sessVars, protoVars, toPool, poolSubscribed, supVars,
                 shareVars, crashed>>

\* The pool or the network drops the connection: the pending read fails.
LinkDrops ==
  /\ Reactor /\ NetMayFail /\ link
  /\ link' = FALSE /\ toPool' = <<>> /\ toClient' = <<>> /\ poolSubscribed' = FALSE
  /\ q' = q \o [i \in 1 .. reading |-> Aborted("read")]
  /\ reading' = 0
  /\ UNCHANGED <<ioThread, ioStopped, cb, resolving, connecting, writes, sock,
                 timerVars, sessVars, protoVars, supVars, shareVars, crashed>>

\* A timer expires: its handler is queued with success; cancel() no longer
\* reaches it.
TimerFires(kind) ==
  /\ Reactor
  /\ \/ kind = "worktimer" /\ workTimer /\ workTimer' = FALSE /\ UNCHANGED <<respTimer, hashTimer>>
     \/ kind = "resptimer" /\ respTimer /\ respTimer' = FALSE /\ UNCHANGED <<workTimer, hashTimer>>
     \/ kind = "hashtimer" /\ hashTimer /\ hashTimer' = FALSE /\ UNCHANGED <<workTimer, respTimer>>
  /\ q' = Append(q, H(kind, TRUE, NoMsg))
  /\ UNCHANGED <<ioThread, ioStopped, cb, opVars, sock, link, sessVars, protoVars,
                 poolVars, supVars, shareVars, crashed>>

\* run() returns when the service is stopped or has no work left.
IoThreadExits ==
  /\ ~crashed
  /\ ioThread = "running" /\ cb = "none"
  /\ \/ ioStopped
     \/ /\ q = <<>> /\ resolving = 0 /\ connecting = 0 /\ reading = 0
        /\ writes = <<>> /\ ~workTimer /\ ~respTimer /\ ~hashTimer
  /\ ioThread' = "finished"
  /\ UNCHANGED <<ioStopped, cb, q, opVars, sock, link, timerVars, sessVars,
                 protoVars, poolVars, supVars, shareVars, crashed>>

-----------------------------------------------------------------------------
(* The pool: it answers requests in order, may leave a share unanswered,   *)
(* and once subscribed pushes work and, per dialect, other notifications.  *)

PoolAnswers ==
  /\ ~crashed
  /\ link /\ toPool # <<>> /\ Len(toClient) < ChanBound
  /\ LET r == Head(toPool) IN
     /\ \/ r.id = 1 /\ \E x \in ExtraNonces : toClient' = Append(toClient, Subscribed(x))
        \/ r.id \in {2, 6} /\ toClient' = Append(toClient, Resp(r.id, TRUE, 0))
        \/ r.id = 3 /\ \E ok \in (IF AuthMayFail THEN BOOLEAN ELSE {TRUE}) :
                         toClient' = Append(toClient, Resp(3, ok, 0))
        \/ r.id = 4 /\ \E ok \in BOOLEAN : toClient' = Append(toClient, Resp(4, ok, r.sub))
        \/ r.id = 5 /\ \E h \in Headers : toClient' = Append(toClient, Notify(h))
        \/ r.id \in {0, 4} /\ toClient' = toClient
        \/ PoolMayGarble /\ toClient' = Append(toClient, Garbled)
     /\ poolSubscribed' = (poolSubscribed \/ r.id = 1)
  /\ toPool' = Tail(toPool)
  /\ UNCHANGED <<ioVars, opVars, sock, link, timerVars, sessVars, protoVars,
                 supVars, shareVars, crashed>>

\* ChanBound bounds the traffic in flight both ways (pool messages, requests
\* the pool has not answered, writes not yet sent), so that a pool pushing
\* client.get_version faster than the replies go out stays finite.
InFlight == Len(toClient) + Len(toPool) + Len(writes)

PoolPushes ==
  /\ ~crashed
  /\ link /\ poolSubscribed /\ InFlight < ChanBound
  /\ \/ \E h \in Headers : toClient' = Append(toClient, Notify(h))
     \/ version = "ethereumstratum" /\ \E d \in Difficulties : toClient' = Append(toClient, SetDiff(d))
     \/ version = "ethereumstratum" /\ \E x \in ExtraNonces : toClient' = Append(toClient, SetXn(x))
     \/ PoolAsksVersion /\ version # "ethproxy" /\ toClient' = Append(toClient, GetVersion)
  /\ UNCHANGED <<ioVars, opVars, sock, link, timerVars, sessVars, protoVars, toPool,
                 poolSubscribed, supVars, shareVars, crashed>>

-----------------------------------------------------------------------------
(* The io thread runs the handler at the head of q.                        *)

\* resolve_handler that only logs a failed resolve.
RunResolveNoDisconnect ==
  /\ Ready("resolve")
  /\ IF Head(q).ok
     THEN /\ crashed' = NullDeref(FALSE)
          /\ connecting' = connecting + 1 /\ q' = Tail(q)
          /\ UNCHANGED <<ioThread, ioStopped, cb, resolving, reading, writes, sock, link,
                         timerVars, sessVars, protoVars, poolVars, supVars, shareVars>>
     ELSE /\ q' = Tail(q)
          /\ UNCHANGED <<ioThread, ioStopped, cb, opVars, sock, link, timerVars, sessVars,
                         protoVars, poolVars, supVars, shareVars, crashed>>

\* resolve_handler (194-212).
RunResolve ==
  /\ Ready("resolve")
  /\ IF Head(q).ok
     THEN /\ crashed' = NullDeref(FALSE)      \* async_connect(*m_socket, ...)
          /\ connecting' = connecting + 1 /\ q' = Tail(q)
          /\ UNCHANGED <<ioThread, ioStopped, cb, resolving, reading, writes, sock, link,
                         timerVars, sessVars, protoVars, poolVars, supVars, shareVars>>
     ELSE Disconnect(Tail(q), "lost") /\ UNCHANGED m_pending

\* Mutant: connect_handler without reset_work_timeout() (273).
RunConnectNoWorkTimer ==
  /\ Ready("connect")
  /\ \/ /\ Head(q).ok
        /\ m_connected' = TRUE /\ m_linkdown' = FALSE
        /\ attempt' = IF attempt = "pending" THEN "done" ELSE attempt
        /\ m_authorized' = IF version = "ethproxy" THEN m_authorized ELSE TRUE
        /\ m_requestBuffer' = Append(m_requestBuffer, Req(1, 0))
        /\ WriteWithResponse
        /\ crashed' = NullDeref(TRUE)
        /\ q' = Tail(q)
        /\ UNCHANGED <<ioThread, ioStopped, cb, resolving, connecting, reading, sock,
                       link, timerVars, m_pending, m_response_pending,
                       m_stale, protoVars, poolVars, supPending, connects, shareVars>>
     \/ Head(q).ok /\ Secure /\ NetMayFail
        /\ Disconnect(Tail(q), "lost") /\ UNCHANGED m_pending
     \/ ~Head(q).ok /\ Disconnect(Tail(q), "lost") /\ UNCHANGED m_pending

\* connect_handler (235-318): connected, TLS handshake, work timer,
\* subscribe (or eth_submitLogin) as id 1.
RunConnect ==
  /\ Ready("connect")
  /\ \/ /\ Head(q).ok
        /\ m_connected' = TRUE /\ m_linkdown' = FALSE
        /\ attempt' = IF attempt = "pending" THEN "done" ELSE attempt
        /\ workTimer' = TRUE
        /\ m_authorized' = IF version = "ethproxy" THEN m_authorized ELSE TRUE
        /\ m_requestBuffer' = Append(m_requestBuffer, Req(1, 0))
        /\ WriteWithResponse
        /\ crashed' = NullDeref(TRUE)
        /\ q' = Tail(q)
        /\ UNCHANGED <<ioThread, ioStopped, cb, resolving, connecting, reading, sock,
                       link, respTimer, hashTimer, m_pending, m_response_pending,
                       m_stale, protoVars, poolVars, supPending, connects, shareVars>>
     \/ Head(q).ok /\ Secure /\ NetMayFail            \* the handshake fails
        /\ Disconnect(Tail(q), "lost") /\ UNCHANGED m_pending
     \/ ~Head(q).ok /\ Disconnect(Tail(q), "lost") /\ UNCHANGED m_pending

\* Mutant: the subscribe write bound to handleHashrateResponse, which only
\* logs, instead of handleResponse.
RunWriteNoReadLine ==
  /\ Ready("write")
  /\ q' = Tail(q)
  /\ UNCHANGED <<ioThread, ioStopped, cb, opVars, sock, link, timerVars, sessVars,
                 protoVars, poolVars, supVars, shareVars, crashed>>

\* handleResponse (344-354) after a successful write: readline().
RunWrite ==
  /\ Ready("write")
  /\ ReadLine(m_pending, Tail(q))
  /\ crashed' = (m_pending = 0 /\ NullDeref(FALSE))
  /\ UNCHANGED <<ioThread, ioStopped, cb, resolving, connecting, writes, sock, link,
                 timerVars, m_connected, m_linkdown, m_authorized, m_response_pending,
                 m_stale, m_requestBuffer, protoVars, poolVars, supVars, shareVars>>

\* readResponse (356-396) with an error: disconnect if still connected.
ReadFails ==
  /\ Ready("read") /\ ~Head(q).ok
  /\ m_pending' = PendingAfterRead
  /\ IF m_connected
     THEN Disconnect(Tail(q), "lost")
     ELSE /\ q' = Tail(q)
          /\ UNCHANGED <<ioThread, ioStopped, cb, opVars, sock, link, timerVars,
                         m_connected, m_linkdown, m_authorized, m_response_pending,
                         m_stale, m_requestBuffer, protoVars, poolVars, supVars,
                         shareVars, crashed>>

\* readResponse with a line: the message msg is dispatched by processReponse.
Reads(msg) == Ready("read") /\ Head(q).ok /\ Head(q).msg = msg

\* The tail of readResponse: readline() again while connected.
ReadAgain ==
  IF m_connected
  THEN ReadLine(PendingAfterRead, Tail(q))
  ELSE m_pending' = PendingAfterRead /\ reading' = reading /\ q' = Tail(q)

ReadAgainCrash == m_connected /\ PendingAfterRead = 0 /\ NullDeref(FALSE)

\* readResponse (365-385) with a line that fails the '{' ... '}' framing
\* test (a warning, except for ethproxy) or that Json::Reader cannot parse
\* (a warning): nothing is dispatched, and the tail of readResponse reads
\* again while connected.
OnGarbled ==
  /\ Reads(Garbled)
  /\ ReadAgain /\ crashed' = ReadAgainCrash
  /\ UNCHANGED <<ioThread, ioStopped, cb, resolving, connecting, writes, sock, link,
                 timerVars, m_connected, m_linkdown, m_authorized, m_response_pending,
                 m_stale, m_requestBuffer, protoVars, poolVars, supVars, shareVars>>

(* processReponse (408-589), one action per branch, each ending as         *)
(* readResponse does.                                                      *)

\* id 1: the subscribe / login answer. EthereumStratum takes the extranonce
\* and subscribes to extranonce changes (id 2); stratum and EthereumStratum
\* authorize (id 3); ethproxy counts as authorized and asks for work (id 5).
OnSubscribed ==
  \E x \in ExtraNonces :
    /\ Reads(Subscribed(x))
    /\ IF version = "ethereumstratum"
       THEN m_nextWorkDifficulty' = DiffOne /\ m_extraNonce' = x
       ELSE UNCHANGED <<m_nextWorkDifficulty, m_extraNonce>>
    /\ m_requestBuffer' = m_requestBuffer
                          \o (IF version = "ethereumstratum" THEN <<Req(2, 0)>> ELSE <<>>)
                          \o (IF version = "ethproxy" THEN <<Req(5, 0)>> ELSE <<Req(3, 0)>>)
    /\ m_authorized' = (m_authorized \/ version = "ethproxy")
    /\ WriteWithResponse
    /\ ReadAgain
    /\ crashed' = (NullDeref(TRUE) \/ ReadAgainCrash)
    /\ UNCHANGED <<ioThread, ioStopped, cb, resolving, connecting, sock, link,
                   timerVars, m_connected, m_linkdown, m_response_pending, m_stale,
                   m_currentHeader, lastWork, poolVars, supVars, shareVars>>

\* Answers with nothing to do: id 2, and id 6 (the default branch, no method).
OnIgnored ==
  /\ \E id \in {2, 6} : Reads(Resp(id, TRUE, 0))
  /\ ReadAgain /\ crashed' = ReadAgainCrash
  /\ UNCHANGED <<ioThread, ioStopped, cb, resolving, connecting, writes, sock, link,
                 timerVars, m_connected, m_linkdown, m_authorized, m_response_pending,
                 m_stale, m_requestBuffer, protoVars, poolVars, supVars, shareVars>>

\* id 3: authorize; a refusal disconnects and returns.
OnAuthorized ==
  \E ok \in BOOLEAN :
    /\ Reads(Resp(3, ok, 0))
    /\ IF ok
       THEN /\ m_authorized' = TRUE
            /\ ReadAgain /\ crashed' = ReadAgainCrash
            /\ UNCHANGED <<ioThread, ioStopped, cb, resolving, connecting, writes, sock,
                           link, timerVars, m_connected, m_linkdown, m_response_pending,
                           m_stale, m_requestBuffer, protoVars, poolVars, supVars,
                           shareVars>>
       ELSE Disconnect(Tail(q), "lost") /\ m_pending' = PendingAfterRead

\* id 4: the answer to a share. The client cannot tell which share it
\* answers; the model records the outcome against the share the pool meant.
OnShareAnswer ==
  \E s \in Shares, ok \in BOOLEAN :
    /\ Reads(Resp(4, ok, s))
    /\ respTimer' = FALSE /\ m_response_pending' = FALSE
    /\ outcome' = [outcome EXCEPT ![s] = @ \cup
                     {[o |-> IF ok THEN "accepted" ELSE "rejected", stale |-> m_stale]}]
    /\ ReadAgain /\ crashed' = ReadAgainCrash
    /\ UNCHANGED <<ioThread, ioStopped, cb, resolving, connecting, writes, sock, link,
                   workTimer, hashTimer, m_connected, m_linkdown, m_authorized, m_stale,
                   m_requestBuffer, protoVars, poolVars, supVars, nSubs, subStale>>

\* mining.notify (and ethproxy's work results): m_stale is set while a share
\* awaits its answer. EthereumStratum takes every notify; the other dialects
\* only a new header. New work re-arms the work timer and goes to the farm.
OnNotify ==
  \E h \in Headers :
    /\ Reads(Notify(h))
    /\ m_stale' = (m_stale \/ m_response_pending)
    /\ subStale' = [s \in Shares |-> IF s \in Waiting THEN TRUE ELSE subStale[s]]
    /\ IF version = "ethereumstratum" \/ h # m_currentHeader
       THEN /\ workTimer' = TRUE /\ m_currentHeader' = h
            /\ lastWork' = IF version = "ethereumstratum"
                           THEN [hdr |-> h, diff |-> m_nextWorkDifficulty, xn |-> m_extraNonce]
                           ELSE [hdr |-> h, diff |-> 0, xn |-> NoExtraNonce]
       ELSE UNCHANGED <<workTimer, m_currentHeader, lastWork>>
    /\ ReadAgain /\ crashed' = ReadAgainCrash
    /\ UNCHANGED <<ioThread, ioStopped, cb, resolving, connecting, writes, sock, link,
                   respTimer, hashTimer, m_connected, m_linkdown, m_authorized,
                   m_response_pending, m_requestBuffer, m_nextWorkDifficulty,
                   m_extraNonce, poolVars, supVars, nSubs, outcome>>

\* mining.set_difficulty without the 0.0001 floor.
OnSetDifficultyNoFloor ==
  \E d \in Difficulties :
    /\ Reads(SetDiff(d))
    /\ m_nextWorkDifficulty' = d
    /\ ReadAgain /\ crashed' = ReadAgainCrash
    /\ UNCHANGED <<ioThread, ioStopped, cb, resolving, connecting, writes, sock, link,
                   timerVars, m_connected, m_linkdown, m_authorized, m_response_pending,
                   m_stale, m_requestBuffer, m_currentHeader, m_extraNonce, lastWork,
                   poolVars, supVars, shareVars>>

\* mining.set_difficulty and mining.set_extranonce (EthereumStratum): they
\* apply to the next notify. A difficulty at or below 0.0001 becomes 0.0001.
OnSetDifficulty ==
  \E d \in Difficulties :
    /\ Reads(SetDiff(d))
    /\ m_nextWorkDifficulty' = IF d <= 1 THEN 1 ELSE d
    /\ ReadAgain /\ crashed' = ReadAgainCrash
    /\ UNCHANGED <<ioThread, ioStopped, cb, resolving, connecting, writes, sock, link,
                   timerVars, m_connected, m_linkdown, m_authorized, m_response_pending,
                   m_stale, m_requestBuffer, m_currentHeader, m_extraNonce, lastWork,
                   poolVars, supVars, shareVars>>

OnSetExtranonce ==
  \E x \in ExtraNonces :
    /\ Reads(SetXn(x))
    /\ m_extraNonce' = x
    /\ ReadAgain /\ crashed' = ReadAgainCrash
    /\ UNCHANGED <<ioThread, ioStopped, cb, resolving, connecting, writes, sock, link,
                   timerVars, m_connected, m_linkdown, m_authorized, m_response_pending,
                   m_stale, m_requestBuffer, m_currentHeader, m_nextWorkDifficulty,
                   lastWork, poolVars, supVars, shareVars>>

\* client.get_version: the reply goes out with async_write_with_response.
OnGetVersion ==
  /\ Reads(GetVersion)
  /\ m_requestBuffer' = Append(m_requestBuffer, Req(0, 0))
  /\ WriteWithResponse
  /\ ReadAgain /\ crashed' = (NullDeref(TRUE) \/ ReadAgainCrash)
  /\ UNCHANGED <<ioThread, ioStopped, cb, resolving, connecting, sock, link,
                 timerVars, m_connected, m_linkdown, m_authorized, m_response_pending,
                 m_stale, protoVars, poolVars, supVars, shareVars>>

\* work_timeout_handler (610-615) and response_timeout_handler (617-622).
RunWorkTimer == Ready("worktimer") /\ Disconnect(Tail(q), "lost") /\ UNCHANGED m_pending
RunRespTimer == Ready("resptimer") /\ Disconnect(Tail(q), "timeout") /\ UNCHANGED m_pending

\* hashrate_event_handler (591-608): eth_submitHashrate as id 6 unless the
\* link is down; its write handler only logs.
RunHashTimer ==
  /\ Ready("hashtimer")
  /\ IF m_linkdown
     THEN UNCHANGED <<writes, m_requestBuffer, crashed>>
     ELSE /\ m_requestBuffer' = Append(m_requestBuffer, Req(6, 0))
          /\ writes' = IF sock = "open" THEN Append(writes, "hash") ELSE writes
          /\ crashed' = NullDeref(TRUE)
  /\ q' = Tail(q)
  /\ UNCHANGED <<ioThread, ioStopped, cb, resolving, connecting, reading, sock, link,
                 timerVars, m_pending, m_connected, m_linkdown, m_authorized,
                 m_response_pending, m_stale, protoVars, poolVars, supVars, shareVars>>

-----------------------------------------------------------------------------
(* The farm's threads.                                                     *)

\* The model's supervisor makes at most MaxConnects connections; the farm
\* stops with it after the last.
SupervisorDone == connects = MaxConnects /\ ioStopped

\* submitSolution, up to the send (635-665): cancel the response timer,
\* write id 4, take the share's stale flag, send. The farm only holds a
\* solution once it has had work, and stops with the supervisor.
SubmitSolution ==
  /\ farm = "idle" /\ ~crashed /\ ~SupervisorDone
  /\ lastWork # NoWork /\ nSubs < MaxSubmits
  /\ \E stale \in BOOLEAN :
       LET s == nSubs + 1 IN
       /\ m_requestBuffer' = Append(m_requestBuffer, Req(4, s))
       /\ m_stale' = stale
       /\ WriteWithResponse
       /\ crashed' = NullDeref(TRUE)
       /\ respTimer' = FALSE
       /\ subStale' = [subStale EXCEPT ![s] = stale]
       /\ nSubs' = s
  /\ farm' = "arming"
  /\ UNCHANGED <<ioVars, resolving, connecting, reading, sock, link, workTimer,
                 hashTimer, m_pending, m_connected, m_linkdown, m_authorized,
                 m_response_pending, protoVars, poolVars, supVars, outcome>>

\* The rest of submitSolution (667-669), on the same farm thread and with no
\* lock: mark the answer pending and arm the 2 s response timer. The io
\* thread may run any of its handlers between the send and this step.
SubmitArm ==
  /\ farm = "arming" /\ ~crashed
  /\ m_response_pending' = TRUE /\ respTimer' = TRUE
  /\ farm' = "idle"
  /\ UNCHANGED <<ioVars, opVars, sock, link, workTimer, hashTimer, m_pending,
                 m_connected, m_linkdown, m_authorized, m_stale, m_requestBuffer,
                 protoVars, poolVars, supVars, shareVars, crashed>>

\* submitHashrate (624-633): cancel and re-arm the 100 ms debounce timer
\* (the handler of a cancelled armed timer returns at once on
\* operation_aborted and is left out, as for the other timers). The farm
\* reports every few seconds, far apart from the io thread's 100 ms: the
\* model starts a report only when the last one's handler has run and the
\* traffic in flight is under ChanBound, and makes at most MaxReports.
SubmitHashrateCall ==
  /\ ~crashed
  /\ SubmitHashrate /\ ~m_linkdown
  /\ ~hashTimer /\ \A i \in DOMAIN q : q[i].h # "hashtimer"
  /\ InFlight < ChanBound /\ reports < MaxReports /\ reports' = reports + 1
  /\ hashTimer' = TRUE
  /\ UNCHANGED <<ioVars, opVars, sock, link, workTimer, respTimer,
                 sessVars, protoVars, poolVars, supVars, shareVars, crashed>>

-----------------------------------------------------------------------------
\* The constructor (35-50); m_linkdown starts TRUE (no link yet).
Init ==
  /\ conf \in Configs /\ version \in conf.versions /\ reports = 0
  /\ ioThread = "none" /\ ioStopped = FALSE /\ cb = "none" /\ q = <<>>
  /\ resolving = 0 /\ connecting = 0 /\ reading = 0 /\ writes = <<>>
  /\ sock = "null" /\ link = FALSE
  /\ workTimer = FALSE /\ respTimer = FALSE /\ hashTimer = FALSE
  /\ m_pending = 0 /\ m_connected = FALSE /\ m_linkdown = TRUE
  /\ m_authorized = FALSE /\ m_response_pending = FALSE /\ m_stale = FALSE
  /\ m_requestBuffer = <<>>
  /\ m_currentHeader = NoHeader /\ m_nextWorkDifficulty = DiffOne
  /\ m_extraNonce = NoExtraNonce /\ lastWork = NoWork
  /\ toPool = <<>> /\ toClient = <<>> /\ poolSubscribed = FALSE
  /\ supPending = FALSE /\ connects = 0 /\ attempt = "idle"
  /\ farm = "idle" /\ nSubs = 0 /\ subStale = [s \in Shares |-> FALSE]
  /\ outcome = [s \in Shares |-> {}]
  /\ crashed = FALSE

IoHandler ==
  \/ RunResolve \/ RunConnect \/ RunWrite \/ ReadFails
  \/ OnGarbled \/ OnSubscribed \/ OnIgnored \/ OnAuthorized \/ OnShareAnswer \/ OnNotify
  \/ OnSetDifficulty \/ OnSetExtranonce \/ OnGetVersion
  \/ RunWorkTimer \/ RunRespTimer \/ RunHashTimer

\* Every action is disabled once a null socket has been dereferenced; the
\* configuration and the dialect never change.
Next ==
  /\ UNCHANGED <<conf, version>>
  /\ \/ SubmitHashrateCall /\ UNCHANGED farm
     \/ /\ UNCHANGED reports
        /\ \/ SubmitSolution \/ SubmitArm
           \/ /\ UNCHANGED farm
              /\ \/ SupStart \/ ReconnectInCallback \/ CallbackReturns \/ SupReconnect
                 \/ ResolveDone \/ ConnectDone \/ WriteDone \/ ReadDone \/ LinkDrops
                 \/ \E k \in {"worktimer", "resptimer", "hashtimer"} : TimerFires(k)
                 \/ IoThreadExits
                 \/ PoolAnswers \/ PoolPushes
                 \/ IoHandler

\* A step of A, in the client's fixed configuration and dialect, that is not
\* a hashrate call and leaves the submitting thread where it is.
Fixed(A) == A /\ UNCHANGED <<conf, version, reports, farm>>

\* The io thread, the reactor and the supervisor make progress; the pool
\* answers what it receives (possibly by ignoring a share); the response and
\* hashrate timers expire unless cancelled. While the link is up the work
\* timer may keep being re-armed by new work; once the link is down no
\* work can arrive, so an armed work timer expires. The pool may push
\* nothing, the link may hold, and the farm may submit nothing: none of
\* these is fair. A farm thread inside submitSolution finishes it.
Fairness ==
  /\ WF_vars(Fixed(IoHandler)) /\ WF_vars(Fixed(IoThreadExits))
  /\ WF_vars(Fixed(ResolveDone)) /\ WF_vars(Fixed(ConnectDone))
  /\ WF_vars(Fixed(WriteDone)) /\ WF_vars(Fixed(ReadDone))
  /\ WF_vars(Fixed(TimerFires("resptimer")))
  /\ WF_vars(Fixed(TimerFires("hashtimer")))
  /\ WF_vars(Fixed(~link /\ TimerFires("worktimer")))
  /\ WF_vars(Fixed(SupStart)) /\ WF_vars(Fixed(ReconnectInCallback))
  /\ WF_vars(Fixed(CallbackReturns)) /\ WF_vars(Fixed(SupReconnect))
  /\ WF_vars(Fixed(PoolAnswers))
  /\ WF_vars(SubmitArm /\ UNCHANGED <<conf, version, reports>>)

Spec == Init /\ [][Next]_vars /\ Fairness

-----------------------------------------------------------------------------
(* Properties.                                                             *)

\* readline() and readResponse() keep m_pending equal to the reads whose
\* handler has not run yet, and x_pending's check keeps at most one read
\* outstanding (spec 4.2), across failed reads, disconnects and reconnects.
ReadAccounting == m_pending = reading + ReadsQueued /\ m_pending <= 1

\* A write whose handleResponse has not run yet: handleResponse re-arms
\* the read (handleResponse, 344-354).
WriteOutstanding ==
  \/ "resp" \in {writes[i] : i \in 1 .. Len(writes)}
  \/ \E i \in 1 .. Len(q) : q[i].h = "write"

\* The session never goes deaf: while the client counts itself connected
\* and the link is up, a read is outstanding or a pending write's handler
\* will start one. Every exit of readResponse that keeps the connection
\* (a dispatched message, an ignored answer, a discarded or unparsable
\* line) must call readline(), or the pool's answers and notifications
\* are never read and only the work timer ends the session.
Listening == m_connected /\ link => m_pending = 1 \/ WriteOutstanding

\* The reports made for share s: "lost", the model's mark for a share whose
\* connection ended otherwise, is no report.
Reported(s) == {r \in outcome[s] : r.o # "lost"}

\* Spec 8.1, "never both": a share gets at most one of onSolutionAccepted,
\* onSolutionRejected and the response-timeout disconnect.
ShareOutcomeUnique == \A s \in Shares : Cardinality(Reported(s)) <= 1

\* The stale flag passed to onSolutionAccepted/Rejected is the answered
\* share's: its own solution.stale, or new work arrived while it waited.
StaleFlagOfShare ==
  \A s \in Shares : \A r \in outcome[s] :
    r.o \in {"accepted", "rejected"} => r.stale = subStale[s]

\* Spec 8.1, "never neither": every submitted share is eventually answered,
\* timed out by the response timer, or lost with its connection. With two
\* shares outstanding the first answer cancels the single response timer
\* (462-463), so the code fails it; no run checks it.
ShareAnswered == \A s \in Shares : s \in Submitted ~> outcome[s] # {}

\* Spec 4.3: every connect() ends in a connection or in onDisconnected.
ConnectSettles == attempt = "pending" ~> attempt = "done"

\* Spec 4.2 and 4.3: a connection that dies is eventually torn down. A
\* failed write only logs (handleResponse, 346-353) and starts no read, so
\* when no read is outstanding as the link dies, only the work timer armed
\* by connect_handler (273) ends the session.
DeadLinkNoticed == m_connected /\ ~link ~> ~m_connected

\* No handler or farm call dereferences a socket that disconnect() reset.
NoNullSocket == ~crashed

=============================================================================
