------------------------------- MODULE Capture -------------------------------
(***************************************************************************)
(* Runtime capture: the host process reports its compilations through a    *)
(* Client (capture.cpp), the server's Session (session.cpp) counts them,   *)
(* and the hlsl/capture requests (server.cpp) start, stop, show and        *)
(* preview the session under capture_mutex_.                               *)
(*                                                                         *)
(* A session is a number, its endpoint and its token alike: both are       *)
(* random and new at each start; 0 is "none".  A host may pair the         *)
(* endpoint of one session with the token of another.  Both transports are *)
(* covered at once: a connection waits in the backlog of the socket, or    *)
(* for the pipe; a peer that gave up may still be read (a socket) or not   *)
(* (a pipe); and the pipe may fail to be made again, which ends the worker *)
(* (Windows only).                                                         *)
(***************************************************************************)
EXTENDS Naturals, Integers, Sequences, FiniteSets, Functions

CONSTANTS
    Invocation,     \* what is reported: the distinct compilations
    MaxSessions,    \* bound: the times a session starts
    MaxReports,     \* bound: the reports that are queued
    EntryLimit,     \* distinct entries a session retains (256)
    PendingLimit,   \* frames the client queues (64)
    Backlog         \* connections that wait to be accepted (8)

ASSUME CaptureAssumption ==
    /\ IsFiniteSet(Invocation)
    /\ {MaxSessions, MaxReports, EntryLimit, PendingLimit, Backlog} \subseteq Nat \ {0}

Session == 1..MaxSessions
NoSession == 0
Frame == [token: Session, event: Invocation]

VARIABLES
    up,         \* the server is not shut down
    handler,    \* the request that holds capture_mutex_
    running,    \* Session::State::running
    secret,     \* Session::State::secret
    issued,     \* the sessions started so far
    listener,   \* the endpoint that is listened on
    backlog,    \* the frames of connections not yet accepted
    entries,    \* Session::State::entries, the count of each invocation
    accepted, rejected, overflow,
    worker,     \* where the session's worker is
    peer,       \* the frame of the connection it serves
    shown,      \* the editor's last snapshot
    merged,     \* the last preview that was answered
    control,    \* where the host's connect or disconnect is
    enabled, stopping, pending, endpoint, token,  \* Client::State
    sender,     \* where the client's worker is
    frame,      \* what it transmits
    reporter,   \* a host thread inside report
    queued,     \* reports queued so far
    reported,   \* those of this session, by invocation
    due         \* reports queued less those transmitted, by endpoint and token

serverVars == <<up, handler, issued>>
countVars == <<entries, accepted, rejected, overflow>>
editorVars == <<shown, merged>>
sessionVars == <<running, secret, listener, backlog, worker, peer>>
clientVars == <<control, enabled, stopping, pending, endpoint, token, sender, frame, reporter>>
ghostVars == <<queued, reported, due>>
vars == <<serverVars, countVars, editorVars, sessionVars, clientVars, ghostVars>>

NoCounts == [event \in Invocation |-> 0]
NothingDue == [pair \in Session \X Session |-> 0]
Retained == {event \in Invocation : entries[event] > 0}

TypeOK ==
    /\ up \in BOOLEAN /\ handler \in {"none", "start", "stop", "shutdown", "open"}
    /\ running \in BOOLEAN /\ enabled \in BOOLEAN /\ stopping \in BOOLEAN
    /\ {secret, issued, listener, endpoint, token} \subseteq Session \cup {NoSession}
    /\ backlog \in Seq(Frame) /\ Len(backlog) <= Backlog
    /\ entries \in [Invocation -> 0..MaxReports] /\ Cardinality(Retained) <= EntryLimit
    /\ {accepted, rejected, overflow, queued} \subseteq 0..MaxReports
    /\ worker \in {"none", "loop", "poll", "peer", "reply", "ended"}
    /\ peer \in {<<>>} \cup Frame /\ frame \in {<<>>} \cup Frame
    /\ shown \in [session: Session \cup {NoSession}, events: SUBSET Invocation]
    /\ merged \in [shownIn: Session \cup {NoSession}, of: Session \cup {NoSession}]
    /\ control \in {"off", "on", "disabled", "join"}
    /\ pending \in Seq(Frame) /\ Len(pending) <= PendingLimit
    /\ sender \in {"none", "wait", "send", "await", "ended"}
    /\ reporter \in {"idle", "checked"}
    /\ reported \in [Invocation -> 0..MaxReports]
    /\ due \in [Session \X Session -> Int]

Init ==
    /\ up = TRUE /\ handler = "none" /\ issued = 0
    /\ running = FALSE /\ secret = NoSession /\ listener = NoSession /\ backlog = <<>>
    /\ entries = NoCounts /\ accepted = 0 /\ rejected = 0 /\ overflow = 0
    /\ worker = "none" /\ peer = <<>>
    /\ shown = [session |-> NoSession, events |-> {}]
    /\ merged = [shownIn |-> NoSession, of |-> NoSession]
    /\ control = "off" /\ enabled = FALSE /\ stopping = FALSE /\ pending = <<>>
    /\ endpoint = NoSession /\ token = NoSession
    /\ sender = "none" /\ frame = <<>> /\ reporter = "idle"
    /\ queued = 0 /\ reported = NoCounts /\ due = NothingDue

------------------------------------------------------------------------------
(* The requests, each from its lock of capture_mutex_ to its return.        *)

\* Session::stop, up to the join of the worker; Session::start begins with it.
BeginStop(request) ==
    /\ up /\ handler = "none"
    /\ handler' = request /\ running' = FALSE
    /\ UNCHANGED <<up, issued, countVars, editorVars, secret, listener, backlog, worker, peer,
                   clientVars, ghostVars>>

RequestStart == issued < MaxSessions /\ BeginStop("start")

\* Any token ever issued may be sent; a stale one is refused.
RequestStop == \E sent \in 1..issued : sent = secret /\ BeginStop("stop")

RequestShutdown == BeginStop("shutdown")

\* The rest of Session::stop, once the worker has ended: the listener is
\* closed, which resets what waited in its backlog, and the state is erased.
FinishStop ==
    /\ handler \in {"start", "stop", "shutdown"} /\ worker \in {"none", "ended"}
    /\ worker' = "none" /\ listener' = NoSession /\ backlog' = <<>>
    /\ secret' = NoSession
    /\ entries' = NoCounts /\ accepted' = 0 /\ rejected' = 0 /\ overflow' = 0
    /\ handler' = IF handler = "start" THEN "open" ELSE "none"
    /\ up' = (up /\ handler # "shutdown")
    /\ reported' = NoCounts
    /\ UNCHANGED <<issued, running, peer, editorVars, clientVars, queued, due>>

\* The rest of Session::start: a new endpoint and token, and the worker.
OpenSession ==
    /\ handler = "open" /\ handler' = "none"
    /\ issued' = issued + 1
    /\ secret' = issued' /\ listener' = issued'
    /\ running' = TRUE /\ worker' = "loop"
    /\ UNCHANGED <<up, countVars, editorVars, backlog, peer, clientVars, ghostVars>>

\* No private runtime directory, or the endpoint cannot be made.
OpenFails ==
    /\ handler = "open" /\ handler' = "none"
    /\ UNCHANGED <<up, issued, countVars, editorVars, sessionVars, clientVars, ghostVars>>

\* The identifier of a session is null when it is not active; the snapshot of
\* entries without one is not answered.
Identifier == IF running THEN secret ELSE NoSession
SnapshotThrows == Identifier = NoSession /\ Retained # {}

Snapshot ==
    /\ up /\ handler = "none" /\ ~SnapshotThrows
    /\ shown' = [session |-> Identifier, events |-> Retained]
    /\ UNCHANGED <<serverVars, countVars, merged, sessionVars, clientVars, ghostVars>>

\* capture_preview: the session the editor names is the active one, and what
\* it selects is retained by it (identifiers are hashed with the session's).
\* Fault: any active session will do.
SessionIsActive(session) == running
SessionIsCurrent(session) == running /\ session = secret

Preview ==
    /\ up /\ handler = "none"
    /\ SessionIsCurrent(shown.session)
    /\ \E selected \in SUBSET shown.events : selected # {} /\ selected \subseteq Retained
    /\ merged' = [shownIn |-> shown.session, of |-> secret]
    /\ UNCHANGED <<serverVars, countVars, shown, sessionVars, clientVars, ghostVars>>

------------------------------------------------------------------------------
(* The session's worker thread.                                             *)

WorkerUnchanged == UNCHANGED <<serverVars, editorVars, secret, clientVars, ghostVars>>

Loop ==
    /\ worker = "loop"
    /\ worker' = IF running THEN "poll" ELSE "ended"
    /\ WorkerUnchanged /\ UNCHANGED <<countVars, running, listener, backlog, peer>>

\* A tenth of a second without a connection, or a peer that is already gone.
PollTimesOut ==
    /\ worker = "poll" /\ worker' = "loop"
    /\ \/ UNCHANGED backlog
       \/ backlog # <<>> /\ backlog' = Tail(backlog)
    /\ WorkerUnchanged /\ UNCHANGED <<countVars, running, listener, peer>>

Accept ==
    /\ worker = "poll" /\ backlog # <<>>
    /\ worker' = "peer" /\ peer' = Head(backlog) /\ backlog' = Tail(backlog)
    /\ WorkerUnchanged /\ UNCHANGED <<countVars, running, listener>>

\* Fault: the token is not compared.
AnyToken(supplied) == supplied # NoSession
SameToken(supplied) == supplied = secret

\* Fault: a full table takes one more.
FitsLoosely(event) == entries[event] > 0 \/ Cardinality(Retained) <= EntryLimit
Fits(event) == entries[event] > 0 \/ Cardinality(Retained) < EntryLimit

\* Fault: an invocation that does not fit is not counted.
CountRetained(event) ==
    entries' = (IF Fits(event) THEN [entries EXCEPT ![event] = @ + 1] ELSE entries)
    /\ UNCHANGED overflow
Count(event) ==
    IF Fits(event) THEN entries' = [entries EXCEPT ![event] = @ + 1] /\ UNCHANGED overflow
    ELSE overflow' = overflow + 1 /\ UNCHANGED entries

\* The frame is read, or not within a quarter of a second; what was read is
\* validated and counted under the mutex.
Receive ==
    /\ worker = "peer" /\ worker' = "reply" /\ peer' = <<>>
    /\ \E received \in BOOLEAN :
          IF received /\ SameToken(peer.token)
          THEN accepted' = accepted + 1 /\ Count(peer.event) /\ UNCHANGED rejected
          ELSE rejected' = rejected + 1 /\ UNCHANGED <<accepted, entries, overflow>>
    /\ WorkerUnchanged /\ UNCHANGED <<running, listener, backlog>>

\* The reply is sent and the connection closed.
Reply ==
    /\ worker = "reply" /\ worker' = "loop"
    /\ WorkerUnchanged /\ UNCHANGED <<countVars, running, listener, backlog, peer>>

\* Windows: the pipe cannot be connected or made again, and the worker ends.
PipeFails ==
    /\ worker = "poll" \/ (worker = "reply" /\ running)
    /\ worker' = "ended" /\ running' = FALSE /\ listener' = NoSession /\ backlog' = <<>>
    /\ WorkerUnchanged /\ UNCHANGED <<countVars, peer>>

------------------------------------------------------------------------------
(* The host: one thread connects and disconnects, others report, and the    *)
(* client's worker transmits.                                               *)

HostUnchanged == UNCHANGED <<serverVars, countVars, editorVars, running, secret, listener,
                             worker, peer>>

\* What is left of Client::connect once its own disconnect is done.
Connect ==
    /\ control = "off" /\ sender = "none"
    /\ \E to, with \in 1..issued : endpoint' = to /\ token' = with
    /\ stopping' = FALSE /\ enabled' = TRUE
    /\ sender' = "wait" /\ control' = "on"
    /\ HostUnchanged /\ UNCHANGED <<backlog, pending, frame, reporter, ghostVars>>

Disable ==
    /\ control = "on" /\ control' = "disabled" /\ enabled' = FALSE
    /\ HostUnchanged
    /\ UNCHANGED <<backlog, stopping, pending, endpoint, token, sender, frame, reporter, ghostVars>>

StopSending ==
    /\ control = "disabled" /\ control' = "join" /\ stopping' = TRUE
    /\ HostUnchanged
    /\ UNCHANGED <<backlog, enabled, pending, endpoint, token, sender, frame, reporter, ghostVars>>

JoinSender ==
    /\ control = "join" /\ sender = "ended"
    /\ control' = "off" /\ sender' = "none"
    /\ endpoint' = NoSession /\ token' = NoSession
    /\ HostUnchanged
    /\ UNCHANGED <<backlog, enabled, stopping, pending, frame, reporter, ghostVars>>

\* Client::report: the flag, and the rest if the lock is free.
BeginReport ==
    /\ reporter = "idle" /\ enabled /\ reporter' = "checked"
    /\ HostUnchanged
    /\ UNCHANGED <<backlog, control, enabled, stopping, pending, endpoint, token, sender, frame,
                   ghostVars>>

Admits == enabled /\ Len(pending) < PendingLimit

Report ==
    /\ reporter = "checked" /\ reporter' = "idle"
    /\ \/ /\ Admits /\ queued < MaxReports
          /\ \E event \in Invocation :
                /\ pending' = Append(pending, [token |-> token, event |-> event])
                /\ reported' = IF token = secret THEN [reported EXCEPT ![event] = @ + 1]
                                                 ELSE reported
          /\ queued' = queued + 1
          /\ due' = [due EXCEPT ![<<endpoint, token>>] = @ + 1]
       \/ UNCHANGED <<pending, ghostVars>>
    /\ HostUnchanged
    /\ UNCHANGED <<backlog, control, enabled, stopping, endpoint, token, sender, frame>>

\* Fault: a worker that is told to stop leaves at once.
EndsAtOnce == stopping
Ends == stopping /\ pending = <<>>

\* Fault: only a report wakes the worker.
WokenByReport == pending # <<>>
Woken == stopping \/ pending # <<>>

Take ==
    /\ sender = "wait" /\ Woken
    /\ IF Ends
       THEN sender' = "ended" /\ UNCHANGED <<pending, frame>>
       ELSE sender' = "send" /\ frame' = Head(pending) /\ pending' = Tail(pending)
    /\ HostUnchanged
    /\ UNCHANGED <<backlog, control, enabled, stopping, endpoint, token, reporter, ghostVars>>

Transmitted == due' = [due EXCEPT ![<<endpoint, frame.token>>] = @ - 1]

\* The whole frame is written to a connection that waits to be served.
Transmit ==
    /\ sender = "send" /\ listener = endpoint /\ Len(backlog) < Backlog
    /\ sender' = "await" /\ backlog' = Append(backlog, frame) /\ frame' = <<>>
    /\ Transmitted
    /\ HostUnchanged
    /\ UNCHANGED <<control, enabled, stopping, pending, endpoint, token, reporter, queued, reported>>

\* No endpoint, a busy pipe, a full backlog, or a write that times out: the
\* report is dropped and not tried again.
TransmitFails ==
    /\ sender = "send" /\ sender' = "wait" /\ frame' = <<>>
    /\ Transmitted
    /\ HostUnchanged
    /\ UNCHANGED <<backlog, control, enabled, stopping, pending, endpoint, token, reporter,
                   queued, reported>>

\* The reply is read, or not in time; either way the connection is closed and
\* what it wrote may still be read by the session.
EndAwait ==
    /\ sender = "await" /\ sender' = "wait"
    /\ HostUnchanged
    /\ UNCHANGED <<backlog, control, enabled, stopping, pending, endpoint, token, frame, reporter,
                   ghostVars>>

\* The host process ends without disconnecting, and another starts.
HostDies ==
    /\ control # "off"
    /\ control' = "off" /\ enabled' = FALSE /\ stopping' = FALSE /\ pending' = <<>>
    /\ endpoint' = NoSession /\ token' = NoSession /\ sender' = "none" /\ frame' = <<>>
    /\ reporter' = "idle" /\ due' = NothingDue
    /\ HostUnchanged /\ UNCHANGED <<backlog, queued, reported>>

------------------------------------------------------------------------------
Editor == RequestStart \/ RequestStop \/ RequestShutdown \/ Snapshot \/ Preview
Server == FinishStop \/ OpenSession \/ OpenFails
SessionWorker == Loop \/ PollTimesOut \/ Accept \/ Receive \/ Reply \/ PipeFails
Host == Connect \/ Disable \/ BeginReport \/ Report \/ HostDies
Disconnect == StopSending \/ JoinSender
ClientWorker == Take \/ Transmit \/ TransmitFails \/ EndAwait

Next == Editor \/ Server \/ SessionWorker \/ Host \/ Disconnect \/ ClientWorker

(* The threads run; the editor and the host do as they like.                *)
Spec == Init /\ [][Next]_vars
        /\ WF_vars(Server) /\ WF_vars(SessionWorker)
        /\ WF_vars(Disconnect) /\ WF_vars(ClientWorker)

------------------------------------------------------------------------------
(* The counters of a session tell one story: every accepted report is an    *)
(* occurrence of a retained entry or an overflow, and nothing overflows     *)
(* while there is room (Session::start's worker).                           *)
CountsAddUp ==
    /\ accepted = SumFunction(entries) + overflow
    /\ overflow > 0 => Cardinality(Retained) = EntryLimit

(* What a session counts was reported to it, with its own token, and no     *)
(* more often than report() said it was queued: a connection that timed out *)
(* and was read late is counted once, an older session's events and a       *)
(* wrong token's never (same_token, transmit, Session::stop).               *)
CountedWereReported ==
    /\ \A event \in Invocation : entries[event] <= reported[event]
    /\ accepted <= SumFunction(reported)

(* disconnect() drains: when it has returned nothing is queued, and every   *)
(* report that report() queued, also one that raced with disconnect(), was  *)
(* handed to the endpoint, with the token, that the client was connected    *)
(* to (Client::disconnect, docs/runtime-capture.md:65).                     *)
QueuedReportsAreSent ==
    control = "off" => pending = <<>> /\ due = NothingDue

(* A preview merges entries of the session they were shown in: while that   *)
(* session is active all that was shown is still retained, and after it no  *)
(* preview of it is answered (capture_session, capture_preview).            *)
PreviewsAreOfShownEntries ==
    /\ running /\ shown.session = secret => shown.events \subseteq Retained
    /\ merged.shownIn = merged.of

(* A request that stops the session, and the host's disconnect(), return:   *)
(* the threads they join end, whatever the peer does (Session::stop,        *)
(* Client::disconnect).                                                     *)
JoinsReturn ==
    /\ handler # "none" ~> handler = "none"
    /\ control = "join" ~> control # "join"

(* What a session counts is true: the counters add up, and to no more than  *)
(* was reported to it (Session::start's worker, same_token).                *)
CountsAreTrue == TypeOK /\ CountsAddUp /\ CountedWereReported

=============================================================================
