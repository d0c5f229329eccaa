---------------------------- MODULE ClientStream ----------------------------
(***************************************************************************)
(* One ICBClient connection of src/tests/integration/icb.py and the calls *)
(* a test scenario makes on it: recv_packet, wait_for, drain_for and    *)
(* login_and_sync, down to the single sock.recv() calls of _recv_exact    *)
(* and their timeouts.                                                    *)
(*                                                                         *)
(* The server is opaque: it may write any frame of Packets at any time    *)
(* and may close its end.  Its writes reach the client's socket buffer in *)
(* order, whole or (if Segmented) in pieces.  Time is kept relative: a    *)
(* sock.recv() has recvLeft units before it times out, a wait_for or      *)
(* drain_for has opLeft units before its deadline; time passes only while *)
(* the client is blocked in a recv() with nothing to read.                *)
(***************************************************************************)
EXTENDS Naturals, Sequences, FrameCodec

CONSTANTS
    Packets,              \* payloads the server may send (non-empty)
    MaxSent,              \* bound on the frames the server sends
    Calls,                \* calls the scenario may make, as records
    MaxCalls,             \* bound on the calls the scenario makes
    Segmented,            \* may a frame reach the client in several pieces
    ServerMayClose        \* may the server close the connection

ASSUME /\ \A p \in Packets : p # <<>> /\ SendFrameOk(p)
       /\ MaxSent \in Nat /\ MaxCalls \in Nat
       /\ \A c \in Calls : c.kind \in {"recv", "wait", "drain", "login"} /\ c.timeout >= 1
       /\ Segmented \in BOOLEAN /\ ServerMayClose \in BOOLEAN

NoCall == [kind |-> "none", pred |-> {}, timeout |-> 0, perRead |-> 0]
NoRaise == [kind |-> "none", err |-> "none", left |-> 0, n |-> 0]

VARIABLES
    sent,       \* frames the server wrote, as payloads, in order (history)
    inflight,   \* frames (or their rest) written but not yet readable
    rbuf,       \* bytes readable on the client socket
    closed,     \* the server closed its end
    call,       \* the call in progress, or NoCall
    phase,      \* "idle" | "top" (loop head) | "len" | "payload" (recv_frame)
    need,       \* bytes the current _recv_exact still wants
    acc,        \* bytes the current _recv_exact has gathered ("out")
    readT,      \* timeout_s of the current recv_packet
    recvLeft,   \* time left before the current sock.recv() times out
    opLeft,     \* time left before the deadline of wait_for / drain_for
    seen,       \* packets the current call has gathered
    ncalls,     \* calls the scenario has made
    status,     \* "running" | "aborted": an exception ended the scenario
    lastRaise,  \* the last exception a call raised, with its opLeft
    decoded,    \* every payload recv_packet decoded, in order (history)
    returned    \* every packet the calls handed back to the scenario

netVars  == <<sent, inflight, rbuf, closed>>
callVars == <<call, phase, need, acc, readT, recvLeft, opLeft, seen>>
vars == <<netVars, callVars, ncalls, status, lastRaise, decoded, returned>>

Init ==
    /\ sent = <<>> /\ inflight = <<>> /\ rbuf = <<>> /\ closed = FALSE
    /\ call = NoCall /\ phase = "idle" /\ need = 0 /\ acc = <<>>
    /\ readT = 0 /\ recvLeft = 0 /\ opLeft = 0 /\ seen = <<>>
    /\ ncalls = 0 /\ status = "running" /\ lastRaise = NoRaise
    /\ decoded = <<>> /\ returned = <<>>

-----------------------------------------------------------------------------
(* The server and the transport. *)

ServerSend(p) ==
    /\ ~closed /\ Len(sent) < MaxSent
    /\ sent' = Append(sent, p)
    /\ inflight' = Append(inflight, EncodeFrame(p))
    /\ UNCHANGED <<rbuf, closed, callVars, ncalls, status, lastRaise, decoded, returned>>

ServerClose ==
    /\ ServerMayClose /\ ~closed
    /\ closed' = TRUE
    /\ UNCHANGED <<sent, inflight, rbuf, callVars, ncalls, status, lastRaise, decoded, returned>>

\* The first k bytes of the oldest frame in flight become readable.
Transmit(k) ==
    /\ inflight # <<>>
    /\ LET f == Head(inflight)
       IN  /\ k \in (IF Segmented THEN 1..Len(f) ELSE {Len(f)})
           /\ rbuf' = rbuf \o SubSeq(f, 1, k)
           /\ inflight' = IF k = Len(f) THEN Tail(inflight)
                          ELSE [inflight EXCEPT ![1] = SubSeq(f, k + 1, Len(f))]
    /\ UNCHANGED <<sent, closed, callVars, ncalls, status, lastRaise, decoded, returned>>

-----------------------------------------------------------------------------
(* Ending a call: every call-local variable back to its idle value. *)

EndCall ==
    /\ call' = NoCall /\ phase' = "idle" /\ need' = 0 /\ acc' = <<>>
    /\ readT' = 0 /\ recvLeft' = 0 /\ opLeft' = 0 /\ seen' = <<>>

\* The call returns r to the scenario.
Return(r) ==
    /\ returned' = returned \o r
    /\ EndCall
    /\ UNCHANGED <<status, lastRaise>>

\* The call raises err; the exception ends the scenario (tests that catch
\* a TimeoutError close the client or re-raise).
Raise(err) ==
    /\ lastRaise' = [kind |-> call.kind, err |-> err, left |-> opLeft, n |-> ncalls]
    /\ status' = "aborted"
    /\ EndCall
    /\ UNCHANGED returned

\* recv_packet(timeout_s = t): recv_frame asks _recv_exact for the length byte.
StartRecvPacket(t) ==
    /\ phase' = "len" /\ need' = 1 /\ acc' = <<>>
    /\ readT' = t /\ recvLeft' = t

\* Back at the head of the wait_for / drain_for loop.
ToLoopHead ==
    /\ phase' = "top" /\ need' = 0 /\ acc' = <<>> /\ readT' = 0 /\ recvLeft' = 0

(***************************************************************************)
(* login_and_sync(io_timeout_s): a recv_packet for the banner, then a     *)
(* wait_for the login ack with the same timeout.  The call in progress    *)
(* becomes that wait_for, marked as login_and_sync's.                     *)
(***************************************************************************)
LoginWait(c) == [c EXCEPT !.kind = "loginwait"]

IsWait == call.kind \in {"wait", "loginwait"}

\* Mutant: the banner's packet type is not checked.
BannerReadUnchecked(pkt) ==
    /\ call' = LoginWait(call) /\ seen' = <<pkt>> /\ ToLoopHead /\ opLeft' = call.timeout
    /\ UNCHANGED <<status, lastRaise, returned>>

(***************************************************************************)
(* The banner has been read: anything but a 'j' packet fails the          *)
(* assertion; else the login is sent (a write the opaque server may       *)
(* answer or not) and wait_for starts its deadline, the banner already in *)
(* the list it extends.                                                   *)
(***************************************************************************)
BannerRead(pkt) ==
    IF PType(pkt) = Ch_j
    THEN /\ call' = LoginWait(call) /\ seen' = <<pkt>> /\ ToLoopHead /\ opLeft' = call.timeout
         /\ UNCHANGED <<status, lastRaise, returned>>
    ELSE Raise("assert")

-----------------------------------------------------------------------------
(* The scenario starts a call. *)

StartCall(c) ==
    /\ call = NoCall /\ status = "running" /\ ncalls < MaxCalls
    /\ call' = c
    /\ ncalls' = ncalls + 1
    /\ IF c.kind \in {"recv", "login"}
       THEN StartRecvPacket(c.timeout) /\ opLeft' = 0
       ELSE ToLoopHead /\ opLeft' = c.timeout      \* deadline = now + timeout_s
    /\ seen' = <<>>
    /\ UNCHANGED <<netVars, status, lastRaise, decoded, returned>>

(***************************************************************************)
(* Head of the loops of wait_for (l. 138-143) and drain_for (l. 148-154): *)
(* while now < deadline, read one packet with a timeout of                *)
(* min(per_read, max(0.01, deadline - now)); after the loop wait_for      *)
(* raises TimeoutError and drain_for returns what it saw.  The 0.01 s     *)
(* floor is one time unit.                                                *)
(***************************************************************************)
\* Mutant: the loop condition reads "now <= deadline".
BeforeDeadlineInclusive == opLeft >= 0

BeforeDeadline == opLeft > 0

ReadTimeout ==
    LET left == IF opLeft > 1 THEN opLeft ELSE 1
    IN  IF call.perRead < left THEN call.perRead ELSE left

LoopHead ==
    /\ phase = "top"
    /\ IF BeforeDeadline
       THEN StartRecvPacket(ReadTimeout)
            /\ UNCHANGED <<call, opLeft, seen, status, lastRaise, returned>>
       ELSE IF IsWait THEN Raise("timeout") ELSE Return(seen)
    /\ UNCHANGED <<netVars, ncalls, decoded>>

-----------------------------------------------------------------------------
(* One sock.recv() of _recv_exact (l. 38-46). *)

InRecv == phase \in {"len", "payload"}
EofReady == closed /\ inflight = <<>>

\* Mutant: "out = chunk" instead of "out += chunk".
MoreBytesNoAccumulate(got, n) ==
    /\ acc' = SubSeq(got, Len(acc) + 1, Len(got)) /\ need' = n /\ recvLeft' = readT
    /\ UNCHANGED <<call, phase, readT, opLeft, seen, status, lastRaise, returned>>

\* _recv_exact still short: the next sock.recv() gets the full timeout again.
MoreBytes(got, n) ==
    /\ acc' = got /\ need' = n /\ recvLeft' = readT
    /\ UNCHANGED <<call, phase, readT, opLeft, seen, status, lastRaise, returned>>

\* Mutant: the payload read one byte short.
LengthReadShort(len) ==
    IF len = 0 THEN Raise("empty")
    ELSE /\ phase' = "payload" /\ need' = len - 1 /\ acc' = <<>> /\ recvLeft' = readT
         /\ UNCHANGED <<call, readT, opLeft, seen, status, lastRaise, returned>>

\* recv_frame has the length byte; a zero length is recv_packet's
\* "empty frame payload" (l. 109-110), else read that many bytes.
LengthRead(len) ==
    IF len = 0 THEN Raise("empty")
    ELSE /\ phase' = "payload" /\ need' = len /\ acc' = <<>> /\ recvLeft' = readT
         /\ UNCHANGED <<call, readT, opLeft, seen, status, lastRaise, returned>>

\* Mutant: wait_for returns only the matching packet.
PacketReadMatchOnly(pkt) ==
    CASE call.kind = "recv" -> Return(<<pkt>>)
      [] call.kind = "login" -> BannerRead(pkt)
      [] IsWait /\ PType(pkt) \in call.pred -> Return(<<pkt>>)
      [] OTHER ->
            /\ seen' = Append(seen, pkt)
            /\ ToLoopHead
            /\ UNCHANGED <<call, opLeft, status, lastRaise, returned>>

\* Mutant: wait_for tests the predicate before appending the packet.
PacketReadTestBeforeAppend(pkt) ==
    CASE call.kind = "recv" -> Return(<<pkt>>)
      [] call.kind = "login" -> BannerRead(pkt)
      [] IsWait /\ PType(pkt) \in call.pred -> Return(seen)
      [] OTHER ->
            /\ seen' = Append(seen, pkt)
            /\ ToLoopHead
            /\ UNCHANGED <<call, opLeft, status, lastRaise, returned>>

\* recv_packet returns pkt to the call that asked for it.
PacketRead(pkt) ==
    CASE call.kind = "recv" -> Return(<<pkt>>)
      [] call.kind = "login" -> BannerRead(pkt)
      [] IsWait /\ PType(pkt) \in call.pred -> Return(Append(seen, pkt))
      [] OTHER ->
            /\ seen' = Append(seen, pkt)
            /\ ToLoopHead
            /\ UNCHANGED <<call, opLeft, status, lastRaise, returned>>

RecvData ==
    /\ InRecv /\ rbuf # <<>>
    /\ LET k   == IF need < Len(rbuf) THEN need ELSE Len(rbuf)
           got == acc \o SubSeq(rbuf, 1, k)
       IN  /\ rbuf' = SubSeq(rbuf, k + 1, Len(rbuf))
           /\ IF k < need THEN MoreBytes(got, need - k) /\ UNCHANGED decoded
              ELSE IF phase = "len" THEN LengthRead(got[1]) /\ UNCHANGED decoded
              ELSE decoded' = Append(decoded, got) /\ PacketRead(got)
    /\ UNCHANGED <<sent, inflight, closed, ncalls>>

\* Nothing came within the recv() timeout: socket.timeout.  drain_for
\* swallows it and loops; the bytes _recv_exact had gathered are dropped.
RecvTimeout ==
    /\ InRecv /\ rbuf = <<>> /\ ~EofReady /\ recvLeft = 0
    /\ IF call.kind = "drain"
       THEN ToLoopHead /\ UNCHANGED <<call, opLeft, seen, status, lastRaise, returned>>
       ELSE Raise("timeout")
    /\ UNCHANGED <<netVars, ncalls, decoded>>

\* recv() returned b"": "socket closed while reading" (l. 43-44).
RecvEof ==
    /\ InRecv /\ rbuf = <<>> /\ EofReady
    /\ Raise("closed")
    /\ UNCHANGED <<netVars, ncalls, decoded>>

\* Time passes while the client is blocked in a recv() with nothing to read.
Tick ==
    /\ InRecv /\ rbuf = <<>> /\ ~EofReady /\ recvLeft > 0
    /\ recvLeft' = recvLeft - 1
    /\ opLeft' = IF opLeft > 0 THEN opLeft - 1 ELSE 0
    /\ UNCHANGED <<netVars, call, phase, need, acc, readT, seen,
                   ncalls, status, lastRaise, decoded, returned>>

-----------------------------------------------------------------------------
ClientStep == LoopHead \/ RecvData \/ RecvTimeout \/ RecvEof

Next ==
    \/ \E p \in Packets : ServerSend(p)
    \/ ServerClose
    \/ \E k \in 1..(MaxFramePayload + 1) : Transmit(k)
    \/ \E c \in Calls : StartCall(c)
    \/ ClientStep
    \/ Tick

(***************************************************************************)
(* The harness is one thread that runs each call to its end; the clock    *)
(* runs; the OS delivers what the server wrote.  The server itself and    *)
(* the scenario's choice to make another call get no fairness.            *)
(***************************************************************************)
Fairness ==
    /\ WF_vars(ClientStep)
    /\ WF_vars(Tick)
    /\ WF_vars(\E k \in 1..(MaxFramePayload + 1) : Transmit(k))

Spec == Init /\ [][Next]_vars /\ Fairness
=============================================================================
