--------------------------- MODULE MCClientStream ---------------------------
(***************************************************************************)
(* Model-checking instance of ClientStream.  Packets are three payloads   *)
(* as the server frames them: the protocol banner "j\0", a login ack      *)
(* "a\0" and an open message "bx\0".  Calls are the ones the integration  *)
(* tests make: recv_packet for the banner, wait_for the login ack, a      *)
(* drain_for, and login_and_sync, which reads the banner and waits for    *)
(* the ack with the same io timeout.  One time unit is about 0.1 s: drain_for reads with 1 unit, *)
(* wait_for with 2 (0.25 s), within deadlines of 2 and 3 units.           *)
(***************************************************************************)
EXTENDS ClientStream

Banner   == <<106, NUL>>
LoginOk  == <<Ch_a, NUL>>
OpenMsg  == <<Ch_b, 120, NUL>>

MCPackets == {Banner, LoginOk, OpenMsg}

RecvCall  == [kind |-> "recv",  pred |-> {},     timeout |-> 2, perRead |-> 0]
WaitLogin == [kind |-> "wait",  pred |-> {Ch_a}, timeout |-> 3, perRead |-> 2]
DrainCall == [kind |-> "drain", pred |-> {},     timeout |-> 2, perRead |-> 1]

LoginSync == [kind |-> "login", pred |-> {Ch_a}, timeout |-> 3, perRead |-> 2]

AllCalls     == {RecvCall, WaitLogin, DrainCall, LoginSync}
NoDrainCalls == {RecvCall, WaitLogin}
WaitOnly     == {WaitLogin}

(***************************************************************************)
(* The packets recv_packet decodes are exactly the packets the server     *)
(* sent, whole and in order (PacketChannel, with delivered = decoded).    *)
(* This is what _recv_exact's accumulation and recv_frame's length-then-  *)
(* payload reads must achieve over a stream that hands bytes over in any  *)
(* pieces and at any time relative to the timeouts.                       *)
(***************************************************************************)
Chan == INSTANCE PacketChannel WITH delivered <- decoded

ChannelSpec == Chan!Spec

(***************************************************************************)
(* While the scenario runs, the calls have handed it back every packet    *)
(* the client decoded, none held back or dropped: wait_for returns all it *)
(* read up to the match, drain_for all it read in its window.             *)
(***************************************************************************)
NothingDropped ==
    (status = "running" /\ call = NoCall) => returned = decoded

(***************************************************************************)
(* wait_for returns at the first packet that satisfies its predicate: the *)
(* packets it hands back end with a match and hold no earlier match.      *)
(***************************************************************************)
WaitReturnsAtFirstMatch ==
    [][ (call.kind = "wait" /\ call' = NoCall /\ lastRaise' = lastRaise) =>
          LET r == SubSeq(returned', Len(returned) + 1, Len(returned'))
          IN  /\ r # <<>>
              /\ PType(r[Len(r)]) \in call.pred
              /\ \A i \in 1..(Len(r) - 1) : PType(r[i]) \notin call.pred ]_vars

(***************************************************************************)
(* login_and_sync hands back the whole handshake: when it returns, the    *)
(* packets it gives the scenario start with the protocol banner 'j' it    *)
(* asserted, end with the login ack 'a', and hold no earlier ack.  The    *)
(* banner is read by one recv_packet, the rest by the wait_for whose list *)
(* extends it.                                                            *)
(***************************************************************************)
LoginReturnsHandshake ==
    [][ (call.kind = "loginwait" /\ call' = NoCall /\ lastRaise' = lastRaise) =>
          LET r == SubSeq(returned', Len(returned) + 1, Len(returned'))
          IN  /\ Len(r) >= 2
              /\ PType(r[1]) = Ch_j /\ PType(r[Len(r)]) = Ch_a
              /\ \A i \in 2..(Len(r) - 1) : PType(r[i]) # Ch_a ]_vars

(***************************************************************************)
(* Every call returns or raises: no call of the harness blocks forever    *)
(* (spec.md 5, "no unbounded blocking call exists").                      *)
(***************************************************************************)
CallsReturn == (call # NoCall) ~> (call = NoCall)

(***************************************************************************)
(* spec.md 4.4: wait_for fails with Timeout when the deadline elapses     *)
(* with no match, each read bounded by min(per-read, remaining).  In the  *)
(* code a read that times out raises out of wait_for at once, so a        *)
(* wait_for raises TimeoutError only once its deadline has passed fails   *)
(* as soon as the server is silent for one per-read timeout.              *)
(***************************************************************************)
WaitTimesOutOnlyAtDeadline ==
    (lastRaise.kind = "wait" /\ lastRaise.err = "timeout") => lastRaise.left = 0
=============================================================================
