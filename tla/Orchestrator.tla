---------------------------- MODULE Orchestrator ----------------------------
(***************************************************************************)
(* with_server, ensure_test_pem, start_server, wait_for_connect and       *)
(* ServerRun.stop of src/tests/integration/icb.py, with the icbd process  *)
(* they start and another process of the host that binds ports too.       *)
(*                                                                         *)
(* The harness is one sequential program (hpc is its program counter).   *)
(* icbd is opaque: once launched it binds each port it was given, in any *)
(* order, and exits if a bind fails; it may exit on its own, and on       *)
(* SIGTERM it exits or not.  find_free_port binds port 0 and releases the *)
(* port at once, so what it returns is only free at that instant.        *)
(***************************************************************************)
EXTENDS Naturals, FiniteSets

CONSTANTS
    Ports,             \* the host's ephemeral ports
    NoPort,            \* "no ssl_port" (None)
    EnableTls,         \* with_server(enable_tls=...)
    PemInFixtures,     \* may the fixture set already hold icbd.pem
    OpensslAvailable,  \* shutil.which("openssl") finds it
    ProbeAttempts,     \* connection attempts that fit in startup_timeout_s
    MaxStops,          \* how often the scenario calls stop()
    OtherBinder,       \* may another process bind ephemeral ports
    ServerMayCrash     \* may icbd exit on its own

ASSUME /\ NoPort \notin Ports
       /\ ProbeAttempts \in Nat \ {0} /\ MaxStops \in Nat \ {0}

Owners == {"none", "server", "other"}

VARIABLES
    hpc,        \* the harness's program counter
    clearPort,  \* clear_port
    sslPort,    \* ssl_port, or NoPort
    pem,        \* icbd.pem exists in run_dir
    proc,       \* the icbd process: "none" | "up" | "exited"
    termSent,   \* stop() has sent SIGTERM
    owner,      \* which process has each port bound
    listening,  \* icbd's listeners that are bound: "clear", "ssl"
    probeLeft,  \* attempts left to the current wait_for_connect
    stops       \* calls of stop() made

vars == <<hpc, clearPort, sslPort, pem, proc, termSent, owner, listening,
         probeLeft, stops>>

\* The listeners icbd is given on its command line (-p, and -s if TLS).
Listeners == {"clear"} \cup (IF sslPort = NoPort THEN {} ELSE {"ssl"})

PortOf(l) == IF l = "clear" THEN clearPort ELSE sslPort

\* What the process's exit does to the ports it held.
Released == [p \in Ports |-> IF owner[p] = "server" THEN "none" ELSE owner[p]]

Init ==
    /\ hpc = "alloc_clear"
    /\ clearPort = NoPort /\ sslPort = NoPort
    /\ pem \in (IF PemInFixtures THEN BOOLEAN ELSE {FALSE})
    /\ proc = "none" /\ termSent = FALSE
    /\ owner = [p \in Ports |-> "none"] /\ listening = {}
    /\ probeLeft = 0 /\ stops = 0

-----------------------------------------------------------------------------
(* with_server *)

(***************************************************************************)
(* find_free_port: bind(("127.0.0.1", 0)) gets a port nobody has bound,   *)
(* and the port is released again on return; with every port taken the    *)
(* bind raises OSError out of with_server.                                *)
(***************************************************************************)
FindFreePort(next) ==
    \/ \E p \in Ports :
          /\ owner[p] = "none"
          /\ IF hpc = "alloc_clear" THEN clearPort' = p /\ UNCHANGED sslPort
                                    ELSE sslPort' = p /\ UNCHANGED clearPort
          /\ hpc' = next
    \/ /\ \A p \in Ports : owner[p] # "none"
       /\ hpc' = "failed" /\ UNCHANGED <<clearPort, sslPort>>

AllocClear ==
    /\ hpc = "alloc_clear"
    /\ FindFreePort(IF EnableTls THEN "alloc_ssl" ELSE "stage")
    /\ UNCHANGED <<pem, proc, termSent, owner, listening, probeLeft, stops>>

AllocSsl ==
    /\ hpc = "alloc_ssl"
    /\ FindFreePort("stage")
    /\ UNCHANGED <<pem, proc, termSent, owner, listening, probeLeft, stops>>

(***************************************************************************)
(* copy_fixtures, then ensure_test_pem if TLS: keep a staged icbd.pem,    *)
(* else raise without openssl, else run it (check=True: a failing run     *)
(* raises CalledProcessError).  An exception leaves with_server: "failed".*)
(***************************************************************************)
StageRunDir ==
    /\ hpc = "stage"
    /\ IF ~EnableTls \/ pem
       THEN hpc' = "launch" /\ UNCHANGED pem
       ELSE IF ~OpensslAvailable
       THEN hpc' = "failed" /\ UNCHANGED pem
       ELSE \/ pem' = TRUE /\ hpc' = "launch"
            \/ hpc' = "failed" /\ UNCHANGED pem
    /\ UNCHANGED <<clearPort, sslPort, proc, termSent, owner, listening, probeLeft, stops>>

\* start_server: Popen(icbd -f -p clear [-sSSL]).
Launch ==
    /\ hpc = "launch"
    /\ proc' = "up"
    /\ hpc' = "probe_clear" /\ probeLeft' = ProbeAttempts
    /\ UNCHANGED <<clearPort, sslPort, pem, termSent, owner, listening, stops>>

(***************************************************************************)
(* wait_for_connect(port): until the deadline, try create_connection; on  *)
(* OSError sleep and retry; past the deadline raise RuntimeError.  A      *)
(* connection succeeds when any process listens on the port.  The probe   *)
(* of the TLS port follows the clear one, then the 0.10 s settle sleep    *)
(* and with_server returns the ServerRun.                                  *)
(***************************************************************************)
AfterProbe(p) ==
    IF p = clearPort /\ hpc = "probe_clear" /\ sslPort # NoPort
    THEN hpc' = "probe_ssl" /\ probeLeft' = ProbeAttempts
    ELSE hpc' = "ready" /\ probeLeft' = 0

\* Mutant: no deadline, retry until something listens.
ProbeForever ==
    /\ hpc \in {"probe_clear", "probe_ssl"}
    /\ LET p == IF hpc = "probe_clear" THEN clearPort ELSE sslPort
       IN  \/ owner[p] # "none" /\ AfterProbe(p)
           \/ owner[p] = "none" /\ UNCHANGED <<hpc, probeLeft>>
    /\ UNCHANGED <<clearPort, sslPort, pem, proc, termSent, owner, listening, stops>>

Probe ==
    /\ hpc \in {"probe_clear", "probe_ssl"}
    /\ LET p == IF hpc = "probe_clear" THEN clearPort ELSE sslPort
       IN  \/ probeLeft > 0 /\ owner[p] # "none" /\ AfterProbe(p)
           \/ probeLeft > 0 /\ owner[p] = "none"
              /\ probeLeft' = probeLeft - 1 /\ UNCHANGED hpc
           \/ probeLeft = 0 /\ hpc' = "failed" /\ UNCHANGED probeLeft
    /\ UNCHANGED <<clearPort, sslPort, pem, proc, termSent, owner, listening, stops>>

-----------------------------------------------------------------------------
(* ServerRun.stop, called from the scenario's finally (and maybe again). *)

\* poll(): already exited -> return; else terminate() and wait(2.0).
StopPoll ==
    /\ hpc \in {"ready", "stopped"} /\ stops < MaxStops
    /\ stops' = stops + 1
    /\ IF proc # "up"
       THEN hpc' = "stopped" /\ UNCHANGED termSent
       ELSE hpc' = "stop_wait" /\ termSent' = TRUE
    /\ UNCHANGED <<clearPort, sslPort, pem, proc, owner, listening, probeLeft>>

\* wait(2.0) returns: the process has exited.
StopWaited ==
    /\ hpc = "stop_wait" /\ proc = "exited"
    /\ hpc' = "stopped"
    /\ UNCHANGED <<clearPort, sslPort, pem, proc, termSent, owner, listening, probeLeft, stops>>

\* Mutant: stop() gives up after the first wait times out, no kill().
StopKillMissing ==
    /\ hpc = "stop_wait" /\ proc = "up"
    /\ hpc' = "stopped"
    /\ UNCHANGED <<clearPort, sslPort, pem, proc, termSent, owner, listening, probeLeft, stops>>

\* wait(2.0) timed out: kill() and wait(2.0) again; SIGKILL ends it.
StopKill ==
    /\ hpc = "stop_wait" /\ proc = "up"
    /\ proc' = "exited" /\ owner' = Released /\ listening' = {}
    /\ hpc' = "stopped"
    /\ UNCHANGED <<clearPort, sslPort, pem, termSent, probeLeft, stops>>

-----------------------------------------------------------------------------
(* icbd and the rest of the host. *)

\* icbd binds one of its listeners; if the port is taken, icbd exits.
ServerBind(l) ==
    /\ proc = "up" /\ l \in Listeners \ listening
    /\ IF owner[PortOf(l)] = "none"
       THEN /\ owner' = [owner EXCEPT ![PortOf(l)] = "server"]
            /\ listening' = listening \cup {l}
            /\ UNCHANGED proc
       ELSE proc' = "exited" /\ owner' = Released /\ listening' = {}
    /\ UNCHANGED <<hpc, clearPort, sslPort, pem, termSent, probeLeft, stops>>

ServerExit ==
    /\ proc = "up" /\ (ServerMayCrash \/ termSent)
    /\ proc' = "exited" /\ owner' = Released /\ listening' = {}
    /\ UNCHANGED <<hpc, clearPort, sslPort, pem, termSent, probeLeft, stops>>

OtherBind(p) ==
    /\ OtherBinder /\ owner[p] = "none"
    /\ owner' = [owner EXCEPT ![p] = "other"]
    /\ UNCHANGED <<hpc, clearPort, sslPort, pem, proc, termSent, listening, probeLeft, stops>>

OtherRelease(p) ==
    /\ owner[p] = "other"
    /\ owner' = [owner EXCEPT ![p] = "none"]
    /\ UNCHANGED <<hpc, clearPort, sslPort, pem, proc, termSent, listening, probeLeft, stops>>

-----------------------------------------------------------------------------
Harness == AllocClear \/ AllocSsl \/ StageRunDir \/ Launch \/ Probe
           \/ StopPoll \/ StopWaited \/ StopKill

Next ==
    \/ Harness
    \/ \E l \in {"clear", "ssl"} : ServerBind(l)
    \/ ServerExit
    \/ \E p \in Ports : OtherBind(p) \/ OtherRelease(p)

(***************************************************************************)
(* The harness is one thread whose every wait is bounded, so it keeps     *)
(* taking steps.  icbd gets no fairness: it may never bind, never exit.   *)
(***************************************************************************)
Spec == Init /\ [][Next]_vars /\ WF_vars(Harness)
=============================================================================
