--------------------------- MODULE MCOrchestrator ---------------------------
(***************************************************************************)
(* Model-checking instance of Orchestrator: two ephemeral ports, TLS on   *)
(* (so both find_free_port calls and ensure_test_pem run), two probe      *)
(* attempts per listener, and a scenario that calls stop() twice.         *)
(***************************************************************************)
EXTENDS Orchestrator

(***************************************************************************)
(* Once stop() has returned, icbd is not running and holds no port, even *)
(* when it ignored SIGTERM, exited by itself meanwhile, or stop() was     *)
(* called again (spec.md 4.5: stop is idempotent).                        *)
(***************************************************************************)
StopLeavesNoServer ==
    hpc = "stopped" => /\ proc # "up"
                       /\ \A p \in Ports : owner[p] # "server"

(***************************************************************************)
(* Every run of the harness ends: with_server raises, or it returns and  *)
(* the scenario's stop() completes, whatever icbd does (spec.md 5: every *)
(* wait is bounded; 9: a hung process cannot stall teardown).            *)
(***************************************************************************)
HarnessEnds == <>(hpc \in {"stopped", "failed"})

(***************************************************************************)
(* spec.md 5: resource cleanup is guaranteed on every path.  When         *)
(* with_server raises, no icbd it launched is left running.  The code     *)
(* raises out of wait_for_connect without stopping the process it has    *)
(* just started, and the ServerRun never reaches the scenario.           *)
(***************************************************************************)
NoServerLeftOnFailure == hpc = "failed" => proc # "up"

(***************************************************************************)
(* spec.md 4.5: the TLS listener gets a second, independent port.  The    *)
(* first find_free_port releases its port before the second runs, so both *)
(* may return the same port and icbd cannot bind both.                    *)
(***************************************************************************)
DistinctPorts ==
    (clearPort # NoPort /\ sslPort # NoPort) => clearPort # sslPort
=============================================================================
