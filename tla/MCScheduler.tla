------------------------------ MODULE MCScheduler ------------------------------
(* Instances of Scheduler for TLC.                                         *)
EXTENDS Scheduler, TLC

CONSTANTS a, b, wasm

(* kernel_main's own order: task_a, task_b, wasm_entry.                    *)
ThreeWorkers == <<a, b, wasm>>
OneWorker == <<wasm>>
=============================================================================
