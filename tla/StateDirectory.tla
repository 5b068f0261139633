---------------------------- MODULE StateDirectory ----------------------------
(***************************************************************************)
(* What the processes that share one runtime-state directory have in       *)
(* common (src/core/runtime-state.ts): the processes, the callers that     *)
(* take leases on its files, one clock, and a disk.                        *)
(***************************************************************************)
EXTENDS Integers, FiniteSets

CONSTANTS
    Proc,         \* server processes
    Call,         \* the callers that may hold a lease
    NoCall,       \* no caller
    MaxTime,      \* bound on the clock
    DiskMayFail   \* whether a write of a file may fail

ASSUME NoCallAssumption == NoCall \notin Call
ASSUME ClockAssumption == MaxTime \in Nat
ASSUME FaultAssumption == DiskMayFail \in BOOLEAN

VARIABLE now      \* Date.now(), one clock for the processes of a host

ClockTypeOK == now \in 0 .. MaxTime

ClockInit == now = 0

Advance == now < MaxTime /\ now' = now + 1
=============================================================================
