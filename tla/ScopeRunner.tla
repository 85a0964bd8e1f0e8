---------------------------- MODULE ScopeRunner ----------------------------
(***************************************************************************)
(* SimpleWeb::ScopeRunner (utility.hpp:434-477): the gate every            *)
(* asynchronous handler of the WebSocket client passes before it touches   *)
(* the client, and which the client's destructor closes.  `count' is the   *)
(* number of handlers inside, or -1 once the gate is closed; all updates   *)
(* are single compare-and-swap or fetch-sub operations, and a weak         *)
(* compare-and-swap may fail although the values are equal.                *)
(***************************************************************************)
EXTENDS Integers, FiniteSets

CONSTANTS Handlers,   \* completions of asynchronous operations, each run once
          Stoppers    \* threads that call stop()

ASSUME HandlersFinite == IsFiniteSet(Handlers)

VARIABLES count,      \* std::atomic<long> count
          hpc,        \* where each handler is in continue_lock() and after
          expected,   \* the local `expected' of each continue_lock() call
          spc         \* where each caller of stop() is

gateVars == <<count, hpc, expected, spc>>

Running == {h \in Handlers : hpc[h] = "running"}

GateTypeOK == /\ count \in Int /\ count >= -1
              /\ hpc \in [Handlers -> {"pending", "trying", "running", "finished", "cancelled"}]
              /\ expected \in [Handlers -> Int]
              /\ spc \in [Stoppers -> {"idle", "spinning", "returned"}]

GateInit == /\ count = 0
            /\ hpc = [h \in Handlers |-> "pending"]
            /\ expected = [h \in Handlers |-> 0]
            /\ spc = [s \in Stoppers |-> "idle"]

(* continue_lock(): the first load of the counter. *)
Load(h) == /\ hpc[h] = "pending"
           /\ hpc' = [hpc EXCEPT ![h] = "trying"]
           /\ expected' = [expected EXCEPT ![h] = count]
           /\ UNCHANGED <<count, spc>>

(* A failed exchange reloads `expected'; it may fail although nothing      *)
(* changed, which then leaves the state as it was.                         *)
Retry(h) == /\ hpc[h] = "trying" /\ expected[h] >= 0
            /\ expected' = [expected EXCEPT ![h] = count]
            /\ UNCHANGED <<count, hpc, spc>>

\* Mutant: the exchange is an increment that trusts the earlier load.
AcquireBlind(h) == /\ hpc[h] = "trying" /\ expected[h] >= 0
                   /\ count' = expected[h] + 1
                   /\ hpc' = [hpc EXCEPT ![h] = "running"]
                   /\ UNCHANGED <<expected, spc>>

Acquire(h) == /\ hpc[h] = "trying" /\ expected[h] >= 0
              /\ count = expected[h]
              /\ count' = count + 1
              /\ hpc' = [hpc EXCEPT ![h] = "running"]
              /\ UNCHANGED <<expected, spc>>

(* continue_lock() returns nullptr and the handler returns at once. *)
GiveUp(h) == /\ hpc[h] = "trying" /\ expected[h] < 0
             /\ hpc' = [hpc EXCEPT ![h] = "cancelled"]
             /\ UNCHANGED <<count, expected, spc>>

\* Mutant: the handler's early return keeps the lock.
ReleaseLeaks(h) == /\ hpc[h] = "running"
                   /\ hpc' = [hpc EXCEPT ![h] = "finished"]
                   /\ UNCHANGED <<count, expected, spc>>

(* ~SharedLock() at the end of the handler. *)
Release(h) == /\ hpc[h] = "running"
              /\ count' = count - 1
              /\ hpc' = [hpc EXCEPT ![h] = "finished"]
              /\ UNCHANGED <<expected, spc>>

CallStop(s) == /\ spc[s] = "idle"
               /\ spc' = [spc EXCEPT ![s] = "spinning"]
               /\ UNCHANGED <<count, hpc, expected>>

\* Mutant: stop() exchanges whatever value it saw instead of 0.
CloseGateEarly(s) == /\ spc[s] = "spinning" /\ count >= 0
                     /\ count' = -1
                     /\ spc' = [spc EXCEPT ![s] = "returned"]
                     /\ UNCHANGED <<hpc, expected>>

(* The exchange 0 -> -1 succeeds.  A failed one with a non-negative counter *)
(* resets `expected' to 0 and changes nothing.                             *)
CloseGate(s) == /\ spc[s] = "spinning" /\ count = 0
                /\ count' = -1
                /\ spc' = [spc EXCEPT ![s] = "returned"]
                /\ UNCHANGED <<hpc, expected>>

(* Another thread has closed the gate already. *)
GateClosed(s) == /\ spc[s] = "spinning" /\ count < 0
                 /\ spc' = [spc EXCEPT ![s] = "returned"]
                 /\ UNCHANGED <<count, hpc, expected>>

HandlerStep(h) == Load(h) \/ Retry(h) \/ Acquire(h) \/ GiveUp(h) \/ Release(h)
StopStep(s) == CallStop(s) \/ CloseGate(s) \/ GateClosed(s)

Terminated == /\ \A h \in Handlers : hpc[h] \in {"finished", "cancelled"}
              /\ \A s \in Stoppers : spc[s] = "returned"
              /\ UNCHANGED gateVars

GateNext == \/ \E h \in Handlers : HandlerStep(h)
            \/ \E s \in Stoppers : StopStep(s)
            \/ Terminated

(* Every thread keeps being scheduled; a weak exchange whose values stay   *)
(* equal does not fail for ever.                                           *)
GateFairness == /\ \A h \in Handlers : /\ WF_gateVars(Load(h)) /\ WF_gateVars(GiveUp(h))
                                       /\ WF_gateVars(Acquire(h)) /\ WF_gateVars(Release(h))
                                       /\ WF_gateVars(Retry(h))
                /\ \A s \in Stoppers : /\ WF_gateVars(CallStop(s)) /\ WF_gateVars(CloseGate(s))
                                       /\ WF_gateVars(GateClosed(s))

GateSpec == GateInit /\ [][GateNext]_gateVars
GateFairSpec == GateSpec /\ GateFairness

-----------------------------------------------------------------------------
(* Once any stop() has returned no handler is inside and none enters: the  *)
(* destructor may free what the handlers use (client_ws.hpp:334-337).      *)
StopExcludesHandlers == (\E s \in Stoppers : spc[s] = "returned") => Running = {}

(* The counter is exactly the number of handlers inside until the gate     *)
(* closes, so no lost update can close it early or keep it open for ever.  *)
CountIsRunning == count = IF \E s \in Stoppers : spc[s] = "returned"
                          THEN -1 ELSE Cardinality(Running)

(* Every stop() returns, whatever handlers are in flight when it is called. *)
StopReturns == \A s \in Stoppers : spc[s] = "spinning" ~> spc[s] = "returned"
=============================================================================
