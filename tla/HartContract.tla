---------------------------- MODULE HartContract ----------------------------
(***************************************************************************)
(* What the Teto kernel promises about a hart, without lock words, scans   *)
(* or batches: one worker executes it at a time; a request it makes blocks *)
(* it and is answered once, by the worker that took the request; nothing   *)
(* is executed or answered after its end.                                  *)
(***************************************************************************)
CONSTANTS Workers, Harts

VARIABLES
  phase,    \* "ready", "blocked" on a request, or "ended"
  runner,   \* the workers that execute the hart
  debtor    \* the workers that owe it an answer

vars == <<phase, runner, debtor>>

Init ==
  /\ phase = [h \in Harts |-> "ready"]
  /\ runner = [h \in Harts |-> {}]
  /\ debtor = [h \in Harts |-> {}]

Enter(w, h) ==
  /\ phase[h] = "ready"
  /\ runner[h] = {}
  /\ runner' = [runner EXCEPT ![h] = {w}]
  /\ UNCHANGED <<phase, debtor>>

Pause(w, h) ==
  /\ runner[h] = {w}
  /\ runner' = [runner EXCEPT ![h] = {}]
  /\ UNCHANGED <<phase, debtor>>

Request(w, h) ==
  /\ phase[h] = "ready"
  /\ runner[h] = {w}
  /\ debtor[h] = {}
  /\ phase' = [phase EXCEPT ![h] = "blocked"]
  /\ runner' = [runner EXCEPT ![h] = {}]
  /\ debtor' = [debtor EXCEPT ![h] = {w}]

Answer(w, h) ==
  /\ phase[h] = "blocked"
  /\ debtor[h] = {w}
  /\ phase' = [phase EXCEPT ![h] = "ready"]
  /\ debtor' = [debtor EXCEPT ![h] = {}]
  /\ UNCHANGED runner

(* The executing worker ends the hart, or somebody does while nobody       *)
(* executes it.                                                            *)
End(w, h) ==
  /\ phase[h] # "ended"
  /\ runner[h] \subseteq {w}
  /\ phase' = [phase EXCEPT ![h] = "ended"]
  /\ runner' = [runner EXCEPT ![h] = {}]
  /\ UNCHANGED debtor

(* An answer that comes after the end is dropped.                          *)
Drop(w, h) ==
  /\ phase[h] = "ended"
  /\ debtor[h] = {w}
  /\ debtor' = [debtor EXCEPT ![h] = {}]
  /\ UNCHANGED <<phase, runner>>

Next ==
  \E w \in Workers, h \in Harts :
    Enter(w, h) \/ Pause(w, h) \/ Request(w, h) \/ Answer(w, h) \/ End(w, h) \/ Drop(w, h)

Spec == Init /\ [][Next]_vars
=============================================================================
