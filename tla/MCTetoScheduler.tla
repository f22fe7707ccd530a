-------------------------- MODULE MCTetoScheduler --------------------------
(* Small instances of TetoScheduler.                                       *)
EXTENDS TetoScheduler

CONSTANTS w1, w2

(* Each way an instruction can leave the batch, and the kernel-wide locks  *)
(* contended by two harts.                                                 *)
MixedPrograms ==
  { <<"credential", "trap", "exit">>,
    <<"touch", "write", "credential">>,
    <<"alu", "alu", "exit">> }

(* A hart that never ends, one that asks its host for something again and  *)
(* again, and two that end, but must take a kernel-wide lock first: one    *)
(* that is delayed when it is taken, and one that faults.                  *)
LoopPrograms == { <<"jump">>, <<"write", "jump">>, <<"atomic", "exit">>, <<"touch", "exit">> }
=============================================================================
