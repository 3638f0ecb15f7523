---------------------------- MODULE MCBenchmark -----------------------------
(***************************************************************************)
(* Two application tasks of different priorities: the first, whose record *)
(* is followed, is notified, preempted, suspended and resumed.             *)
(***************************************************************************)
EXTENDS Benchmark

MCPriority == [i \in 0 .. 3 |-> CASE i = 0 -> 1 [] i = 1 -> 2 [] i = 2 -> 3
                                  [] OTHER -> 0]
=============================================================================
