-------------------------- MODULE MC_StressWorkers --------------------------
(* Small instances of the load generator's worker pool. *)
EXTENDS StressWorkers

\* Two threads sharing the id counter; two targets of unequal weight.
MCWorkers == 1..2
MCWeight   == <<1, 2>>

=============================================================================
