------------------------------ MODULE Benchmark ------------------------------
(***************************************************************************)
(* A run of the benchmark (runWithLoadPolicy in                            *)
(* src/cmd/fastvec-bench/main.go): it reads and validates its dataset,     *)
(* then measures.  That it loads or builds an index in between is the      *)
(* subject of IndexCache.                                                  *)
(***************************************************************************)
EXTENDS Dataset, Throughput

ASSUME BenchmarkAssumption == K <= Efs[Len(Efs)]

vars == <<dataVars, timeVars>>

Init == DataInit /\ TimeInit

ReadOn == ReadAll /\ UNCHANGED timeVars

Measures ==
    /\ verdict = "accepted"
    /\ Start \/ Measure(Length("query"), K)
    /\ UNCHANGED dataVars

Bench == ReadOn \/ Measures

Next == Bench \/ \E r \in Run : Subset(r) /\ UNCHANGED timeVars

\* The benchmark is a process that waits for nothing.  A subset run may stop.
Spec == Init /\ [][Next]_vars /\ WF_vars(Bench)

-----------------------------------------------------------------------------

\* A run of the benchmark ends, whatever the files and the clock do.
Ends == <>(verdict = "failed" \/ phase \in {"written", "failed"})

\* The inductive invariant.
IInv == DataInv /\ IF verdict = "accepted" THEN Counting(Length("query")) ELSE TimeInit

=============================================================================
