---------------------------- MODULE MCBenchmarks ----------------------------
(* Benchmarks for TLC: a fault where it may be injected, one where it must not be, *)
(* and a scenario without.                                                        *)
EXTENDS Benchmarks

CONSTANTS fault, refused, plain, t1, t2

TargetMC == [s \in {fault, refused, plain} |->
               IF s = fault THEN t1 ELSE IF s = refused THEN t2 ELSE None]
=============================================================================
