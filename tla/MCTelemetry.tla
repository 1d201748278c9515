---------------------------- MODULE MCTelemetry ----------------------------
(* Telemetry for TLC: two rollouts that share a version. *)
EXTENDS Telemetry

CONSTANTS d1, d2, v1, v2, v3

VersionsMC == [d \in {d1, d2} |-> IF d = d1 THEN {v1, v2} ELSE {v2, v3}]

Config(d, targets) == [d |-> d, targets |-> targets]

ConfigsMC == {Config(d1, {v1}), Config(d2, {v2, v3}),  Config(NoDeployment, {v1})}

AnswersMC == {[status |-> 200, prediction |-> 1], [status |-> 500, prediction |-> Missing]}
=============================================================================
