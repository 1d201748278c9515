------------------------------ MODULE UseAsync ------------------------------
(***************************************************************************)
(* The dashboard's useAsync hook: a fetch on mount and on every refetch,   *)
(* the last one to be issued the only one whose response counts.  What the *)
(* server answers is up to the module that uses the hook.                  *)
(***************************************************************************)
CONSTANT NoData   \* null

\* data, error, loading; the call of the last effect, and that of the one it cleaned
\* up.  Of the calls cleaned up earlier nothing more is told: nobody listens.
VARIABLE hook

Nothing == [pc |-> "none", value |-> NoData]

Asked == [pc |-> "asked", value |-> NoData]

Mounted == [data |-> NoData, error |-> FALSE, loading |-> TRUE,
            current |-> Asked, superseded |-> Nothing]

\* refetch: the effect's cleanup cancels the call it issued before.
Refetched(h) == [h EXCEPT !.current = Asked, !.superseded = h.current]

Calls == {"current", "superseded"}

\* The server reads what it answers.
Replies(call, value) ==
  /\ hook[call].pc = "asked"
  /\ hook' = [hook EXCEPT ![call] = [pc |-> "answered", value |-> value]]

\* Mutant: no cancelled flag.
Listens_mutant(call) == TRUE

\* ~cancelled
Listens(call) == call = "current"

\* The response arrives, in any order.
Arrives(call) ==
  /\ hook[call].pc = "answered"
  /\ hook' = IF Listens(call)
             THEN [hook EXCEPT !.data = hook[call].value, !.error = FALSE,
                               !.loading = FALSE, ![call] = Nothing]
             ELSE [hook EXCEPT ![call] = Nothing]

Fails(call) ==
  /\ hook[call].pc # "none"
  /\ hook' = IF Listens(call)
             THEN [hook EXCEPT !.data = NoData, !.error = TRUE, !.loading = FALSE,
                               ![call] = Nothing]
             ELSE [hook EXCEPT ![call] = Nothing]
=============================================================================
