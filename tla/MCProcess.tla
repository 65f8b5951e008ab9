------------------------------- MODULE MCProcess -------------------------------
(***************************************************************************)
(* eval::run_process() checked from two sides: one call from beginning to  *)
(* end (RunProcess), or the calls of several threads and the descriptors   *)
(* that their children inherit (Spawn).                                    *)
(***************************************************************************)
EXTENDS RunProcess, Spawn

VARIABLE subject   \* "one" call, or "many"

MCInit == subject \in {"one", "many"} /\ Init /\ SpawnInit

MCNext ==
    \/ subject = "one" /\ Next /\ UNCHANGED <<subject, spawnVars>>
    \/ subject = "many" /\ SpawnNext /\ UNCHANGED <<subject, vars>>

\* The fairness of RunProcess and of Spawn, where each is what runs.
MCSpec ==
    /\ MCInit /\ [][MCNext]_<<subject, vars, spawnVars>>
    /\ WF_vars(subject = "one" /\ Parent) /\ WF_vars(subject = "one" /\ Tick)
    /\ \A t \in Threads : WF_spawnVars(subject = "many" /\ Step(t))
    /\ \A p \in Calls : WF_spawnVars(subject = "many" /\ (Redirect(p) \/ Exec(p)))

\* RunProcess: a call returns, unless the child writes without end.
OneCallReturns == subject = "one" => OnlyWritingHoldsIt

=============================================================================
