---------------------------- MODULE TrustedModel ----------------------------
(***************************************************************************)
(* What a simulation promises, without saying how: the published model is  *)
(* built one whole round at a time, a round adds deltas of that round      *)
(* only, clients barred in a round add nothing in that round, and the run  *)
(* ends.  simulation/runner.py publishes the model by writing its version  *)
(* to the run record (update_status).                                      *)
(***************************************************************************)
EXTENDS Integers, Sequences

CONSTANTS Clients, Rounds

VARIABLES
    model,     \* the <<round, client>> deltas in the published model
    round,     \* rounds published
    barred,    \* barred[r]: the clients barred in round r
    status     \* status of the run record; LOST: ended, but the record still runs

vars == <<model, round, barred, status>>

Init ==
    /\ model = {}
    /\ round = 0
    /\ barred = <<>>
    /\ status = "RUNNING"

\* A round is published as a whole, and nothing of an earlier round changes.
PublishRound(kept, out) ==
    /\ status = "RUNNING"
    /\ round < Rounds
    /\ kept \cap out = {}
    /\ model' = model \cup { <<round + 1, c>> : c \in kept }
    /\ round' = round + 1
    /\ barred' = Append(barred, out)
    /\ UNCHANGED status

Finish ==
    /\ status = "RUNNING"
    /\ round = Rounds
    /\ status' = "COMPLETED"
    /\ UNCHANGED <<model, round, barred>>

\* A failure leaves the published model as it was.
Abort ==
    /\ status \in {"RUNNING", "COMPLETED"}
    /\ status' = "FAILED"
    /\ UNCHANGED <<model, round, barred>>

\* The end of a failed run goes unrecorded.
Lose ==
    /\ status = "RUNNING"
    /\ status' = "LOST"
    /\ UNCHANGED <<model, round, barred>>

Next ==
    \/ \E kept, out \in SUBSET Clients : PublishRound(kept, out)
    \/ Finish
    \/ Abort
    \/ Lose

Spec == Init /\ [][Next]_vars /\ WF_vars(status = "RUNNING" /\ Next)
=============================================================================
