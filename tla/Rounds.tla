-------------------------------- MODULE Rounds --------------------------------
(* What the federated rounds promise to whoever asks for them: every request *)
(* begins one round, and a round that has begun is reported completed at     *)
(* most once and only before the next one begins.  It need not complete: a   *)
(* sensor may fail, and no message is sent again.  Once a request to train   *)
(* has been delivered after its round, the current one may be reported again.*)
EXTENDS Naturals, Sequences

VARIABLES requested,  \* rounds asked for
          round,      \* the current round, 0 before the first
          open,       \* it may yet complete
          told,       \* rounds reported completed, in order
          disturbed   \* a request to train has been delivered after its round

vars == <<requested, round, open, told, disturbed>>

Init == /\ requested = 0
        /\ round = 0
        /\ open = FALSE
        /\ told = <<>>
        /\ disturbed = FALSE

Request == /\ requested' = requested + 1
           /\ UNCHANGED <<round, open, told, disturbed>>

Begin == /\ round < requested
         /\ round' = round + 1
         /\ open' = TRUE
         /\ UNCHANGED <<requested, told, disturbed>>

Finish == /\ open
          /\ open' = FALSE
          /\ told' = Append(told, round)
          /\ UNCHANGED <<requested, round, disturbed>>

Disturb == /\ disturbed' = TRUE
           /\ UNCHANGED <<requested, round, open, told>>

FinishAgain == /\ disturbed
               /\ round > 0
               /\ ~open
               /\ told' = Append(told, round)
               /\ UNCHANGED <<requested, round, open, disturbed>>

Next == Request \/ Begin \/ Finish \/ Disturb \/ FinishAgain

Spec == Init /\ [][Next]_vars
=============================================================================
