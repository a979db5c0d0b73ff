---------------------------- MODULE HealthPromise ----------------------------
(***************************************************************************)
(* What a health monitor promises to those who read its notifications: an  *)
(* outage is announced once, after Threshold failed checks in a row and not *)
(* before, a recovery is announced at once, and the monitor gives up only   *)
(* after MaxErrors checks in a row that could not be made.                  *)
(***************************************************************************)
EXTENDS Naturals

CONSTANTS
    MaxErrors  \* checks in a row that end with an error before the monitor stops

VARIABLES
    threshold, \* failed checks in a row before an outage is announced
    fails,     \* failed checks in a row, counted up to the threshold
    told,      \* this outage was announced
    errs,      \* erroneous checks in a row
    said,      \* what the last check announced: "nothing", "up" or "down"
    over       \* the monitor has stopped

promiseVars == <<threshold, fails, told, errs, said, over>>

PromiseInit ==
    /\ threshold \in Nat \ {0}
    /\ fails = 0 /\ told = FALSE /\ errs = 0 /\ said = "nothing" /\ over = FALSE

Good ==
    /\ ~over
    /\ said' = IF fails > 0 THEN "up" ELSE "nothing"
    /\ fails' = 0 /\ told' = FALSE /\ errs' = 0
    /\ UNCHANGED <<threshold, over>>

\* A check fails; when it ended with an error the monitor may be about to give up.
Bad ==
    /\ ~over
    /\ fails' = IF fails < threshold THEN fails + 1 ELSE threshold
    /\ said' = IF ~told /\ fails' = threshold THEN "down" ELSE "nothing"
    /\ told' = (told \/ said' = "down")
    /\ \/ errs' = errs + 1
       \/ errs' = 0
    /\ over' = (errs' >= MaxErrors)
    /\ UNCHANGED threshold

\* The route is cancelled.
Cancelled ==
    /\ over' = TRUE
    /\ UNCHANGED <<threshold, fails, told, errs, said>>

PromiseNext == Good \/ Bad \/ Cancelled
PromiseSpec == PromiseInit /\ [][PromiseNext]_promiseVars
=============================================================================
