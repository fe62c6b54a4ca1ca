---------------------------- MODULE JpegService ----------------------------
(* What the JPEG encoder promises its clients, whatever it does inside: a   *)
(* job that was accepted is answered at most once, not any more after       *)
(* abort_job has returned, and the buffers of a job are read only while it  *)
(* is neither answered nor withdrawn, those of one job at a time.           *)
EXTENDS Naturals

CONSTANT Jobs

VARIABLES
    status,     \* of each job: "new", "accepted", "withdrawn"
    answers,    \* callbacks the client has had for each job
    reading     \* the jobs whose buffers the encoder reads

vars == <<status, answers, reading>>

Init ==
    /\ status = [j \in Jobs |-> "new"]
    /\ answers = [j \in Jobs |-> 0]
    /\ reading = {}

(* start_job succeeds. *)
Accept(j) ==
    /\ status[j] = "new"
    /\ status' = [status EXCEPT ![j] = "accepted"]
    /\ UNCHANGED <<answers, reading>>

(* The encoder is given the buffers of a job, *)
Begin(j) ==
    /\ status[j] = "accepted" /\ answers[j] = 0 /\ reading = {}
    /\ reading' = {j}
    /\ UNCHANGED <<status, answers>>

(* and may stop reading before anybody is told. *)
Cease(j) ==
    /\ reading' = reading \ {j}
    /\ UNCHANGED <<status, answers>>

(* The callback, with a picture or with an error. *)
Answer(j) ==
    /\ status[j] = "accepted" /\ answers[j] = 0
    /\ answers' = [answers EXCEPT ![j] = 1]
    /\ reading' = reading \ {j}
    /\ UNCHANGED status

(* abort_job returns: the buffers are the client's again. *)
Withdraw(j) ==
    /\ status[j] = "accepted" /\ j \notin reading
    /\ status' = [status EXCEPT ![j] = "withdrawn"]
    /\ UNCHANGED <<answers, reading>>

Next == \E j \in Jobs :
    Accept(j) \/ Begin(j) \/ Cease(j) \/ Answer(j) \/ Withdraw(j)

Spec == Init /\ [][Next]_vars
=============================================================================
