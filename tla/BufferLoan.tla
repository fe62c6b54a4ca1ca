------------------------------ MODULE BufferLoan ------------------------------
(* What a stream promises to everyone who uses its buffers: a buffer belongs *)
(* to the driver or to the user side.  The user side lends it to any number  *)
(* of holders, and only when the last of them has returned it may it go back *)
(* to the driver or may the buffers be freed.                                *)
EXTENDS Naturals

CONSTANT Bufs

VARIABLES
    owner,      \* nobody's, the driver's, or the user side's
    loans,      \* how many hold the buffer
    revoked     \* the buffers were taken away from a holder

vars == <<owner, loans, revoked>>

Init ==
    /\ owner = [b \in Bufs |-> "none"]
    /\ loans = [b \in Bufs |-> 0]
    /\ revoked = FALSE

Allocate ==
    /\ \A b \in Bufs : owner[b] = "none"
    /\ owner' = [b \in Bufs |-> "user"] /\ UNCHANGED loans

Free ==
    /\ \A b \in Bufs : owner[b] = "user" /\ loans[b] = 0
    /\ owner' = [b \in Bufs |-> "none"] /\ UNCHANGED loans

(* The driver returns a filled buffer to its first holder.                   *)
Deliver(b) ==
    /\ owner[b] = "driver" /\ loans[b] = 0
    /\ owner' = [owner EXCEPT ![b] = "user"]
    /\ loans' = [loans EXCEPT ![b] = 1]

(* A buffer that the driver is not given at the start.                       *)
Hold(b) ==
    /\ owner[b] = "user" /\ loans[b] = 0
    /\ loans' = [loans EXCEPT ![b] = 1] /\ UNCHANGED owner

(* One holder passes the buffer on and keeps it.                             *)
Share(b) ==
    /\ owner[b] = "user" /\ loans[b] > 0
    /\ loans' = [loans EXCEPT ![b] = @ + 1] /\ UNCHANGED owner

Return(b) ==
    /\ owner[b] = "user" /\ loans[b] > 0
    /\ loans' = [loans EXCEPT ![b] = @ - 1] /\ UNCHANGED owner

Queue(b) ==
    /\ owner[b] = "user" /\ loans[b] = 0
    /\ owner' = [owner EXCEPT ![b] = "driver"] /\ UNCHANGED loans

(* The driver gives up everything it has, unfilled.                          *)
Withdraw ==
    /\ owner' = [b \in Bufs |-> IF owner[b] = "driver" THEN "user" ELSE owner[b]]
    /\ UNCHANGED loans

Step ==
    \/ Allocate \/ Free \/ Withdraw
    \/ \E b \in Bufs : Deliver(b) \/ Hold(b) \/ Share(b) \/ Return(b) \/ Queue(b)

(* Once buffers were revoked nothing is promised any more.                   *)
Next == revoked' \/ (Step /\ UNCHANGED revoked)

Spec == Init /\ [][Next]_vars
=============================================================================
