----------------------------- MODULE CallContract -----------------------------
(***************************************************************************)
(* What a caller of the shared database connection is promised             *)
(* (modules/database_connector.py): a call has its whole effect or none,   *)
(* once; "ok" comes after the effect, "exceeded" means there never is one, *)
(* and an error or a cancellation leaves the caller unsure.                *)
(***************************************************************************)
CONSTANT Calls

VARIABLES
    answer,  \* what the caller of c was told
    effect   \* the calls whose statements are in the database

Init ==
    /\ answer = [c \in Calls |-> "none"]
    /\ effect = {}

\* An error or a cancellation may come before the effect.
TakeEffect(c) ==
    /\ c \notin effect
    /\ answer[c] \notin {"ok", "exceeded"}
    /\ effect' = effect \union {c}
    /\ UNCHANGED answer

Told(c, a) ==
    /\ answer[c] = "none"
    /\ answer' = [answer EXCEPT ![c] = a]
    /\ UNCHANGED effect

Succeed(c)  == c \in effect /\ Told(c, "ok")
GiveUp(c)   == c \notin effect /\ Told(c, "exceeded")
Unsure(c)   == Told(c, "raised") \/ Told(c, "cancelled")

Next == \E c \in Calls : TakeEffect(c) \/ Succeed(c) \/ GiveUp(c) \/ Unsure(c)

Spec == Init /\ [][Next]_<<answer, effect>>
===============================================================================
