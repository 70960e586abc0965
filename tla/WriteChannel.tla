----------------------------- MODULE WriteChannel -----------------------------
(***************************************************************************)
(* What the phone, the service and the desk promise together of the        *)
(* changes made on the phone: the desk answers them in the order they were *)
(* made and each once, and the phone lets go of one only after the desk    *)
(* has answered it or the service has refused it.  Posts, retries, seqs,   *)
(* acks and prunes are not seen.                                           *)
(***************************************************************************)
EXTENDS Naturals

CONSTANT Writes   \* what the user may ask for on the phone

VARIABLES
    made,      \* how many changes have been made
    order,     \* the place of each change in the order they were made
    pending,   \* those the desk has not answered
    kept,      \* those the phone still holds and shows
    answered   \* how many answers the desk has given

chanVars == <<made, order, pending, kept, answered>>

Init ==
    /\ made = 0 /\ order = [w \in Writes |-> 0]
    /\ pending = {} /\ kept = {} /\ answered = 0

Make(w) ==
    /\ order[w] = 0
    /\ made' = made + 1 /\ order' = [order EXCEPT ![w] = made + 1]
    /\ pending' = pending \cup {w} /\ kept' = kept \cup {w}
    /\ UNCHANGED answered

\* The desk answers the oldest change it has not answered.
Answer(w) ==
    /\ w \in pending /\ \A x \in pending : order[w] <= order[x]
    /\ pending' = pending \ {w}
    /\ answered' = answered + 1
    /\ UNCHANGED <<made, order, kept>>

\* The service refuses a change for good: it reaches no desk, and the phone drops it.
Refuse(w) ==
    /\ w \in pending
    /\ pending' = pending \ {w} /\ kept' = kept \ {w}
    /\ UNCHANGED <<made, order, answered>>

LetGo ==
    /\ kept' \subseteq kept /\ pending \subseteq kept'
    /\ UNCHANGED <<made, order, pending, answered>>

Next == (\E w \in Writes : Make(w) \/ Answer(w) \/ Refuse(w)) \/ LetGo

Spec == Init /\ [][Next]_chanVars
===============================================================================
