--------------------------- MODULE BridgeSession ---------------------------
(***************************************************************************)
(* What the auth bridge promises of its sessions, whichever way it is      *)
(* deployed: a token names one session at a time, a session takes one      *)
(* submission and keeps it, and a session that is gone does not come back. *)
(* The promise does not cover a token on which calls have raced.           *)
(***************************************************************************)
CONSTANTS Tokens, Keys, Browsers, None

VARIABLES
    session,  \* of each token: the key of the machine, and who submitted
    raced     \* tokens whose calls interfered

Free == [key |-> None, by |-> None]

Init == session = [t \in Tokens |-> Free] /\ raced = {}

Becomes(t, s) == session' = [session EXCEPT ![t] = s] /\ UNCHANGED raced

Open(t, k) == session[t] = Free /\ Becomes(t, [key |-> k, by |-> None])

Fill(t, b) == session[t] # Free /\ session[t].by = None
              /\ Becomes(t, [key |-> session[t].key, by |-> b])

Close(S) == /\ session' = [t \in Tokens |-> IF t \in S THEN Free ELSE session[t]]
            /\ UNCHANGED raced

Race(t) == /\ raced' = raced \cup {t}
           /\ \A u \in Tokens \ {t} : session'[u] = session[u]

Next == \/ \E t \in Tokens : Race(t) \/ (\E k \in Keys : Open(t, k)) \/ (\E b \in Browsers : Fill(t, b))
        \/ \E S \in SUBSET Tokens : Close(S)

Spec == Init /\ [][Next]_<<session, raced>>
=============================================================================
