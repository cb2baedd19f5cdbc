------------------------------ MODULE LossyMap ------------------------------
(***************************************************************************)
(* What every user of CacheControl may rely on, and no more: a map that    *)
(* may forget any entry at any time, but never answers with anything other *)
(* than the value last written under the key.  The loaders are written     *)
(* against this promise: each of them treats a miss as "fetch it again".   *)
(***************************************************************************)
CONSTANTS Keys, Vals, None

VARIABLES
  written,  \* written[k]: the value last set under k and not deleted since
  reply     \* the last answer given to a reader

vars == <<written, reply>>

Miss(k)     == [key |-> k, hit |-> FALSE, val |-> None]
Present(k)  == [key |-> k, hit |-> TRUE, val |-> None]
Found(k, v) == [key |-> k, hit |-> TRUE, val |-> v]

Init ==
  /\ written = [k \in Keys |-> None]
  /\ reply \in {Miss(k) : k \in Keys}

Write(k, v) ==
  /\ written' = [written EXCEPT ![k] = v]
  /\ UNCHANGED reply

Erase(S) ==
  /\ written' = [k \in Keys |-> IF k \in S THEN None ELSE written[k]]
  /\ UNCHANGED reply

\* A reader asks for the value, or only whether there is one.
Read(k) ==
  /\ \/ reply' = Miss(k)
     \/ written[k] # None /\ reply' \in {Present(k), Found(k, written[k])}
  /\ UNCHANGED written

Next ==
  \/ \E k \in Keys, v \in Vals : Write(k, v)
  \/ \E S \in SUBSET Keys : Erase(S)
  \/ \E k \in Keys : Read(k)

Spec == Init /\ [][Next]_vars

=============================================================================
