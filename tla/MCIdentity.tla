------------------------------ MODULE MCIdentity ------------------------------
(* Two requests with any key, device or agent; one form of the administrator. *)
EXTENDS Identity, TLC

CONSTANT a1

\* The names of the agents do not matter: a1 is the one that is known first and that a
\* device speaks for.  (TLC's own symmetry reduction is not sound for liveness.)
UpToNames == /\ Agents \cap rows # {} => a1 \in rows
             /\ \A d \in Devices : bound[d] \in {a1, Nobody}

mcInit == Init /\ UpToNames

mcSpec == mcInit /\ [][Next]_vars /\ \A r \in Requests : WF_vars(Work(r))
===============================================================================
