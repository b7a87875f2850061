------------------------ MODULE ExternalModeAbstract -------------------------
(***************************************************************************)
(* What an external-mode storage deployment promises, whatever the remote  *)
(* commands it runs: the operators are installed, the details of the       *)
(* external Ceph cluster are gathered, the secret that carries them is     *)
(* created, then the StorageCluster that reads the secret, and the         *)
(* deployment is validated.  Each phase follows the one before it, any     *)
(* phase may fail, a failure is final, and the deployment does not stop    *)
(* half way: it ends done or failed.                                       *)
(***************************************************************************)

EXTENDS Naturals

VARIABLE phase

Phases == <<"install", "gather", "secret", "cluster", "validate", "done">>

Ended == {"done", "failed"}

Init == phase = "install"

\* The next phase of the sequence.
Advance ==
    \E k \in 1..5 :
        /\ phase = Phases[k]
        /\ phase' = Phases[k + 1]

\* A phase that has not ended fails.
Fail ==
    /\ phase \notin Ended
    /\ phase' = "failed"

Next == Advance \/ Fail

\* The promise without its fairness: what every step may do.
SafeSpec == Init /\ [][Next]_phase

Spec == SafeSpec /\ WF_phase(Next)

=============================================================================
