------------------------------ MODULE MCSession ------------------------------
(***************************************************************************)
(* Instances of Session for TLC.                                           *)
(***************************************************************************)
EXTENDS Session, TLC

\* Load steps for the configurations: rates of a pool of at most two threads.
\* setTimeslice refuses the last one when there are two threads.
LastRejected == <<0, 2, 1>>
TwoSteps == <<0, 2>>
ThreeSteps == <<2, 0, 4>>

Symmetry == Permutations(Threads)
=============================================================================
