----------------------------- MODULE MCRouting -----------------------------
(* Instances of Routing for TLC.                                             *)
EXTENDS Routing, TLC

CONSTANTS h1, h2, h3, m1, m2, i1, i2, i3

(* Two hosts serve one model, one another.                                   *)
MCServes == (h1 :> m1) @@ (h2 :> m1) @@ (h3 :> m2)
MCIdOf == (h1 :> i1) @@ (h2 :> i2) @@ (h3 :> i3)
MCServesOne == (h1 :> m1) @@ (h2 :> m1)
MCIdOfTwo == (h1 :> i1) @@ (h2 :> i2)
MCConfigured == <<h1, h2>>
MCConfiguredAll == <<h1, h2, h3>>

(* Tasks differ in whether their prediction fits.                            *)
TaskSymmetry == Permutations(Tasks \ Misfits)

MCRank == [u \in Uuids |-> MaxIssued - u]
=============================================================================
