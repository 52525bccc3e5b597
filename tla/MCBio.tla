-------------------------------- MODULE MCBio --------------------------------
(***************************************************************************)
(* Two buffers, one of which the log may pin, for four blocks and two      *)
(* processes that share two of them.  The first process asks for these     *)
(* also while it holds a third one.                                        *)
(***************************************************************************)
EXTENDS Bio, TLC

CONSTANTS p1, p2, h1, h2, h3, k1, k2, k3, k4, d0, d1

MCOf == (h1 :> p1) @@ (h2 :> p1) @@ (h3 :> p2)
MCAsks == (h1 :> {k3}) @@ (h2 :> {k1, k2}) @@ (h3 :> {k1, k2, k4})
MCNests == {<<k3, k1>>, <<k3, k2>>}
MCImage == (k1 :> d0) @@ (k2 :> d1) @@ (k3 :> d0) @@ (k4 :> d1)
=============================================================================
