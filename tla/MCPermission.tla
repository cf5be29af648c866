---------------------------- MODULE MCPermission ----------------------------
(* Small instances of Permission. *)
EXTENDS Permission, TLC

CONSTANTS r1, r2, r3, s1, s2, k1, k2

\* Two calls with the same session and the same key.
MCSessionOfTwo == (r1 :> s1) @@ (r2 :> s1)
MCKeyOfTwo     == (r1 :> k1) @@ (r2 :> k1)

\* The same two, and a call of another session with another key.
MCSessionOfThree == (r1 :> s1) @@ (r2 :> s1) @@ (r3 :> s2)
MCKeyOfThree     == (r1 :> k1) @@ (r2 :> k1) @@ (r3 :> k2)
=============================================================================
