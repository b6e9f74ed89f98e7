----------------------------- MODULE MCPreviews -----------------------------
(* Small instances of Previews for TLC. *)
EXTENDS Previews, TLC

CONSTANTS a, b, r1, r2, r3

TwoOfA == r1 :> a @@ r2 :> a @@ r3 :> b
Sizes  == a :> 1 @@ b :> 2
=============================================================================
