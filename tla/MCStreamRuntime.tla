--------------------------- MODULE MCStreamRuntime ---------------------------
(***************************************************************************)
(* StreamRuntime on a small instance: two tabs and two requests, so that a *)
(* tab streams twice, or both stream while the selection changes.  Every   *)
(* chunk is told from the others, so that none may change its place.       *)
(***************************************************************************)
EXTENDS StreamRuntime, TLC

CONSTANTS t1, t2, r1, r2

MCOutput == (r1 :> [text |-> <<1, 2>>, thinking |-> <<3>>]) @@ (r2 :> [text |-> <<4, 5>>, thinking |-> <<>>])

\* No response; one that goes on beyond the text of r1; and one that only begins that of
\* r2 and is another text than that of r1.
MCReplies == {Nothing, [text |-> <<1, 2, 5>>, thinking |-> <<3>>], [text |-> <<4>>, thinking |-> <<>>]}
=============================================================================
