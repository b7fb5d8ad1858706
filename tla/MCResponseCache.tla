--------------------------- MODULE MCResponseCache ---------------------------
EXTENDS ResponseCache, CacheHealth, TLC

CONSTANTS h1, h2

Request(a, v1, v2) == [auth |-> a, values |-> (h1 :> v1 @@ h2 :> v2)]

MCKinds == {Request(FALSE, 0, 0), Request(TRUE, 0, 1)}

Plain == [status |-> "ok", cookie |-> "none", restricted |-> FALSE,
          public |-> TRUE, maxAge |-> 1, sMaxAge |-> None, vary |-> {},
          tagged |-> TRUE, complete |-> TRUE, big |-> FALSE]

\* Lifetimes 1 and 2 under one tag, two ways to vary, and responses that may
\* not be stored.
MCResponses ==
    {[Plain EXCEPT !.tagged = FALSE],
     [Plain EXCEPT !.sMaxAge = 2, !.vary = {h2}],
     [Plain EXCEPT !.vary = {h1, h2}, !.public = FALSE],
     [Plain EXCEPT !.cookie = "trailer"],
     [Plain EXCEPT !.complete = FALSE]}

\* The store and its health share no variable, so a behaviour of the two is a
\* shuffle of one of each.  Every property here is about one of them: it is
\* enough to run either, with the other at its start.
MCInit == Init /\ HealthInit

MCNext ==
    \/ HealthInit /\ Next /\ UNCHANGED healthVars
    \/ Init /\ HealthNext /\ UNCHANGED vars

MCSpec == MCInit /\ [][MCNext]_<<vars, healthVars>>

Symmetry == Permutations(Requests) \cup Permutations(Callers)
=============================================================================
