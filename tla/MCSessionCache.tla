--------------------------- MODULE MCSessionCache ---------------------------
(* Model checking of SessionCache: fewer places in memory than sessions, so   *)
(* that every new session evicts one, possibly one in use.                    *)
EXTENDS SessionCache, TLC

CONSTANTS general, coder

MCObjs == 1..(MaxActive + Cardinality(Workers))

\* Every model has a hash, an id and a shape of its own.
OwnOnly == [n \in Names |-> {<<n, n>>}]

\* Session 1 is used with both models and from two requests at a time, session 2
\* with one model.
TwoModelsOnOne ==
    {<<1, general>>, <<1, coder>>, <<2, general>>, <<NoSession, coder>>}

AllPairs == (Sessions \cup {NoSession}) \X Names

\* Workers and model names are interchangeable; session ids are not, because
\* eviction treats the first of the map in a way of its own.
CallerSymmetry == Permutations(Workers) \cup Permutations(Names)
=============================================================================
