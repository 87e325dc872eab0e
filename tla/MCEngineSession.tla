-------------------------- MODULE MCEngineSession --------------------------
(* Model checking of EngineSession.  Workers are interchangeable.               *)
EXTENDS EngineSession, TLC

CONSTANT read

Query(tools, wants, chat) == [tools |-> tools, wants |-> wants, chat |-> chat]
\* A handshake with tools in a chat, a query that wants them and brings none, and
\* one that brings a tool without a name.
MCQueries == {Query({read}, FALSE, TRUE), Query({}, TRUE, FALSE),
              Query({NoName}, TRUE, FALSE)}
Symmetry == Permutations(Workers)
=============================================================================
