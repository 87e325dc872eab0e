--------------------------- MODULE MCMemoryIndex ---------------------------
(* Small instances of MemoryIndex: values are numbers, scores are quarters. *)
EXTENDS MemoryIndex

\* The index ranks the first as the cosine does, and the second otherwise.
MCQueries == {[index |-> <<3, 1>>, cosine |-> <<4, 1>>],
              [index |-> <<1, 2>>, cosine |-> <<0, -1>>]}
Of(v, w, x) == [value |-> v, workspace |-> w, visibility |-> x, status |-> "active"]
MCEntries == {Of(1, "alpha", Shared), Of(2, "default", Public)}
MCPrivate == {Of(1, "default", "private"), Of(2, "default", Shared)}
MCFacts == {<<[key |-> "a", value |-> 2], [key |-> "b", value |-> 1]>>}
MCFilters ==
    {[workspace |-> w, visible |-> {Public, Shared}] : w \in {AnyWorkspace, "beta"}}
====
