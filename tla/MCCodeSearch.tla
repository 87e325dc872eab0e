---------------------------- MODULE MCCodeSearch ----------------------------
(* Model checking of CodeSearch: two files, two contents of which one holds a   *)
(* class with a method inside its lines and a function after it, and one a      *)
(* function across both; one memory with an id of its own and one without.      *)
EXTENDS CodeSearch, TLC

Piece(symbol, parent, first, last, size, words) ==
    [symbol |-> symbol, parent |-> parent, first |-> first, last |-> last,
     text |-> [size |-> size, words |-> words]]
Parsed ==
    [v1 |-> <<Piece("cache", NoName, 1, 4, 9, {"cache", "put"}),
              Piece("cache::put", "cache", 2, 3, 4, {"put"}),
              Piece("put", NoName, 6, 7, 5, {"put", "cache"})>>,
     v2 |-> <<Piece("put", NoName, 3, 6, 7, {"put"})>>]
Naming == [cache |-> {"cache", "cache::put"}, put |-> {"cache::put", "put"}]
Memories ==
    <<[key |-> "k1", id |-> "mem_1", text |-> [size |-> 3, words |-> {"cache"}], similar |-> {"cache"}],
      [key |-> "k2", id |-> NoName, text |-> [size |-> 3, words |-> {"put"}], similar |-> {"put", "cache"}]>>
Symmetry == Permutations(Threads) \cup Permutations(Files)
=============================================================================
