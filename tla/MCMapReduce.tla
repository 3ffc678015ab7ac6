----------------------------- MODULE MCMapReduce -----------------------------
(* Small instances of MapReduce for TLC. *)
EXTENDS MapReduce

\* The strings "2", "5", "9" and "10": strcmp() puts "10" first, atol() last.
Numerals == {<<50>>, <<53>>, <<57>>, <<49, 48>>}

Symmetry == Permutations(Mapper) \union Permutations(Reducer)
=============================================================================
