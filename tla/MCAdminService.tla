--------------------------- MODULE MCAdminService ---------------------------
(* One request, whose id the route cuts to "eq", and a few accounts.       *)
EXTENDS AdminService, SequencesExt

MCRequestIds == {<<"r", "e", "q">>}

MCSpecs == [request: RequestIds, archive: Archives \cup {NoArchive}]

MCBuiltInList == <<<<"admin">>, <<"user1">>>>

MCRoot == <<"admin">>

MCQuoted == {<<"o'neil">>}

MCNames == {<<"admin">>, <<"user1">>, <<"user">>, <<"bob">>, <<"bob", "eve">>} \cup MCQuoted

(* The pieces of the name in a row in the text; of these names only "user" *)
(* is a part of another piece.                                             *)
MCOccurs(name, list) ==
  LET text == FlattenSeq(list)
  IN  \/ \E i \in 0..(Len(text) - Len(name)) : SubSeq(text, i + 1, i + Len(name)) = name
      \/ name = <<"user">> /\ "user1" \in Entries(text)

Symmetry == Permutations(Callers) \cup Permutations(Creators) \cup Permutations(JobIds)
=============================================================================
