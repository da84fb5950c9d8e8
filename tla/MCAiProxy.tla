----------------------------- MODULE MCAiProxy -----------------------------
(* A message of one character, and two of which one is all blanks; requests *)
(* are interchangeable.                                                     *)
EXTENDS AiProxy, TLC

MCConversations == {<<1>>, <<0, 5>>}

Symmetry == Permutations(Requests)
=============================================================================
