----------------------- MODULE MCConversationMemory -----------------------
(* ConversationMemory for TLC: calls of one kind are interchangeable.       *)
EXTENDS ConversationMemory, TLC

CallSymmetry == Permutations(Adders) \cup Permutations(Readers)
=============================================================================
