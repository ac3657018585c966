------------------------------- MODULE MCTrie -------------------------------
\* The trie for TLC: a small alphabet with a gap, keys that are prefixes of one
\* another and keys that part early and late.
EXTENDS Trie

MCAlphabet == <<<<3, 3>>, <<1, 1>>>>
MCKeys == {<<1>>, <<1, 3>>, <<1, 3, 3>>, <<3>>}
MCStrings == MCKeys \cup {<<>>, <<1, 1>>, <<1, 3, 1>>}
MCSymmetry == Permutations(TrieData)
=============================================================================
