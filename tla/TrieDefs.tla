------------------------------ MODULE TrieDefs ------------------------------
\* The limits of triedefs.h, which the modules of the trie share.
EXTENDS Naturals

CONSTANTS TRIE_CHAR_MAX,   \* largest character of the trie, one byte
          TRIE_INDEX_MAX   \* largest index of a cell

ASSUME TrieDefsAssumption == TRIE_CHAR_MAX \in Nat /\ TRIE_INDEX_MAX \in Nat

\* What reading a part of a file gives when it fails: the readers return NULL.
NotRead == [ok |-> FALSE]

TRIE_INDEX_ERROR == 0
TRIE_CHAR_TERM == 0
=============================================================================
