SPECIFICATION AlphaSpec
CONSTANTS
  TRIE_CHAR_MAX = 9
  TRIE_INDEX_MAX = 1
  MaxChar = 8
INVARIANTS RangesApart AlphabetExact CodesExact
PROPERTY CloneFaithful
