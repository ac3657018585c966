SPECIFICATION TrieSpec
CONSTANTS
  TRIE_CHAR_MAX = 3
  TRIE_INDEX_MAX = 8
  MaxChar = 3
  NULL = NULL
  SHORT_MAX = 3
  Alphabet <- MCAlphabet
  Keys <- MCKeys
  Strings <- MCStrings
  TrieData = {v1, v2}
  MaxTails = 4
SYMMETRY MCSymmetry
INVARIANTS TrieTypeOK FreeListSound NodesSound TailsOwned MapExact  FileExact EnumerateExact WalkExact
