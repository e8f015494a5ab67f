SPECIFICATION MembersSpec
CONSTANTS
  Readers = {r1, r2}
  Changers = {w1, w2}
  MaxChanges = 3
  MaxVersion = 3
  NoPage = NoPage
  NoFetch = NoFetch
  r1 = r1  r2 = r2  w1 = w1  w2 = w2
SYMMETRY Symmetry
INVARIANTS
  ReadersSeeCommits
