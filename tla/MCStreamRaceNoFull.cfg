\* Two mirrors: is "no FULL stream available" the answer of both?
CONSTANTS
  mx1 = mx1
  mx2 = mx2
  Candidates = {mx1, mx2}
  NoProvider = NoProvider
SYMMETRY Mirrors
SPECIFICATION Spec
INVARIANT NoFullIsUnanimous
