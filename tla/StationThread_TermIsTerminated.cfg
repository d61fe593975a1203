CONSTANT
  Contexts = {c1}
SPECIFICATION Spec
INVARIANT TermIsTerminated
