SPECIFICATION Spec
INVARIANTS LinesExact DataIntact NothingStalls HandlesOwned
PROPERTIES StepsLegal
