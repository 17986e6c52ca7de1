SPECIFICATION Spec
INVARIANTS LinesExact StreamsIntact ViewsCurrent
PROPERTIES LazyExact
