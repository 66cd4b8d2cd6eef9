SPECIFICATION Spec
CONSTANT Sessions <- MCSessions
INVARIANTS
    TypeOK
    EffectsAsReported
    ReadBack
