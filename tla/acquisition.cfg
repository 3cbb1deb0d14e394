CONSTANT Authority = {a1, a2}
SPECIFICATION Spec
INVARIANTS NothingUnowned OutcomeComesLast
PROPERTY AbortIsAnswered
