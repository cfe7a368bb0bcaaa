SPECIFICATION Spec
CONSTANT MaxSignals = 2
INVARIANT SecondInterruptKills
