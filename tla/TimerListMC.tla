---------------------------- MODULE TimerListMC ----------------------------
EXTENDS TimerList, TLC
TimerSymmetry == Permutations(Timers)
=============================================================================
