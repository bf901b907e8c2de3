----------------------------- MODULE MCPicoLink -----------------------------
EXTENDS PicoLinkBus, TLC
Sym == Permutations(Readers) \cup Permutations(Steppers)
=============================================================================
