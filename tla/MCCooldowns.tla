---- MODULE MCCooldowns ----
EXTENDS Cooldowns, TLC

Symmetry == Permutations(Requests)
====
