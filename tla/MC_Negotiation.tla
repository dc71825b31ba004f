----------------------------- MODULE MC_Negotiation -----------------------------
EXTENDS Negotiation, TLC

PageSymmetry == Permutations(Pages)
===============================================================================
