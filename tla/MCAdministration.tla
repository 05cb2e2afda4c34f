---- MODULE MCAdministration ----
EXTENDS Administration, TLC
CONSTANTS p1, p2, bistro, stress, w1, decisions, events, extra, api_credentials
OneConfigured == <<bistro>>
OneEscalated == <<stress>>
Symmetry == Permutations(Operators)
====
