------------------------ MODULE MCGenerationLifecycle ------------------------
EXTENDS GenerationLifecycle, TLC

Claimants == Permutations(Tokens)
=============================================================================
