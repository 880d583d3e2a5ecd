---------------------------- MODULE MCNinaSockets ----------------------------
(* NinaSockets with the constants TLC is given.                            *)
EXTENDS NinaSockets, TLC

PhoneSymmetry == Permutations(Phones)

==============================================================================
