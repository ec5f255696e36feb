--------------------------- MODULE MCHandleRegistry ---------------------------
(* HandleRegistry on a few addresses: objects differ only in their class, so *)
(* the addresses are interchangeable.                                        *)
EXTENDS HandleRegistry, TLC

AddressSymmetry == Permutations(Address)
=============================================================================
