--------------------------- MODULE MCAddressCache ---------------------------
(***************************************************************************)
(* An instance of AddressCache for TLC: an address, the same in mixed      *)
(* case, the same with the prefix 0X (which addressRegex does not match),  *)
(* and another address.                                                    *)
(***************************************************************************)
EXTENDS AddressCache

CONSTANTS lower, mixed, other, bad0X

MCAddresses == {lower, mixed, other, bad0X}
MCWellFormed == {lower, mixed, other}
MCLowerCase == [a \in MCAddresses |-> IF a = other THEN other ELSE lower]
=============================================================================
