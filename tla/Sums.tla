-------------------------------- MODULE Sums --------------------------------
(***************************************************************************)
(* The ledgers of the Leopold contracts keep running totals (uint256 in    *)
(* the bond escrow, encrypted euint64 in the vault) next to the mappings   *)
(* they are the totals of.  Sum(f) is the total of a mapping f from a      *)
(* finite set to natural numbers.                                          *)
(*                                                                         *)
(* It is defined by counting one token <<x, i>> per unit that f gives to   *)
(* x, rather than by a fold: what one update of a mapping does to its      *)
(* total then follows from the library's facts about cardinality, so the   *)
(* proofs need no induction over data (see VaultProofs).                   *)
(***************************************************************************)
EXTENDS Naturals, FiniteSets

\* The units of f, each tagged with the argument it belongs to.
Tokens(f) == UNION {{x} \X (1..f[x]) : x \in DOMAIN f}

\* The sum of f[x] over the domain of f.
Sum(f) == Cardinality(Tokens(f))
=============================================================================
