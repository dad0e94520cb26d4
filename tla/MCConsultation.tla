--------------------------- MODULE MCConsultation ---------------------------
(* Small instances of Consultation, asked of both evaluators, for TLC.     *)
(* Strings are model values, so that TLC can compare them with numbers.    *)
EXTENDS EdgeParity

CONSTANTS gold, Gold, iron

(* One fact without a default, one with. *)
MCFactSpecs ==
  [amount |-> Required("number"), tier |-> Defaults(Text(iron))]

(* "note" is not declared. *)
MCNames == {"amount", "tier", "note"}

(* 3 is beyond MaxInt64. *)
MCValues == {Number(0), Number(3), Text(Gold)}

MCNormStr(s) == IF s = Gold THEN gold ELSE s

Large == Num("amount", "gte", 1)
IsGold == Str("tier", "eq", gold)

Policies(id, priorities, overrides) ==
  [id         : {id},
   kind       : {"approve"},
   priority   : priorities,
   conditions : {<<Large>>, <<IsGold>>, <<IsGold, Large>>},
   overrides  : overrides]

(* Overrides a -> b -> c -> a and b -> a, cycles excluded by Integrity. *)
MCBundles ==
  {ps \in Policies("a", {1, 2}, {{}, {"b"}})
           \X Policies("b", {1, 2}, {{}, {"a"}, {"c"}})
           \X Policies("c", {1}, {{}, {"a"}}) : Integrity(ps)}
=============================================================================
