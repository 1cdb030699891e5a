------------------------------ MODULE MCString ------------------------------
(* Small instances of StringStorage for TLC: "x" is an ordinary character, *)
(* "_" white space, "c" a control character that is not, "0" the '\0'.     *)
EXTENDS StringProperties, TLC

(* Texts for LocalCapacity = 3: the first is held in the object.           *)
MixedTexts ==
    [c \in {"blank", "mixed"} |->
        CASE c = "blank" -> <<"_", "_">>
          [] c = "mixed" -> <<"_", "x", "c", "_">>]

(* Texts with a '\0' inside, as the digest of a message can have.          *)
NulTexts ==
    [c \in {"short", "inner", "padded"} |->
        CASE c = "short"  -> <<"_", "0">>
          [] c = "inner"  -> <<"x", "0", "_", "x">>
          [] c = "padded" -> <<"_", "_", "x", "0", "_">>]

(* The places an object can be in are interchangeable.                     *)
Symmetry == Permutations(Strings)
=============================================================================
