---------------------------- MODULE MCExpandScan ----------------------------
(***************************************************************************)
(* ExpandScan on the values that can be typed, symbol by symbol.           *)
(***************************************************************************)
EXTENDS ExpandScan

CONSTANTS
    Typed,   \* bound: the symbols used
    Length   \* bound: symbols in a value

ASSUME TypedAssumption == Typed \subseteq Symbols
ASSUME LengthAssumption == Length \in Nat

vars == <<value, text>>

\* HOME may be unset, have an odd character in it, or half a reference.
Init ==
    /\ value = <<>>
    /\ text \in [Names -> {<<>>, <<"h">>, <<"}">>, <<"$", "{">>}]
    /\ text[Dir] = <<"h">> /\ text[User] = <<"h">>

Type(c) ==
    /\ Len(value) < Length
    /\ value' = Append(value, c)
    /\ UNCHANGED text

Next == \E c \in Typed : Type(c)

Spec == Init /\ [][Next]_vars
=============================================================================
