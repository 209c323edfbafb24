----------------------------- MODULE ExpandScan -----------------------------
(***************************************************************************)
(* The ${...} references in a value marked with --expand: scanRefs and its *)
(* three users, which vet a value (checkExpand), substitute it on the way  *)
(* out (expandValue) and say in a listing what it refers to (expandRefs).  *)
(*                                                                         *)
(* A value is a sequence of symbols; a name in the closed set is one       *)
(* symbol.  A text is a sequence of symbols too.  Nothing happens here:    *)
(* the properties are about any value and any texts there may be.          *)
(***************************************************************************)
EXTENDS Integers, Sequences, FiniteSetsExt, SequencesExt

CONSTANTS
    Dir, Home, User,  \* the closed set: SCHAIN_DIR, HOME and USER
    Other             \* symbols that mean nothing

Names == {Dir, Home, User}
Symbols == {"$", "{", "}"} \cup Names \cup Other

Failed == <<"${...} is not set">>

ASSUME SymbolsAssumption ==
    /\ Names \cap (Other \cup {"$", "{", "}"}) = {}
    /\ Other \cap {"$", "{", "}"} = {}
    /\ Failed[1] \notin Symbols

VARIABLES
    value,   \* a value
    text     \* what each name stands for where it is injected, <<>> if unset
-----------------------------------------------------------------------------
Opening(v, i) == i < Len(v) /\ v[i] = "$" /\ v[i + 1] = "{"
Closings(v, i) == {j \in i + 2 .. Len(v) : v[j] = "}"}

\* (defect) the scan goes on inside a reference
ScanInside(v) ==
    LET from[i \in 1 .. Len(v) + 1] ==
            IF i > Len(v) THEN <<>>
            ELSE IF ~Opening(v, i) THEN from[i + 1]
            ELSE IF Closings(v, i) = {} THEN <<>>
            ELSE <<[start |-> i, end |-> Min(Closings(v, i))]>> \o from[i + 1]
    IN  from[1]

\* scanRefs: the references of v, in order, without overlap.
Scan(v) ==
    LET from[i \in 1 .. Len(v) + 1] ==
            IF i > Len(v) THEN <<>>
            ELSE IF ~Opening(v, i) THEN from[i + 1]
            ELSE IF Closings(v, i) = {} THEN <<>>
            ELSE LET j == Min(Closings(v, i))
                 IN  <<[start |-> i, end |-> j]>> \o from[j + 1]
    IN  from[1]

Name(v, ref) == SubSeq(v, ref.start + 2, ref.end - 1)

\* expandOne: is the name one that schain substitutes?
Known(name) == Len(name) = 1 /\ name[1] \in Names

\* What a reference stands for.
Got(v, ref) == text[Name(v, ref)[1]]

\* What is written when ref is met: what was between, then its text.
Written(v, b, ref) ==
    [out |-> b.out \o SubSeq(v, b.last + 1, ref.start - 1) \o Got(v, ref),
     last |-> ref.end]

\* (defect) what follows the last reference is dropped
ExpandTailless(v) ==
    LET refs == Scan(v)
        upto[k \in 0 .. Len(refs)] ==
            IF k = 0 THEN [out |-> <<>>, last |-> 0]
            ELSE IF ~Known(Name(v, refs[k])) THEN upto[k - 1]
            ELSE Written(v, upto[k - 1], refs[k])
    IN  IF \E k \in DOMAIN refs :
              Known(Name(v, refs[k])) /\ Got(v, refs[k]) = <<>> THEN Failed
        ELSE IF upto[Len(refs)].last = 0 THEN v
        ELSE upto[Len(refs)].out

\* expandValue: what is between the references is copied as it is, and
\* nothing at all comes of a value with a name that stands for nothing.
Expand(v) ==
    LET refs == Scan(v)
        upto[k \in 0 .. Len(refs)] ==
            IF k = 0 THEN [out |-> <<>>, last |-> 0]
            ELSE IF ~Known(Name(v, refs[k])) THEN upto[k - 1]
            ELSE Written(v, upto[k - 1], refs[k])
        end == upto[Len(refs)]
    IN  IF \E k \in DOMAIN refs :
              Known(Name(v, refs[k])) /\ Got(v, refs[k]) = <<>> THEN Failed
        ELSE end.out \o SubSeq(v, end.last + 1, Len(v))

\* expandRefs, as the set of names listed.
Listed(v) ==
    {n \in Names : \E ref \in ToSet(Scan(v)) : Name(v, ref) = <<n>>}

\* (defect) one known name is enough
AcceptsAny(v) == \E ref \in ToSet(Scan(v)) : Known(Name(v, ref))

\* checkExpand: there is a reference, and every one is known.
Accepts(v) ==
    Scan(v) # <<>> /\ \A ref \in ToSet(Scan(v)) : Known(Name(v, ref))
-----------------------------------------------------------------------------
(* Properties                                                              *)

\* The values and texts there can be.
ValuesAndTexts ==
    value \in Seq(Symbols) /\ text \in [Names -> Seq(Symbols)]

\* The positions of v, from p on, where a reference begins and ends later.
Begun(v, p) == {i \in p .. Len(v) : Opening(v, i) /\ Closings(v, i) # {}}

\* The reference definition: what a value says from p on is a part without a
\* reference, then the first reference there is, then what it says from there.
Meaning(v) ==
    LET of[p \in 1 .. Len(v) + 1] ==
            LET i == Min(Begun(v, p))
                j == Min(Closings(v, i))
                name == SubSeq(v, i + 2, j - 1)
                got == IF \E n \in Names : name = <<n>>
                       THEN text[name[1]] ELSE SubSeq(v, i, j)
            IN  IF Begun(v, p) = {} THEN SubSeq(v, p, Len(v))
                ELSE IF got = <<>> \/ of[j + 1] = Failed THEN Failed
                ELSE SubSeq(v, p, i - 1) \o got \o of[j + 1]
    IN  of[1]

\* A value means what it says: "a name outside those three is left exactly as
\* written" (README.md:152), a bare $ starts nothing, each reference is replaced
\* once and its text is not looked at again, whatever is in it.
ExpandsAsWritten == Expand(value) = Meaning(value)

\* No text has a $, or begins with a {: it makes no reference with what is
\* around it.
Plain ==
    \A n \in Names : \A k \in DOMAIN text[n] :
        text[n][k] # "$" /\ (k = 1 => text[n][k] # "{")

\* checkExpand keeps "a ${...} left sitting in a child's environment"
\* (expand.go:126) from being stored: a value it accepted comes out changed
\* and without a reference, or not at all, if the texts bring none in.
AcceptedIsResolved ==
    Accepts(value) /\ Plain =>
        Expand(value) # value /\ Scan(Expand(value)) = <<>>

\* "A key whose stored value differs from what a child sees says so"
\* (expand.go:109): the listing names the references, all of them and no
\* other, that a change of what they stand for would change.
ListedIsExpanded ==
    \A n \in Names :
        n \in Listed(value) <=>
            \E i, j \in 1 .. Len(value) :
                /\ i + 3 = j /\ SubSeq(value, i, j) = <<"$", "{", n, "}">>
                /\ \A h \in 1 .. i - 1 :
                      Opening(value, h) =>
                          \E k \in h + 2 .. i - 1 : value[k] = "}"

\* set --expand, ls and the substitution go by the same scan (expand.go:60):
\* what one of them takes for a reference the others do too, so what is vetted
\* and what is listed is what a child sees.
CallersAgree == AcceptedIsResolved /\ ListedIsExpanded
=============================================================================
