--------------------------------- MODULE Text ---------------------------------
(***************************************************************************)
(* Texts and identifiers as far as the SDK looks into them: a text is a    *)
(* sequence of symbols, and a symbol is any number of characters that no   *)
(* rule of the code tells apart.  The operators are the methods of str     *)
(* that idempotency.py and _contract/models.py call.                       *)
(***************************************************************************)
EXTENDS Naturals, Sequences, FiniteSets, SequencesExt, FiniteSetsExt, Functions

CONSTANTS
    Symbols,
    Width,       \* how many characters each symbol stands for
    LowerCase,   \* what str.lower makes of each symbol
    Spaces,      \* the symbols made of white space
    Safe,        \* the symbols made of [A-Za-z0-9._:-]
    Plain        \* the symbols made of [A-Za-z0-9_-]

(* In lower case a text gets no longer: of all characters only U+0130      *)
(* becomes two, so no symbol has it.                                       *)
ASSUME SymbolsAssumption ==
    /\ Width \in [Symbols -> Nat \ {0}]
    /\ LowerCase \in [Symbols -> Symbols]
    /\ \A symbol \in Symbols : Width[LowerCase[symbol]] <= Width[symbol]
    /\ Plain \subseteq Safe
    /\ Safe \subseteq Symbols
    /\ Spaces \subseteq Symbols \ Safe
    /\ "-" \in Plain /\ Width["-"] = 1

Text == Seq(Symbols)

(* len of every prefix of s, and of s itself *)
Lengths(s) ==
    LET n[i \in 0 .. Len(s)] == IF i = 0 THEN 0 ELSE n[i - 1] + Width[s[i]]
    IN  n

Length(s) == Lengths(s)[Len(s)]

(* s.lower() *)
Lower(s) == [i \in DOMAIN s |-> LowerCase[s[i]]]

(* s.strip(): what is left between the first and the last symbol outside C *)
Strip(s, C) ==
    LET inner == {i \in DOMAIN s : s[i] \notin C}
    IN  IF inner = {} THEN <<>> ELSE SubSeq(s, Min(inner), Max(inner))
===============================================================================
