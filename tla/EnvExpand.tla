------------------------------ MODULE EnvExpand ------------------------------
(***************************************************************************)
(* expand_text of src/src/env_expand.rs: $$, ${NAME} and ${NAME:-default}   *)
(* in one argument.  A text is a sequence of characters.                    *)
(***************************************************************************)
EXTENDS Naturals, Sequences

CONSTANTS Chars,     \* the characters
          Letters,   \* what a name begins with
          Digits,    \* what it may go on with
          Values     \* the variables that are set, and their values

(* The characters that have a meaning. *)
Dollar == "$"
Open   == "{"
Close  == "}"
Colon  == ":"
Dash   == "-"
Marks  == {Dollar, Open, Close, Colon, Dash}

ASSUME NamesAssumption == /\ Marks \cup Letters \cup Digits \subseteq Chars
                          /\ Marks \cap (Letters \cup Digits) = {}

ASSUME ValuesAssumption == \A n \in DOMAIN Values : Values[n] \in Seq(Chars)

Done(text) == [ok |-> TRUE, text |-> text]
Failed     == [ok |-> FALSE, text |-> <<>>]

Then(text, result) == IF result.ok THEN Done(text \o result.text) ELSE Failed

(* What comes before and after a place in a text. *)
Before(text, i) == SubSeq(text, 1, i - 1)
After(text, i)  == SubSeq(text, i + 1, Len(text))

(* The first of some places, 0 if there are none. *)
FirstOf(places) == IF places = {} THEN 0
                   ELSE CHOOSE i \in places : \A j \in places : i <= j

(* validate_env_name *)
ValidName(name) ==
    /\ name # <<>> /\ name[1] \in Letters
    /\ \A i \in DOMAIN name : name[i] \in Letters \cup Digits

(* split_once(":-") *)
DefaultAt(expr) ==
    FirstOf({i \in 1 .. Len(expr) - 1 : expr[i] = Colon /\ expr[i + 1] = Dash})

ExpandExpression(expr) ==
    LET at   == DefaultAt(expr)
        name == IF at = 0 THEN expr ELSE Before(expr, at)
    IN  IF ~ValidName(name) THEN Failed
        ELSE IF name \in DOMAIN Values /\ (at = 0 \/ Values[name] # <<>>)
          THEN Done(Values[name])
        ELSE IF at # 0 THEN Done(After(expr, at + 1))
        ELSE Failed

-----------------------------------------------------------------------------
(* The loop of expand_text takes part after part from the characters that   *)
(* are left.                                                                *)

Peeks(rest, c) == Len(rest) > 1 /\ rest[1] = Dollar /\ rest[2] = c

(* Mutated: the last } ends an expression. *)
LastEnd(rest) ==
    LET ends == {i \in DOMAIN rest : rest[i] = Close} IN
    IF ends = {} THEN 0 ELSE CHOOSE i \in ends : \A j \in ends : j <= i

(* The inner loop: to the first }. *)
End(rest) == FirstOf({i \in DOMAIN rest : rest[i] = Close})

(* How many characters the first part has. *)
Size(rest) ==
    IF Peeks(rest, Dollar) THEN 2
    ELSE IF ~Peeks(rest, Open) THEN 1
    ELSE IF End(rest) = 0 THEN Len(rest)
    ELSE End(rest)

(* What it becomes. *)
Meaning(rest) ==
    IF Peeks(rest, Dollar) THEN Done(<<Dollar>>)
    ELSE IF ~Peeks(rest, Open) THEN Done(<<rest[1]>>)
    ELSE IF End(rest) = 0 THEN Failed
    ELSE ExpandExpression(SubSeq(rest, 3, End(rest) - 1))

Turn(s) ==
    IF s.rest = <<>> \/ ~s.result.ok THEN s
    ELSE [rest   |-> After(s.rest, Size(s.rest)),
          result |-> Then(s.result.text, Meaning(s.rest))]

Turns(raw) ==
    LET turn[n \in 0 .. Len(raw)] ==
            IF n = 0 THEN [rest |-> raw, result |-> Done(<<>>)]
            ELSE Turn(turn[n - 1])
    IN  turn

(* Every turn takes a character at least. *)
ExpandText(raw) == Turns(raw)[Len(raw)].result
=============================================================================
