-------------------------------- MODULE Glob --------------------------------
(***************************************************************************)
(* The patterns of SCAN's MATCH option, as Redis matches them: * stands for *)
(* any characters, ? for any one, [...] for one of those in brackets and    *)
(* [^...] for any other one, and \ takes the next character literally.      *)
(* Ranges and escapes inside brackets are left out.                         *)
(*                                                                          *)
(* A string is the sequence of its characters.                              *)
(***************************************************************************)
EXTENDS Naturals, Sequences, FiniteSets

CONSTANT Char   \* the characters, those that mean something in a pattern included

ASSUME CharAssumption == {"*", "?", "[", "\\"} \subseteq Char

Text == Seq(Char)

\* What a pattern begins with is one piece: a character, an escaped one, or
\* brackets, which the end of the pattern closes when nothing else does.
Escapes(p) == Head(p) = "\\" /\ Len(p) > 1
Closing(p) == {i \in DOMAIN p : p[i] = "]"}
InBrackets(p) == {i \in 2 .. Len(p) : \A j \in Closing(p) : i < j}
Brackets(p) == 1 + Cardinality(InBrackets(p)) + (IF Closing(p) = {} THEN 0 ELSE 1)

PieceLen(p) ==
  CASE Head(p) = "["  -> Brackets(p)
    [] Escapes(p)     -> 2
    [] OTHER          -> 1

AfterPiece(p) == SubSeq(p, PieceLen(p) + 1, Len(p))

Negated(p) == 2 \in InBrackets(p) /\ p[2] = "^"
Members(p) == {p[i] : i \in InBrackets(p) \ (IF Negated(p) THEN {2} ELSE {})}

\* The piece at the beginning of p, which is not a *, accepts character c.
Accepts(p, c) ==
  CASE Head(p) = "?"  -> TRUE
    [] Head(p) = "["  -> (c \in Members(p)) # Negated(p)
    [] Escapes(p)     -> c = p[2]
    [] OTHER          -> c = Head(p)

Matches(pattern, string) ==
  LET match[x \in Text \X Text] ==
        LET p == x[1]
            s == x[2]
        IN IF p = <<>> THEN s = <<>>
           ELSE IF Head(p) = "*"
           THEN match[<<Tail(p), s>>] \/ (s # <<>> /\ match[<<p, Tail(s)>>])
           ELSE s # <<>> /\ Accepts(p, Head(s)) /\ match[<<AfterPiece(p), Tail(s)>>]
  IN match[<<pattern, string>>]

\* A text that matches itself only.
Literal(text) == \A i \in DOMAIN text : text[i] \notin {"*", "?", "[", "\\"}
=============================================================================
