--------------------------- MODULE MCRdbPipeline ---------------------------
(* Instances of RdbPipeline for TLC. *)
EXTENDS RdbPipeline

CONSTANTS a, b

Key(u, c) == [op |-> "key", user |-> u, cost |-> c]
Expire(at) == [op |-> "expire", at |-> at]
Op(name) == [op |-> name]

\* Every body of at most three opcodes ...
Bodies(items) == UNION {[1 .. n -> items] : n \in 0 .. 3}

MCItems == {Key(a, 50), Key(b, 70), Key(NoUser, 10), Expire("future"), Expire("now"),
            Op("lua")}

\* ... that ends well, is truncated, or meets something unreadable, and one
\* that sets the other fields.
MCFiles ==
  {body \o end : body \in Bodies(MCItems), end \in {<<Op("eof")>>, <<>>, <<Op("bad")>>}}
  \cup {<<Op("other"), Expire("past"), Op("other"), Key(a, 50), Op("eof")>>}

\* A file without any expiry.
MCNoExpiryFiles == {<<Key(a, 50), Key(b, 70), Op("eof")>>}

\* 0 on arm64; on amd64 2^63, scaled down to something TLC can add to.
MCNaN == {0, 1000000}
=============================================================================
