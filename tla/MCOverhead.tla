---------------------------- MODULE MCOverhead ----------------------------
(* Overhead is a set of functions: this module walks through arguments for *)
(* them, one size at a time and one element of a value at a time.          *)
EXTENDS Overhead

CONSTANTS
  MaxSize,      \* the scalar functions are checked for 0 .. MaxSize
  Lengths,      \* the lengths an element may have
  MaxElements,  \* how many elements a value may have
  KeyLengths    \* the lengths a key may have

ASSUME MaxSizeAssumption == MaxSize \in 0 .. jemallocSizeClasses(81)
ASSUME LengthsAssumption == Lengths \subseteq Nat /\ KeyLengths \subseteq Nat
ASSUME MaxElementsAssumption == MaxElements \in Nat

VARIABLES size, elements

vars == <<size, elements>>

Init == size = 0 /\ elements = <<>>

NextSize == size < MaxSize /\ size' = size + 1 /\ UNCHANGED elements

AddElement ==
  /\ size = 0
  /\ Len(elements) < MaxElements
  /\ \E len \in Lengths : elements' = Append(elements, len)
  /\ UNCHANGED size

Next == (elements = <<>> /\ NextSize) \/ AddElement

Spec == Init /\ [][Next]_vars

\* MallocOverhead: the bisection finds the class an allocation really takes.
MallocFindsLeastClass == MallocIsLeastClass(size)

\* FieldBucketOverhead: the tables of a dictionary have room for its entries.
TablesHoldAll == BucketsHoldAll(size)

\* The MemOverhead methods: more elements or a longer key never cost less.
AddingNeverShrinks ==
  \A key \in KeyLengths, len \in Lengths : EstimatesGrow(key, elements, len)

\* The MemOverhead methods: an estimate is at least the bytes of the content, but
\* for a list, whose estimate leaves out its last ziplist and the one element
\* that closed each ziplist before it, and nothing else.
ContentIsCovered ==
  \A key \in KeyLengths, longest \in Lengths : EstimatesCoverContent(key, elements, longest)
=============================================================================
