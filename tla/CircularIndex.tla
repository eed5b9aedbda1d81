---------------------------- MODULE CircularIndex ----------------------------
(***************************************************************************)
(* The w-bit index arithmetic of concurrentqueue.h.  HalfRange is 2^(w-1), *)
(* so an index_t holds a value modulo 2 * HalfRange.                       *)
(*                                                                         *)
(* The models keep every counter unwrapped and wrap it where the code      *)
(* looks at it.  Addition commutes with wrapping, so comparing, masking or *)
(* dividing the wrapped value is all that the width can change.            *)
(***************************************************************************)
EXTENDS Integers

CONSTANTS HalfRange,     \* 2^(w-1) for a w-bit index_t
          BLOCK_SIZE     \* elements per block

ASSUME HalfRangeAssumption == HalfRange \in Nat \ {0}
ASSUME BlockSizeAssumption == BLOCK_SIZE \in Nat \ {0}

IndexRange == 2 * HalfRange

\* The value an index_t holds for the unwrapped counter i.
Wrap(i) == i % IndexRange

\* a precedes b on the circle: the wrapped difference lies in the upper half.
circular_less_than(a, b) == Wrap(a - b) > HalfRange

\* A wrapped difference read back as the signed type of the same width.
Signed(i) == IF Wrap(i) >= HalfRange THEN Wrap(i) - IndexRange ELSE Wrap(i)

\* index & ~(BLOCK_SIZE - 1), and index & (BLOCK_SIZE - 1).
BlockBase(i) == i - (i % BLOCK_SIZE)
BlockOffset(i) == i % BLOCK_SIZE

\* Number of blocks between two block bases, sign preserved across a wrap.
BlockDistance(base, headBase) == Signed(base - headBase) \div BLOCK_SIZE

==============================================================================
