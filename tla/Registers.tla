----------------------------- MODULE Registers -----------------------------
(***************************************************************************)
(* internal/modbus/regs.go: how a value is laid out in 16-bit registers.    *)
(*                                                                         *)
(* Base is the number of values of a byte, so a register holds a number     *)
(* below Base^2; every width follows from it.  A float is handled as its    *)
(* bit pattern, an unsigned number.  An integer to encode is given in       *)
(* halves, so that truncation shows.                                        *)
(***************************************************************************)
EXTENDS Integers, Sequences

CONSTANTS Base,        \* values of a byte: 256
          NotNumber    \* NaN

ASSUME RegistersAssumption == Base \in Nat /\ Base > 1 /\ Base % 2 = 0 /\ NotNumber \notin Int

ByteOrders == {"ABCD", "DCBA", "BADC", "CDAB"}
DataTypes == {"int16", "uint16", "int32", "uint32", "float32"}

Words(t) == IF t \in {"int32", "uint32", "float32"} THEN 2 ELSE 1

\* Number of values of a type, and its range.
Size(t) == IF Words(t) = 2 THEN Base * Base * Base * Base ELSE Base * Base
Lowest(t) == IF t \in {"int16", "int32"} THEN -(Size(t) \div 2) ELSE 0
Highest(t) == Lowest(t) + Size(t) - 1

Bytes(w) == <<w \div Base, w % Base>>
Word(hi, lo) == hi * Base + lo

\* Where order o puts the n bytes of a value: each order is its own inverse.
Places(o, n) ==
    CASE n = 2 /\ o \in {"DCBA", "BADC"} -> <<2, 1>>
      [] n = 4 /\ o = "DCBA" -> <<4, 3, 2, 1>>
      [] n = 4 /\ o = "BADC" -> <<2, 1, 4, 3>>
      [] n = 4 /\ o = "CDAB" -> <<3, 4, 1, 2>>
      [] OTHER -> [i \in 1..n |-> i]

\* The bytes of a value in logical (ABCD) order, and back to registers.
canonical(o, regs) ==
    LET n == 2 * Len(regs)
    IN [i \in 1..n |-> LET k == Places(o, n)[i] IN Bytes(regs[(k + 1) \div 2])[2 - (k % 2)]]

fromCanonical(o, b) ==
    LET p == Places(o, Len(b))
    IN [i \in 1..(Len(b) \div 2) |-> Word(b[p[2 * i - 1]], b[p[2 * i]])]

\* Numbers of type t as unsigned numbers, and back (two's complement).
Unsigned(t, n) == n % Size(t)
Signed(t, n) == IF n > Highest(t) THEN n - Size(t) ELSE n

\* The number whose bytes are b.
Number(b) == IF Len(b) = 2 THEN Word(b[1], b[2]) ELSE Word(Word(Word(b[1], b[2]), b[3]), b[4])

Decode(t, o, regs) == Signed(t, Number(canonical(o, regs)))

\* clamp: what a value is as a number of type t; v counts halves.
clamp(t, v) ==
    IF v = NotNumber THEN 0
    ELSE IF v < 2 * Lowest(t) THEN Lowest(t)
    ELSE IF v > 2 * Highest(t) THEN Highest(t)
    ELSE IF v >= 0 THEN v \div 2 ELSE -((-v) \div 2)

Encode(t, o, v) ==
    LET n == Unsigned(t, IF t = "float32" THEN v ELSE clamp(t, v))
        last == 2 * Words(t)
    IN fromCanonical(o, [i \in 1..last |-> (n \div Base^(last - i)) % Base])
=============================================================================
