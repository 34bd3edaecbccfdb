---------------------------- MODULE CommandResults ----------------------------
(***************************************************************************)
(* CommandResult (commandresult.go): the typed values a driver returns,    *)
(* kept as bytes, and the readings made of them, whose values are texts.   *)
(* A text is represented by what it denotes.                               *)
(***************************************************************************)
EXTENDS Integers, Sequences

CONSTANTS
    Byte,     \* the number of values of a byte: 256 in the code
    Strings,  \* the texts a driver may return
    Times,    \* the origins a driver may give, 0 for none
    Now       \* the present second

ASSUME ResultAssumption ==
    /\ Byte \in Nat \ {0} /\ Byte % 2 = 0 /\ Times \subseteq Nat /\ Now \in Nat

VARIABLES
    meant,   \* history: the type and the value the driver put into a result
    reading  \* the reading made of it

resultVars == <<meant, reading>>

Unsigned == {"Uint8", "Uint16", "Uint32", "Uint64"}
Signed == {"Int8", "Int16", "Int32", "Int64"}
Floats == {"Float32", "Float64"}
Numeric == Unsigned \cup Signed \cup Floats

\* Bytes of each numeric type.
Width == [t \in Numeric |->
            CASE t \in {"Uint8", "Int8"} -> 1
              [] t \in {"Uint16", "Int16"} -> 2
              [] t \in {"Uint32", "Int32", "Float32"} -> 4
              [] t \in {"Uint64", "Int64", "Float64"} -> 8]

\* The weight of a digit, and the number of values of a type.
Weight[k \in 0 .. 8] == IF k = 0 THEN 1 ELSE Byte * Weight[k - 1]
Size(t) == Weight[Width[t]]

\* The values of each type, of a float its bit pattern.
ValuesOf(t) == CASE t = "Bool" -> BOOLEAN
                 [] t = "String" -> Strings
                 [] t \in Unsigned \cup Floats -> 0 .. Size(t) - 1
                 [] t \in Signed -> -(Size(t) \div 2) .. Size(t) \div 2 - 1

-----------------------------------------------------------------------------
\* binary.Write with big-endian order; a negative number as its complement.
BigEndian(w, v) == [k \in 1 .. w |-> (v \div Weight[w - k]) % Byte]

NewBoolResult(o, v) ==
    [type |-> "Bool", bytes |-> <<>>, string |-> "", bool |-> v, origin |-> o]
NewStringResult(o, v) ==
    [type |-> "String", bytes |-> <<>>, string |-> v, bool |-> FALSE,
     origin |-> o]
NewNumericResult(t, o, v) ==
    [type |-> t, bytes |-> BigEndian(Width[t], v), string |-> "",
     bool |-> FALSE, origin |-> o]

NewResult(t, o, v) == CASE t = "Bool" -> NewBoolResult(o, v)
                        [] t = "String" -> NewStringResult(o, v)
                        [] t \in Numeric -> NewNumericResult(t, o, v)

\* Mutant of BinaryRead: the sign bit counts as a digit.
BinaryReadUnsigned(bytes, t) ==
    LET n[k \in 0 .. Width[t]] == IF k = 0 THEN 0 ELSE n[k - 1] * Byte + bytes[k]
    IN  n[Width[t]]

\* binary.Read of the first bytes as a number.
BinaryRead(bytes, t) ==
    LET n[k \in 0 .. Width[t]] == IF k = 0 THEN 0 ELSE n[k - 1] * Byte + bytes[k]
        m == n[Width[t]]
    IN  IF t \in Signed /\ m >= Size(t) \div 2 THEN m - Size(t) ELSE m

Short(cr) == Len(cr.bytes) < Width[cr.type]

\* For an integer the text of a failed read is replaced by that of zero; for a
\* float the error is formatted, the value nowhere.
toString(cr) ==
    CASE cr.type = "Bool" -> [kind |-> "bool", of |-> cr.bool]
      [] cr.type = "String" -> [kind |-> "string", of |-> cr.string]
      [] cr.type \in Floats -> [kind |-> "error", of |-> Short(cr)]
      [] OTHER -> [kind |-> "number",
                   of |-> IF Short(cr) THEN 0 ELSE BinaryRead(cr.bytes, cr.type)]

\* A result without origin is given the present second.
Reading(cr) ==
    [value |-> toString(cr),
     origin |-> IF cr.origin > 0 THEN cr.origin ELSE Now]

-----------------------------------------------------------------------------
Nothing == [type |-> "none"]

ResultInit == meant = Nothing /\ reading = Nothing

\* The driver makes its result with the constructor of its type.
HandleConstructed == \E t \in Numeric \cup {"Bool", "String"}, o \in Times :
  \E v \in ValuesOf(t) :
    /\ meant' = [type |-> t, value |-> v]
    /\ reading' = Reading(NewResult(t, o, v))

\* The driver fills in the fields, as the example does, here with the bytes of
\* another type.
HandleFilled == \E t, u \in Unsigned \cup Signed :
  \E v \in ValuesOf(u) :
    /\ meant' = Nothing
    /\ reading' = Reading([NewNumericResult(u, 0, v) EXCEPT !.type = t])

ResultNext == reading = Nothing /\ (HandleConstructed \/ HandleFilled)

ResultSpec == ResultInit /\ [][ResultNext]_resultVars

\* The text of a reading denotes the value the driver put in, for every type
\* but the floats: through bytes, widths and signs nothing is lost.
ReadingExact == meant # Nothing /\ meant.type \notin Floats =>
    /\ reading.value.kind = CASE meant.type = "Bool" -> "bool"
                              [] meant.type = "String" -> "string"
                              [] OTHER -> "number"
    /\ reading.value.of = meant.value

ResultTypeOK == reading = Nothing \/
    /\ reading.value.kind \in {"bool", "string", "number", "error"}
    /\ reading.origin \in Times \cup {Now}
=============================================================================
