----------------------------- MODULE BasicTypes -----------------------------
(***************************************************************************)
(* The basic types of D-Bus as libultrabus has them: dbus_basic<T> for the *)
(* numbers and dbus_string, dbus_opath, dbus_signature for the texts.      *)
(*                                                                         *)
(* A type is its code in a signature.  A number is an integer of the width *)
(* Bits gives it; the widths may be scaled down as long as their order is  *)
(* kept, because only that decides the conversions of C++.  A double is    *)
(* one of the integers.  A text is a natural number: 0 is the empty one, 1 *)
(* is "/", and which are paths or signatures is a constant.                *)
(*                                                                         *)
(* Every value is a record of one shape, so that containers can hold any:  *)
(*   kind   "basic", "array", "struct", "dict", "entry", "variant"         *)
(*   sig    its signature, a sequence of codes                             *)
(*   val    the number or text of a basic value                            *)
(*   items  what a container holds                                         *)
(***************************************************************************)
EXTENDS Integers, Sequences, SequencesExt

CONSTANTS Bits,             \* of each integer type
          ValidPaths,       \* the texts dbus_validate_path accepts
          ValidSignatures   \* those dbus_signature_validate accepts

Integral == {"y", "n", "q", "i", "u", "x", "t"}
Unsigned == {"y", "q", "u", "t"}
Numeric == Integral \cup {"b", "d", "h"}
Textual == {"s", "o", "g"}
BasicTypeCodes == Numeric \cup Textual

ASSUME BasicTypesAssumption ==
  /\ Bits \in [Integral -> 1..64]
  /\ Bits["y"] < Bits["n"] /\ Bits["n"] = Bits["q"] /\ Bits["q"] < Bits["i"]
  /\ Bits["i"] = Bits["u"] /\ Bits["u"] < Bits["x"] /\ Bits["x"] = Bits["t"]
  /\ ValidPaths \subseteq Nat \ {0} /\ 1 \in ValidPaths
  /\ ValidSignatures \subseteq Nat /\ 0 \in ValidSignatures

Basic(t, n) == [kind |-> "basic", sig |-> <<t>>, val |-> n, items |-> <<>>]
TypeCode(v) == v.sig[1]
IsNumber(v) == v.kind = "basic" /\ TypeCode(v) \in Numeric
IsText(v) == v.kind = "basic" /\ TypeCode(v) \in Textual

\* What an operation that throws gives.
Thrown == [kind |-> "thrown", sig |-> <<>>, val |-> 0, items |-> <<>>]

\* The default of each type.
DefaultNumber(t) == Basic(t, 0)
DefaultDescriptor == Basic("h", -1)
DefaultString == Basic("s", 0)
DefaultPath == Basic("o", 1)
DefaultSignature == Basic("g", 0)

create_dbus_basic(t) ==
  CASE t = "h" -> DefaultDescriptor
    [] t = "s" -> DefaultString
    [] t = "o" -> DefaultPath
    [] t = "g" -> DefaultSignature
    [] OTHER -> DefaultNumber(t)

-----------------------------------------------------------------------------
(* Numbers *)

\* The conversion of C++ to an arithmetic type; a descriptor is an int.
Convert(t, n) ==
  CASE t = "b" -> IF n = 0 THEN 0 ELSE 1
    [] t = "d" -> n
    [] t \in Unsigned -> n % 2^Bits[t]
    [] OTHER -> LET w == Bits[IF t = "h" THEN "i" ELSE t]
                IN  ((n + 2^(w - 1)) % 2^w) - 2^(w - 1)

\* operator= with another value: any number is converted ...
CopyNumber(dst, src) ==
  IF IsNumber(src) THEN [dst EXCEPT !.val = Convert(TypeCode(dst), src.val)] ELSE Thrown

\* ... and a move is a copy, the source keeps its value.
MoveNumber(dst, src) ==
  IF IsNumber(src) THEN [dst EXCEPT !.val = Convert(TypeCode(dst), src.val)] ELSE Thrown

\* A descriptor is only assigned a descriptor.
CopyDescriptor(dst, src) == IF src.sig = <<"h">> THEN src ELSE Thrown

\* The type two operands are converted to before they are compared: narrow
\* ones to int, then to the later of int, unsigned, 64 bits, unsigned 64 bits.
Promoted(t) == IF t \in {"b", "y", "n", "q", "h"} THEN "i" ELSE t
Common(t, u) ==
  LET rank == <<"i", "u", "x", "t", "d">>
  IN  rank[CHOOSE k \in 1..5 : /\ rank[k] \in {Promoted(t), Promoted(u)}
                              /\ \A j \in k+1..5 : rank[j] \notin {Promoted(t), Promoted(u)}]

EqualNumbers(a, b) ==
  LET c == Common(TypeCode(a), TypeCode(b)) IN Convert(c, a.val) = Convert(c, b.val)

\* The pairs of types <=> orders, by the type on the right.
Ordered(t, u) ==
  IF t = "b" \/ u = "b" THEN t = u
  ELSE CASE u \in {"n", "i"} -> t \notin {"u", "t"}
         [] u = "u" -> t \notin {"n", "i", "h"}
         [] u = "x" -> t # "t"
         [] u = "t" -> t \in {"t", "d"}
         [] u = "h" -> t \in {"i", "h"}
         [] OTHER -> TRUE

Order(m, n) == IF m < n THEN "less" ELSE IF m > n THEN "greater" ELSE "equivalent"

CompareNumbers(a, b) ==
  LET c == Common(TypeCode(a), TypeCode(b))
  IN  IF Ordered(TypeCode(a), TypeCode(b)) THEN Order(Convert(c, a.val), Convert(c, b.val))
      ELSE "unordered"

-----------------------------------------------------------------------------
(* Texts *)

\* Construction from a C string or std::string.
StringOf(n) == Basic("s", n)
PathOf(n) == IF n \in ValidPaths THEN Basic("o", n) ELSE Thrown
SignatureOf(n) == IF n \in ValidSignatures THEN Basic("g", n) ELSE Thrown
TextOf(t, n) ==
  CASE t = "s" -> StringOf(n) [] t = "o" -> PathOf(n) [] t = "g" -> SignatureOf(n)
ValidText(t, n) == TextOf(t, n) # Thrown

\* Assignment of one.
SetString(n) == Basic("s", n)
SetPath(n) == IF n \in ValidPaths THEN Basic("o", n) ELSE Thrown
SetSignature(n) == IF n \in ValidSignatures THEN Basic("g", n) ELSE Thrown
SetText(t, n) ==
  CASE t = "s" -> SetString(n) [] t = "o" -> SetPath(n) [] t = "g" -> SetSignature(n)

\* operator= with another value: only with one of the same type.
CopyString(dst, src) == IF src.sig = dst.sig THEN src ELSE Thrown
CopyPath(dst, src) == IF src.sig = dst.sig THEN src ELSE Thrown
CopySignature(dst, src) == IF src.sig = dst.sig THEN src ELSE Thrown
CopyText(dst, src) ==
  CASE TypeCode(dst) = "s" -> CopyString(dst, src)
    [] TypeCode(dst) = "o" -> CopyPath(dst, src)
    [] TypeCode(dst) = "g" -> CopySignature(dst, src)

\* What a move leaves: an empty text, or "/" for a path.
MovedFromString(v) == [v EXCEPT !.val = 0]
MovedFromPath(v) == [v EXCEPT !.val = 1]
MovedFromText(v) == IF TypeCode(v) = "o" THEN MovedFromPath(v) ELSE MovedFromString(v)

EqualTexts(a, b) == a.val = b.val
CompareTexts(a, b) == Order(a.val, b.val)
=============================================================================
