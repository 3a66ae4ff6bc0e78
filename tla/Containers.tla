----------------------------- MODULE Containers -----------------------------
(***************************************************************************)
(* The container types of libultrabus: dbus_array, dbus_struct,            *)
(* dbus_dict<key> and dbus_variant, as functions from values to values.    *)
(*                                                                         *)
(* A dict keeps its entries sorted by key, as the std::map does: its items *)
(* are of kind "entry" and hold the key and the value.  A variant that was *)
(* moved from holds no value, which get() takes for a dbus_i32 of 0, and   *)
(* is shown as a variant with that.                                        *)
(*                                                                         *)
(* A function that changes a container returns what it leaves, and how it  *)
(* ends: "done", "false" or "throws".  Some throw half-way.                *)
(***************************************************************************)
EXTENDS BasicTypes

-----------------------------------------------------------------------------
(* Signatures, as dbus_signature_validate_single and DBusSignatureIter of   *)
(* libdbus see them.                                                        *)

\* The position behind the single complete type at k of a signature, or 0.
RECURSIVE TypeEnd(_, _)
RECURSIVE MembersEnd(_, _)
TypeEnd(s, k) ==
  IF k > Len(s) THEN 0
  ELSE IF s[k] \in BasicTypeCodes \cup {"v"} THEN k + 1
  ELSE IF s[k] = "(" /\ k < Len(s) /\ s[k + 1] # ")" THEN MembersEnd(s, k + 1)
  ELSE IF s[k] # "a" THEN 0
  ELSE IF k + 2 <= Len(s) /\ s[k + 1] = "{" /\ s[k + 2] \in BasicTypeCodes
       THEN LET e == TypeEnd(s, k + 3)
            IN  IF e # 0 /\ e <= Len(s) /\ s[e] = "}" THEN e + 1 ELSE 0
       ELSE TypeEnd(s, k + 1)
MembersEnd(s, k) ==
  IF k = 0 \/ k > Len(s) THEN 0 ELSE IF s[k] = ")" THEN k + 1
  ELSE MembersEnd(s, TypeEnd(s, k))

ValidSingle(s) == s # <<>> /\ TypeEnd(s, 1) = Len(s) + 1

\* The single types that a signature is made of.
RECURSIVE Types(_)
Types(s) ==
  IF s = <<>> THEN <<>>
  ELSE LET e == TypeEnd(s, 1) IN <<SubSeq(s, 1, e - 1)>> \o Types(SubSeq(s, e, Len(s)))

ElementSig(a) == Tail(a.sig)
KeyCode(d) == d.sig[3]
value_signature(d) == SubSeq(d.sig, 4, Len(d.sig) - 1)
DictSig(t, s) == <<"a", "{", t>> \o s \o <<"}">>

-----------------------------------------------------------------------------
(* Construction *)

Container(kind, s, items) == [kind |-> kind, sig |-> s, val |-> 0, items |-> items]
VariantOf(v) == Container("variant", <<"v">>, <<v>>)
Unwrap(v) == IF v.kind = "variant" THEN v.items[1] ELSE v

\* A variant made of a value: the value of a variant is taken out of it.
dbus_variant(v) == VariantOf(Unwrap(v))

dbus_array(esig) ==
  IF ValidSingle(<<"a">> \o esig) THEN Container("array", <<"a">> \o esig, <<>>) ELSE Thrown

create_dbus_dict(t, s) ==
  IF ValidSingle(s) /\ t \in BasicTypeCodes THEN Container("dict", DictSig(t, s), <<>>) ELSE Thrown

\* A default value of any type; a struct has a default of each member.
RECURSIVE create_dbus_type(_)
RECURSIVE dbus_struct(_)
create_dbus_type(s) ==
  IF ~ValidSingle(s) THEN Thrown
  ELSE CASE s[1] = "a" /\ s[2] = "{" -> create_dbus_dict(s[3], SubSeq(s, 4, Len(s) - 1))
         [] s[1] = "a" /\ s[2] # "{" -> dbus_array(Tail(s))
         [] s[1] = "(" -> dbus_struct(SubSeq(s, 2, Len(s) - 1))
         [] s[1] = "v" -> VariantOf(create_dbus_basic("i"))
         [] OTHER -> create_dbus_basic(s[1])
dbus_struct(members) ==
  LET s == <<"(">> \o members \o <<")">>
  IN  IF ValidSingle(s)
      THEN Container("struct", s, [k \in DOMAIN Types(members) |-> create_dbus_type(Types(members)[k])])
      ELSE Thrown
EmptyStruct == Container("struct", <<"(", ")">>, <<>>)

-----------------------------------------------------------------------------
(* Assignment.  Copies are deep. *)

AssignArray(dst, src) == IF src.kind = "array" THEN src ELSE Thrown
AssignStruct(dst, src) == IF src.kind = "struct" THEN src ELSE Thrown

\* A dict of another key type is another class: the cast throws.
AssignDict(dst, src) ==
  IF src.kind = "dict" /\ KeyCode(src) = KeyCode(dst) THEN src ELSE Thrown

AssignVariant(dst, src) == dbus_variant(src)

Assign(dst, src) ==
  CASE dst.sig = <<"h">> -> CopyDescriptor(dst, src)
    [] IsNumber(dst) /\ dst.sig # <<"h">> -> CopyNumber(dst, src)
    [] IsText(dst) -> CopyText(dst, src)
    [] dst.kind = "array" -> AssignArray(dst, src)
    [] dst.kind = "struct" -> AssignStruct(dst, src)
    [] dst.kind = "dict" -> AssignDict(dst, src)
    [] dst.kind = "variant" -> AssignVariant(dst, src)

\* Move assignment: the values of a container are taken over.
Move(dst, src) == IF IsNumber(dst) /\ dst.sig # <<"h">> THEN MoveNumber(dst, src) ELSE Assign(dst, src)

\* Mutant of MovedFromStruct: the signature stays.
MovedFromStruct_keeps_sig(v) == [v EXCEPT !.items = <<>>]

\* What a move leaves behind.
MovedFromArray(v) == [v EXCEPT !.items = <<>>]

MovedFromStruct(v) == EmptyStruct

MovedFromDict(v) == [v EXCEPT !.items = <<>>]
MovedFromVariant(v) == VariantOf(create_dbus_basic("i"))
MovedFrom(v) ==
  CASE IsNumber(v) -> v
    [] IsText(v) -> MovedFromText(v)
    [] v.kind = "array" -> MovedFromArray(v)
    [] v.kind = "struct" -> MovedFromStruct(v)
    [] v.kind = "dict" -> MovedFromDict(v)
    [] v.kind = "variant" -> MovedFromVariant(v)

-----------------------------------------------------------------------------
(* Comparison *)

\* What the loops over two containers compare: a dict's keys and values in turn.
Parts(v) == IF v.kind = "dict" THEN FlattenSeq([k \in DOMAIN v.items |-> v.items[k].items]) ELSE v.items
SmallerLen(s, t) == IF Len(s) < Len(t) THEN Len(s) ELSE Len(t)

\* The first of the results that is not "go", or else "end".
FirstOther(results, go, end) ==
  LET other == {k \in DOMAIN results : results[k] # go}
  IN  IF other = {} THEN end
      ELSE results[CHOOSE k \in other : \A j \in other : k <= j]

\* operator== of two arrays, structs or dicts, from that of their parts.
EqualArrays(a, b, results) ==
  IF a.sig # b.sig \/ Len(a.items) # Len(b.items) THEN "different" ELSE FirstOther(results, "equal", "equal")
EqualStructs(a, b, results) ==
  IF a.sig # b.sig \/ Len(a.items) # Len(b.items) THEN "different" ELSE FirstOther(results, "equal", "equal")

\* Mutant of EqualDicts: what one has more than the other is not looked at.
EqualDicts_prefix(a, b, results) ==
  CASE KeyCode(a) # KeyCode(b) -> "throws"
    [] KeyCode(a) = KeyCode(b) /\ a.sig # b.sig -> "different"
    [] OTHER -> FirstOther(results, "equal", "equal")

\* A dict of another key type is of another class: the cast throws.
EqualDicts(a, b, results) ==
  CASE KeyCode(a) # KeyCode(b) -> "throws"
    [] KeyCode(a) = KeyCode(b) /\ a.sig # b.sig -> "different"
    [] OTHER -> FirstOther(results, "equal", IF Len(a.items) = Len(b.items) THEN "equal" ELSE "different")

\* operator==: "equal", "different" or "throws".
RECURSIVE Equal(_, _)
Equal(a, b) ==
  LET x == Unwrap(a)
      y == Unwrap(b)
      results == [k \in 1..SmallerLen(Parts(x), Parts(y)) |-> Equal(Parts(x)[k], Parts(y)[k])]
      of(equal) == IF equal THEN "equal" ELSE "different"
  IN  CASE x.kind = "variant" \/ y.kind = "variant" -> Equal(x, y)
        [] IsNumber(x) /\ IsNumber(y) -> of(EqualNumbers(x, y))
        [] IsText(x) /\ IsText(y) -> of(EqualTexts(x, y))
        [] x.kind = "array" /\ y.kind = "array" -> EqualArrays(x, y, results)
        [] x.kind = "struct" /\ y.kind = "struct" -> EqualStructs(x, y, results)
        [] x.kind = "dict" /\ y.kind = "dict" -> EqualDicts(x, y, results)
        [] OTHER -> "different"

\* operator<=> likewise: a container that the other begins with is less.
CompareArrays(a, b, results) ==
  IF a.sig # b.sig THEN "unordered" ELSE FirstOther(results, "equivalent", Order(Len(a.items), Len(b.items)))
CompareStructs(a, b, results) ==
  IF a.sig # b.sig \/ Len(a.items) # Len(b.items) THEN "unordered"
  ELSE FirstOther(results, "equivalent", "equivalent")
CompareDicts(a, b, results) ==
  CASE KeyCode(a) # KeyCode(b) -> "throws"
    [] KeyCode(a) = KeyCode(b) /\ a.sig # b.sig -> "unordered"
    [] OTHER -> FirstOther(results, "equivalent", Order(Len(a.items), Len(b.items)))

\* operator<=>: "less", "equivalent", "greater", "unordered" or "throws".
RECURSIVE Compare(_, _)
Compare(a, b) ==
  LET x == Unwrap(a)
      y == Unwrap(b)
      results == [k \in 1..SmallerLen(Parts(x), Parts(y)) |-> Compare(Parts(x)[k], Parts(y)[k])]
  IN  CASE x.kind = "variant" \/ y.kind = "variant" -> Compare(x, y)
        [] IsNumber(x) /\ IsNumber(y) -> CompareNumbers(x, y)
        [] IsText(x) /\ IsText(y) -> CompareTexts(x, y)
        [] x.kind = "array" /\ y.kind = "array" -> CompareArrays(x, y, results)
        [] x.kind = "struct" /\ y.kind = "struct" -> CompareStructs(x, y, results)
        [] x.kind = "dict" /\ y.kind = "dict" -> CompareDicts(x, y, results)
        [] OTHER -> "unordered"

-----------------------------------------------------------------------------
(* Arrays *)

Ends(v, how) == [to |-> v, out |-> how]
Done(v) == Ends(v, "done")

IsElement(a, v) == v.sig = ElementSig(a)
PutAt(a, k, vs) == [a EXCEPT !.items = SubSeq(@, 1, k - 1) \o vs \o SubSeq(@, k, Len(@))]

push_back(a, v) == IF IsElement(a, v) THEN Done(PutAt(a, Len(a.items) + 1, <<v>>)) ELSE Ends(a, "throws")
insert(a, k, v) == IF IsElement(a, v) THEN Done(PutAt(a, k, <<v>>)) ELSE Ends(a, "throws")
insert_copies(a, k, n, v) ==
  IF IsElement(a, v) THEN Done(PutAt(a, k, [j \in 1..n |-> v])) ELSE Ends(a, "throws")

\* Only the first value of a range is verified.
insert_range(a, k, vs) ==
  IF vs = <<>> \/ IsElement(a, vs[1]) THEN Done(PutAt(a, k, vs)) ELSE Ends(a, "throws")

\* Numbers of one type.
insert_numbers(a, k, t, ns) ==
  IF ElementSig(a)[1] = t THEN Done(PutAt(a, k, [j \in DOMAIN ns |-> Basic(t, ns[j])])) ELSE Ends(a, "throws")

\* The texts before the first that is not valid for its type.
ValidPrefix(t, ns) ==
  LET bad == {j \in DOMAIN ns : ~ValidText(t, ns[j])}
  IN  IF bad = {} THEN ns ELSE SubSeq(ns, 1, (CHOOSE j \in bad : \A i \in bad : j <= i) - 1)

\* Texts become strings, paths or signatures, as the array has them; the first
\* that is not valid ends the loop, and those before it stay.
insert_texts(a, k, ns) ==
  LET t == ElementSig(a)[1]
      ok == ValidPrefix(t, ns)
  IN  IF t \notin Textual THEN Ends(a, "throws")
      ELSE Ends(PutAt(a, k, [j \in DOMAIN ok |-> Basic(t, ok[j])]), IF ok = ns THEN "done" ELSE "throws")
push_back_text(a, n) == insert_texts(a, Len(a.items) + 1, <<n>>)
insert_text(a, k, n) == insert_texts(a, k, <<n>>)

\* Assignment of a list of numbers.  An empty list leaves the type.
assign_numbers(a, t, ns) ==
  IF ns = <<>> THEN Done([a EXCEPT !.items = <<>>])
  ELSE insert_numbers(Container("array", <<"a", t>>, <<>>), 1, t, ns)

\* Assignment of a list of texts: an array that is not of texts becomes one of
\* strings.  The old items are gone even if it throws.
assign_texts(a, ns) ==
  LET t == IF ElementSig(a)[1] \in Textual THEN ElementSig(a)[1] ELSE "s"
  IN  IF ns = <<>> THEN Done([a EXCEPT !.items = <<>>])
      ELSE insert_texts(Container("array", <<"a", t>>, <<>>), 1, ns)

\* Construction from lists; one that throws makes nothing.
array_of_numbers(t, ns) == insert_numbers(Container("array", <<"a", t>>, <<>>), 1, t, ns).to
array_of_texts(t, ns) ==
  LET made == insert_texts(Container("array", <<"a", t>>, <<>>), 1, ns)
  IN  IF made.out = "done" THEN made.to ELSE Thrown

erase(a, k) == Done([a EXCEPT !.items = RemoveAt(@, k)])
pop_back(a) == IF a.items = <<>> THEN Done(a) ELSE erase(a, Len(a.items))
clear(v) == Done([v EXCEPT !.items = <<>>])

-----------------------------------------------------------------------------
(* Structs *)

update_signature(s) ==
  [s EXCEPT !.sig = <<"(">> \o FlattenSeq([k \in DOMAIN s.items |-> s.items[k].sig]) \o <<")">>]

\* The signature is extended by that of the new member ...
add(s, v) ==
  Done([s EXCEPT !.sig = Front(@) \o v.sig \o <<")">>, !.items = Append(@, v)])

\* ... and made anew of all the members if the new one is moved.
add_moved(s, v) == Done(update_signature(add(s, v).to))
remove(s, k) ==
  IF k \in DOMAIN s.items THEN Done(update_signature([s EXCEPT !.items = RemoveAt(@, k)])) ELSE Done(s)

-----------------------------------------------------------------------------
(* Dicts *)

Entry(k, v) == Container("entry", <<>>, <<k, v>>)
KeyAt(d, k) == d.items[k].items[1]
Find(d, key) == {k \in DOMAIN d.items : Compare(KeyAt(d, k), key) = "equivalent"}
ValueAt(d, key) == LET k == CHOOSE i \in Find(d, key) : TRUE IN d.items[k].items[2]

\* items[key] = v
Put(d, key, v) ==
  LET less == {k \in DOMAIN d.items : Compare(KeyAt(d, k), key) = "less"}
      k == Cardinality(less) + 1
  IN  IF Find(d, key) # {} THEN [d EXCEPT !.items[k] = Entry(KeyAt(d, k), v)]
      ELSE [d EXCEPT !.items = SubSeq(@, 1, k - 1) \o <<Entry(key, v)>> \o SubSeq(@, k, Len(@))]

\* The key that a value stands for: of the type of the dict, or in a variant.
KeyOf(d, key) == IF TypeCode(key) = KeyCode(d) THEN key ELSE Unwrap(key)
IsKey(d, key) == KeyOf(d, key).kind = "basic" /\ TypeCode(KeyOf(d, key)) = KeyCode(d)

\* The value has the signature of the dict, or is put in a variant.
set(d, key, v) ==
  IF ~IsKey(d, key) THEN Ends(d, "false")
  ELSE IF v.sig = value_signature(d) THEN Done(Put(d, KeyOf(d, key), v))
  ELSE IF value_signature(d)[1] = "v" THEN Done(Put(d, KeyOf(d, key), dbus_variant(v)))
  ELSE Ends(d, "false")

\* set with a C++ number of type t.
set_number(d, key, t, n) ==
  CASE value_signature(d)[1] = "v" -> Done(Put(d, key, VariantOf(Basic(t, n))))
    [] value_signature(d)[1] = t -> Done(Put(d, key, Basic(t, n)))
    [] OTHER -> Ends(d, "false")

\* set with a text.
set_text(d, key, n) ==
  LET t == value_signature(d)[1]
  IN  CASE t = "v" -> Done(Put(d, key, VariantOf(Basic("s", n))))
        [] t \in Textual /\ ValidText(t, n) -> Done(Put(d, key, Basic(t, n)))
        [] OTHER -> Ends(d, "false")

\* operator[]: a missing value is created.
Subscript(d, key) == IF Find(d, key) # {} THEN d ELSE Put(d, key, create_dbus_type(value_signature(d)))

\* get into a value: a variant, one of the signature of the dict's values, or of
\* that of the value in the variant.
get(d, key, dst) ==
  LET v == ValueAt(d, KeyOf(d, key))
      direct == dst.kind = "variant" \/ dst.sig = value_signature(d)
      assigned == Assign(dst, IF direct THEN v ELSE Unwrap(v))
  IN  IF ~IsKey(d, key) \/ Find(d, KeyOf(d, key)) = {} THEN Ends(dst, "false")
      ELSE IF ~direct /\ ~(v.kind = "variant" /\ dst.sig = Unwrap(v).sig) THEN Ends(dst, "false")
      ELSE IF assigned = Thrown THEN Ends(dst, "throws") ELSE Done(assigned)

\* get into a C++ variable of type t; a std::string takes any text.
get_cpp(d, key, t) ==
  IF Find(d, key) = {} THEN Thrown
  ELSE LET v == Unwrap(ValueAt(d, key))
       IN  IF v.kind = "basic" /\ (TypeCode(v) = t \/ (t = "s" /\ IsText(v)) \/ (t = "i" /\ TypeCode(v) = "h"))
           THEN Basic(t, v.val) ELSE Thrown

\* reset with a signature ...
reset(d, s) ==
  IF ValidSingle(s) THEN Done(Container("dict", DictSig(KeyCode(d), s), <<>>)) ELSE Ends(d, "false")

\* ... and with a type code, which does not clear the dict.
reset_type(d, t) ==
  IF t \in BasicTypeCodes \cup {"v"} THEN Done([d EXCEPT !.sig = DictSig(KeyCode(d), <<t>>)]) ELSE Ends(d, "false")
=============================================================================
