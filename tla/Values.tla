------------------------------- MODULE Values -------------------------------
(***************************************************************************)
(* A program that works with two variables of the D-Bus types, by the      *)
(* operations of the type headers, and that may send either in a message.  *)
(*                                                                         *)
(* The library does not keep a value from being changed through a          *)
(* reference to a part of it, or checks only what its documentation says.  *)
(* "misused" are the variables whose value has come out of such a use.     *)
(*                                                                         *)
(* dbus_dict::reset with a type code keeps the items that it promises to   *)
(* clear.  "retyped" are the variables whose value is such a dict.         *)
(***************************************************************************)
EXTENDS Marshal

CONSTANTS Vars,
          Sigs,           \* the signatures of new values
          ResetSigs,      \* those a dict is reset to
          Numbers, Texts, \* the C++ values used
          MaxSize         \* bound: the size of the value of each variable

ASSUME ValuesAssumption ==
  /\ Numbers \subseteq Int /\ Texts \subseteq Nat /\ MaxSize \in [Vars -> Nat]
  /\ \A s \in Sigs \cup ResetSigs : s \in Seq(BasicTypeCodes \cup {"v", "a", "(", ")", "{", "}"})

VARIABLES value, misused, retyped
marks == <<misused, retyped>>
vars == <<value, marks>>

Init ==
  /\ value = [s \in Vars |-> create_dbus_type(<<"i">>)]
  /\ misused = {}
  /\ retyped = {}

\* The basic values, the containers and the variants in variants.
RECURSIVE Size(_)
Size(v) ==
  LET counts == CASE v.kind = "entry" -> FALSE
                  [] v.kind = "variant" -> v.items[1].kind = "variant"
                  [] OTHER -> TRUE
  IN  FoldLeft(LAMBDA n, item : n + Size(item), IF counts THEN 1 ELSE 0,
               IF v.kind = "entry" THEN Tail(v.items) ELSE v.items)

\* The result of an operation on s becomes its value, if it is not too big.
Becomes(s, v) == v # Thrown /\ Size(v) <= MaxSize[s] /\ value' = [value EXCEPT ![s] = v]
Misuse(s, if) ==
  /\ misused' = IF if THEN misused \cup {s} ELSE misused \ {s}
  /\ retyped' = retyped \ {s}
Works(s, result) == Becomes(s, result.to) /\ Misuse(s, FALSE)
\* With the value of o in s; moved or copied.
Takes(s, o, v, moved) ==
  /\ v # Thrown /\ Size(v) <= MaxSize[s]
  /\ value' = [value EXCEPT ![s] = v, ![o] = IF moved THEN MovedFrom(@) ELSE @]

Is(s, kind) == value[s].kind = kind
TextLists == {<<m, n>> : m, n \in Texts}
KeysOf(d) == LET t == KeyCode(d)
             IN  IF t \in Textual THEN {TextOf(t, n) : n \in Texts} \ {Thrown}
                 ELSE {Basic(t, Convert(t, n)) : n \in Numbers}

-----------------------------------------------------------------------------
(* Any type *)

Construct(s) ==
  /\ \E sig \in Sigs : \E v \in {create_dbus_type(sig), VariantOf(create_dbus_type(sig))} :
       sig # <<>> /\ Becomes(s, v)
  /\ Misuse(s, FALSE)

AssignNumber(s, n) ==
  /\ \/ IsNumber(value[s]) /\ Becomes(s, Basic(TypeCode(value[s]), Convert(TypeCode(value[s]), n)))
     \/ Is(s, "variant") /\ Becomes(s, VariantOf(Basic("i", Convert("i", n))))
  /\ Misuse(s, FALSE)

AssignDescriptor(s, n) == value[s].sig = <<"h">> /\ Becomes(s, Basic("h", n)) /\ Misuse(s, FALSE)

AssignText(s, n) ==
  /\ \/ IsText(value[s]) /\ Becomes(s, SetText(TypeCode(value[s]), n))
     \/ Is(s, "variant") /\ Becomes(s, VariantOf(Basic("s", n)))
  /\ Misuse(s, FALSE)

\* dbus_string::clear is inherited by paths, which may not be empty.
ClearText(s) ==
  /\ IsText(value[s]) /\ Becomes(s, Basic(TypeCode(value[s]), 0))
  /\ Misuse(s, TypeCode(value[s]) = "o")

AssignValue(s, o, moved) ==
  /\ s # o /\ Takes(s, o, IF moved THEN Move(value[s], value[o]) ELSE Assign(value[s], value[o]), moved)
  /\ LET kept(marked) == (marked \ ({s} \cup IF moved THEN {o} ELSE {})) \cup {r \in {s} : o \in marked}
     IN  misused' = kept(misused) /\ retyped' = kept(retyped)

\* The value of o is assigned to a part of s that is reached by reference.
\* The signature of s knows nothing of it: it is a misuse to change that of the
\* part, unless s is a variant or update_signature is called.
ChangeItem(s, o, item, put(_), updated) ==
  LET new == Assign(item, value[o])
      v == put(new)
  IN  /\ s # o /\ new # Thrown
      /\ Becomes(s, IF updated THEN update_signature(v) ELSE v)
      /\ Misuse(s, ~updated /\ ~Is(s, "variant") /\ new.sig # item.sig)

ChangeElement(s, o) ==
  /\ Is(s, "array") /\ value[s].items # <<>>
  /\ ChangeItem(s, o, value[s].items[1], LAMBDA v : [value[s] EXCEPT !.items[1] = v], FALSE)
ChangeMember(s, o, updated) ==
  /\ Is(s, "struct") /\ value[s].items # <<>>
  /\ ChangeItem(s, o, value[s].items[1], LAMBDA v : [value[s] EXCEPT !.items[1] = v], updated)
ChangeEntry(s, o) ==
  /\ Is(s, "dict") /\ value[s].items # <<>>
  /\ ChangeItem(s, o, value[s].items[1].items[2],
                LAMBDA v : [value[s] EXCEPT !.items[1] = Entry(@.items[1], v)], FALSE)
ChangeInside(s, o) ==
  Is(s, "variant") /\ ChangeItem(s, o, value[s].items[1], VariantOf, FALSE)

-----------------------------------------------------------------------------
(* Containers *)

\* The value of o is put into s, as a copy or moved.
PutInto(s, o, moved) ==
  /\ s # o
  /\ \/ /\ Is(s, "array")
        /\ \E r \in {push_back(value[s], value[o]), insert(value[s], 1, value[o])} :
             r.out = "done" /\ Takes(s, o, r.to, moved)
     \/ /\ Is(s, "array") /\ ~moved
        /\ Takes(s, o, insert_copies(value[s], 1, 2, value[o]).to, FALSE)
     \/ /\ Is(s, "struct")
        /\ Takes(s, o, IF moved THEN add_moved(value[s], value[o]).to ELSE add(value[s], value[o]).to, moved)
     \/ /\ Is(s, "dict")
        /\ \E key \in KeysOf(value[s]) :
             LET r == set(value[s], key, value[o]) IN r.out = "done" /\ Takes(s, o, r.to, moved)
  /\ UNCHANGED marks

\* The items of o are inserted into the array s as a range.
InsertRange(s, o) ==
  /\ s # o /\ Is(s, "array") /\ value[o].kind \in {"array", "struct"}
  /\ LET r == insert_range(value[s], 1, value[o].items)
     IN  /\ r.out = "done" /\ Becomes(s, r.to)
         /\ Misuse(s, \E k \in DOMAIN value[o].items : ~IsElement(value[s], value[o].items[k]))

\* Texts and numbers.  What throws half-way leaves what was done.
ArrayOf(s) ==
  /\ \/ \E t \in Textual, ns \in TextLists : Becomes(s, array_of_texts(t, ns))
     \/ \E n \in Numbers : Becomes(s, array_of_numbers("i", <<Convert("i", n)>>))
  /\ Misuse(s, FALSE)
PutText(s, n) ==
  \/ Is(s, "array") /\ \E r \in {push_back_text(value[s], n), insert_text(value[s], 1, n)} : Works(s, r)
  \/ Is(s, "dict") /\ \E key \in KeysOf(value[s]) : Works(s, set_text(value[s], key, n))
PutTexts(s, ns) ==
  /\ Is(s, "array")
  /\ \/ Works(s, insert_texts(value[s], 1, ns))
     \/ Becomes(s, assign_texts(value[s], ns).to) /\ Misuse(s, FALSE)
PutNumber(s, t, n) ==
  \/ /\ Is(s, "array")
     /\ \/ Works(s, insert_numbers(value[s], 1, t, <<Convert(t, n)>>))
        \/ Becomes(s, assign_numbers(value[s], t, <<Convert(t, n)>>).to) /\ Misuse(s, FALSE)
  \/ Is(s, "dict") /\ \E key \in KeysOf(value[s]) : Works(s, set_number(value[s], key, t, Convert(t, n)))

RemoveItem(s) ==
  \/ Is(s, "array") /\ value[s].items # <<>>
     /\ \E r \in {pop_back(value[s]), erase(value[s], 1)} : Works(s, r)
  \/ Is(s, "struct") /\ Works(s, remove(value[s], 1))
Clear(s) == value[s].kind \in {"array", "dict"} /\ Works(s, clear(value[s]))

CreateItem(s) == Is(s, "dict") /\ \E key \in KeysOf(value[s]) : Works(s, [to |-> Subscript(value[s], key)])

GetItem(s, o) ==
  /\ s # o /\ Is(s, "dict")
  /\ \E key \in KeysOf(value[s]) :
       \/ LET r == get(value[s], key, value[o]) IN r.out = "done" /\ Becomes(o, r.to)
       \/ \E t \in {"i", "s"} : Becomes(o, get_cpp(value[s], key, t))
  /\ Misuse(o, FALSE)

\* The signature of the values of a dict is changed.
Reset(s) ==
  /\ Is(s, "dict")
  /\ \E sig \in ResetSigs : Becomes(s, reset(value[s], sig).to)
  /\ Misuse(s, FALSE)

\* The items stay, whatever their signature.
ResetType(s) ==
  /\ Is(s, "dict")
  /\ \E t \in {sig[1] : sig \in ResetSigs} \cap (BasicTypeCodes \cup {"v"}) :
       /\ Becomes(s, reset_type(value[s], t).to)
       /\ retyped' = IF value[s].items # <<>> /\ <<t>> # value_signature(value[s])
                     THEN retyped \cup {s} ELSE retyped
  /\ UNCHANGED misused

-----------------------------------------------------------------------------
(* Messages *)

\* The arguments of a message that s was appended to.
Sent(s) == append_args(<<>>, value[s])

\* The argument is read into o, or into a C++ variable that o is made of.
ReceiveArg(s, o, strict) ==
  /\ s # o /\ Broken \notin Range(Sent(s))
  /\ LET r == get_args(strict, Sent(s), <<value[o]>>)
     IN  \/ r.out = "true" /\ Becomes(o, r.to[1])
         \/ \E t \in {"i", "s"} : Sent(s) # <<>> /\ Becomes(o, get_cpp_arg(Sent(s)[1], t))
  /\ Misuse(o, FALSE)

-----------------------------------------------------------------------------

\* A misused value is only replaced, copied, moved or sent, and so is a retyped
\* dict unless it is reset or cleared: whatever else came of them, the properties
\* would have to except it as well.
Next ==
  \/ \E s \in Vars : \/ Construct(s) \/ ClearText(s) \/ ArrayOf(s)
                    \/ (\E n \in Numbers : AssignNumber(s, n))
                    \/ (\E n \in Open : AssignDescriptor(s, n))
                    \/ \E n \in Texts : AssignText(s, n)
  \/ \E s, o \in Vars, moved \in BOOLEAN : AssignValue(s, o, moved)
  \/ \E s \in Vars \ misused : Clear(s) \/ Reset(s) \/ ResetType(s)
  \/ \E s \in Vars \ (misused \cup retyped) :
       \/ RemoveItem(s) \/ CreateItem(s)
       \/ (\E n \in Numbers, t \in {"i", "u", "y"} : PutNumber(s, t, n))
       \/ (\E n \in Texts : PutText(s, n))
       \/ \E ns \in TextLists : PutTexts(s, ns)
  \/ \E s, o \in Vars \ (misused \cup retyped) :
       \/ InsertRange(s, o) \/ GetItem(s, o)
       \/ (\E moved \in BOOLEAN : PutInto(s, o, moved))
       \/ (\E strict \in BOOLEAN : ReceiveArg(s, o, strict))
       \/ ChangeElement(s, o) \/ ChangeEntry(s, o) \/ ChangeInside(s, o)
       \/ \E updated \in BOOLEAN : ChangeMember(s, o, updated)

Spec == Init /\ [][Next]_vars

-----------------------------------------------------------------------------

RECURSIVE WellFormed(_)
WellFormed(v) ==
  /\ CASE IsNumber(v) -> Convert(TypeCode(v), v.val) = v.val
       [] IsText(v) -> ValidText(TypeCode(v), v.val)
       [] v.kind = "array" -> \A k \in DOMAIN v.items : IsElement(v, v.items[k])
       [] v.kind = "struct" -> v = update_signature(v)
       [] v.kind = "dict" -> /\ \A k \in DOMAIN v.items : /\ KeyAt(v, k).sig = <<KeyCode(v)>>
                                                          /\ v.items[k].items[2].sig = value_signature(v)
                             /\ \A j, k \in DOMAIN v.items : j < k => Compare(KeyAt(v, j), KeyAt(v, k)) = "less"
       [] v.kind \in {"variant", "entry"} -> v.items # <<>>
  /\ \A k \in DOMAIN v.items : WellFormed(v.items[k])

\* Whatever is done to the values, also by an operation that throws half-way or
\* moves from them, each is in the range of its type, has the signature of what
\* it contains, and a dict has each key once and in order; except the values
\* that were changed behind the library's back, and those that dbus_dict::reset
\* with a type code (dbus_dict.hpp:1006) has its part in.
SignaturesDescribe == \A s \in Vars \ (misused \cup retyped) : WellFormed(value[s])

\* "Clear the content of the dictionary and set a new value signature"
\* (dbus_dict.hpp:1000): so a dict that was reset holds nothing of the old
\* signature, and what a program does with it leaves a sound dict.
\* The code does not keep this: reset (int) does not clear the items.
ResetClears ==
  \A s \in Vars \ misused : Is(s, "dict") => WellFormed(value[s])

Mirror(order) == CASE order = "less" -> "greater" [] order = "greater" -> "less" [] OTHER -> order

\* == and <=> agree with each other and with the exchange of their operands:
\* values that are equivalent are equal, those that are less or greater are
\* not, and no two values are each less than the other.  (Numbers of some
\* types are only ordered one way round, and -1 equals the largest unsigned.)
ComparisonsAgree ==
  \A a, b \in {value[s] : s \in Vars} :
    /\ Equal(a, b) = Equal(b, a)
    /\ Compare(a, b) = "equivalent" => Equal(a, b) = "equal"
    /\ Compare(a, b) \in {"less", "greater"} => Equal(a, b) = "different"
    /\ Compare(a, b) = "unordered" \/ Compare(b, a) \in {"unordered", Mirror(Compare(a, b))}

RECURSIVE CannotBeSent(_)
CannotBeSent(v) ==
  IsEmptyStruct(v) \/ Refused(v) \/ \E k \in DOMAIN v.items : CannotBeSent(v.items[k])

RECURSIVE WithDuplicates(_)
WithDuplicates(v) ==
  IF v.sig = <<"h">> THEN [v EXCEPT !.val = Duplicate[@]]
  ELSE [v EXCEPT !.items = [k \in DOMAIN @ |-> WithDuplicates(@[k])]]

\* A value that is sent comes back as a value of the same signature and equal
\* to it, with duplicates for its descriptors.  Not so if it was misused or
\* comes of a dict that reset (int) did not clear; nor if there is something in
\* it that libdbus does not take, which is left out without an error: an empty
\* struct, a descriptor that is not open, or a text that is not valid UTF-8.
RoundTrip ==
  \A s \in Vars \ (misused \cup retyped) :
    ~CannotBeSent(value[s]) =>
      /\ Broken \notin Range(Sent(s))
      /\ LET args == arguments(Sent(s), 0)
         IN  /\ Len(args) = 1 /\ args[1].sig = value[s].sig
             /\ Equal(args[1], WithDuplicates(value[s])) = "equal"
=============================================================================
