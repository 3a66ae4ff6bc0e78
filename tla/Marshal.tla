------------------------------- MODULE Marshal -------------------------------
(***************************************************************************)
(* How values become the arguments of a DBusMessage and are read again:    *)
(* append_dbus_type_arg and create_value_from_iter of message.cpp, and the *)
(* loop of get_args.                                                       *)
(*                                                                         *)
(* The arguments are what libdbus holds: trees of the shape of a value, in *)
(* which all is of the type its container announced.  Whatever else is put *)
(* in a container through the iterators of libdbus breaks its rules; the   *)
(* result is Broken.                                                       *)
(*                                                                         *)
(* libdbus refuses some basic values, and append_dbus_type_arg does not    *)
(* look at what dbus_message_iter_append_basic returns: they are left out. *)
(* Of a descriptor it keeps a duplicate, and gives the receiver another.   *)
(***************************************************************************)
EXTENDS Containers

CONSTANTS Utf8,       \* the texts that dbus_validate_utf8 accepts
          Duplicate   \* of each open descriptor the number its receiver gets

Open == DOMAIN Duplicate

ASSUME MarshalAssumption ==
  /\ Utf8 \subseteq Nat /\ ValidPaths \cup ValidSignatures \subseteq Utf8
  /\ Open \subseteq Nat /\ \A n \in Open : Duplicate[n] \in Open \ {n}

Broken == [kind |-> "broken", sig |-> <<>>, val |-> 0, items |-> <<>>]

IsEmptyStruct(v) == v.kind = "struct" /\ v.items = <<>>

\* What dbus_message_iter_append_basic returns false for, and appends nothing.
Refused(v) ==
  \/ IsText(v) /\ ~(v.val \in Utf8 /\ ValidText(TypeCode(v), v.val))
  \/ v.sig = <<"h">> /\ v.val \notin Open

Present(vs) == SelectSeq(vs, LAMBDA v : ~IsEmptyStruct(v) /\ ~Refused(v))

\* The members ws of a container are what it announces.
Fits(v, ws) ==
  /\ Broken \notin Range(ws)
  /\ CASE v.kind = "array" -> \A k \in DOMAIN ws : ws[k].sig = ElementSig(v)
       [] v.kind = "dict" -> \A k \in DOMAIN ws : /\ ws[k].items[1].sig = <<KeyCode(v)>>
                                                  /\ ws[k].items[2].sig = value_signature(v)
       [] v.kind = "entry" -> Len(ws) = 2
       [] v.kind = "variant" -> Len(ws) = 1 /\ ws[1].sig = v.items[1].sig
       [] v.kind = "struct" -> ws # <<>>

\* append_dbus_type_arg: nothing is appended for a struct without members, nor
\* for a basic value that is refused.
RECURSIVE Wire(_)
Wire(v) ==
  LET members == Present(v.items)
      ws == [k \in DOMAIN members |-> Wire(members[k])]
      w == [v EXCEPT !.items = ws]
  IN  CASE v.kind = "basic" -> IF v.sig = <<"h">> THEN [v EXCEPT !.val = Duplicate[@]] ELSE v
        [] v.kind = "struct" -> IF Fits(v, ws) THEN update_signature(w) ELSE Broken
        [] OTHER -> IF Fits(v, ws) THEN w ELSE Broken

append_args(args, v) == IF Present(<<v>>) = <<>> THEN args ELSE Append(args, Wire(v))

create_dict_from_iter(w, entries) ==
  FoldLeft(LAMBDA d, e : set(d, e.items[1], e.items[2]).to,
           create_dbus_dict(KeyCode(w), value_signature(w)), entries)
create_struct_from_iter(w, members) == FoldLeft(LAMBDA s, v : add(s, v).to, EmptyStruct, members)

\* Mutant of create_array_from_iter: each element is put before the others.
create_array_from_iter_reversed(w, elements) ==
  FoldLeft(LAMBDA a, v : insert(a, 1, v).to, dbus_array(ElementSig(w)), elements)

create_array_from_iter(w, elements) ==
  FoldLeft(LAMBDA a, v : push_back(a, v).to, dbus_array(ElementSig(w)), elements)

\* create_value_from_iter
RECURSIVE Read(_)
Read(w) ==
  LET vs == [k \in DOMAIN w.items |-> Read(w.items[k])]
  IN  CASE w.kind = "struct" -> create_struct_from_iter(w, vs)
        [] w.kind = "dict" -> create_dict_from_iter(w, vs)
        [] w.kind = "array" -> create_array_from_iter(w, vs)
        [] w.kind = "variant" -> dbus_variant(vs[1])
        [] w.kind = "entry" -> Entry(vs[1], vs[2])
        [] w.kind = "basic" -> w

arguments(args, max) ==
  [k \in 1..(IF max = 0 \/ max > Len(args) THEN Len(args) ELSE max) |-> Read(args[k])]

-----------------------------------------------------------------------------
(* get_args and get_args_strict *)

\* The argument v may be assigned to the variable dst.
Wanted(strict, dst, v) ==
  IF ~strict /\ dst.kind \in {"array", "dict"} THEN v.kind = dst.kind ELSE v.sig = dst.sig

\* The variables that are filled one by one from the arguments, until one is
\* missing, not wanted, or its assignment throws.
get_args(strict, args, dsts) ==
  LET take(k) == IF k > Len(args) \/ ~Wanted(strict, dsts[k], Read(args[k])) THEN "false"
                 ELSE IF Assign(dsts[k], Read(args[k])) = Thrown THEN "throws" ELSE "true"
      results == [k \in DOMAIN dsts |-> take(k)]
      stops == {k \in DOMAIN dsts : results[k] # "true"}
  IN  [to |-> [k \in DOMAIN dsts |-> IF \E j \in stops : j <= k THEN dsts[k] ELSE Assign(dsts[k], Read(args[k]))],
       out |-> FirstOther(results, "true", "true")]

\* The same for a C++ variable of type t: the value, or Thrown for false.
get_cpp_arg(w, t) ==
  IF w.kind = "basic" /\ (TypeCode(w) = t \/ (t = "s" /\ IsText(w))) THEN Basic(t, w.val) ELSE Thrown
=============================================================================
