------------------------------ MODULE Bindings ------------------------------
(***************************************************************************)
(* What the C interface (src/traeger/value/traeger_value.cpp) and the Go,  *)
(* Rust and Python bindings make of the operations of Value.               *)
(*                                                                         *)
(* A C pointer is <<>> or <<what it points to>>.  An argument of the kind  *)
(* "NullPointer" is a null pointer to a value or map, of "NullList" one to *)
(* a list, and "NilString" is an empty string whose data pointer is null,  *)
(* as that of Go's zero string is.  "Other" is what the language can pass  *)
(* but a Value cannot hold.  Results are written to variables of the       *)
(* caller, so pointers to them are not null (traeger_map_find trusts that).*)
(***************************************************************************)
EXTENDS Value

CONSTANTS MaxIndex,   (* C's INT_MAX, the largest index           *)
          MaxInt32    (* and the largest of the 32 bit integers   *)

\* Every 32 bit integer, unsigned or not, is an Int.
ASSUME BindingsAssumption == MaxIndex \in Nat /\ MaxInt32 \in Nat /\ 2 * MaxInt32 + 1 <= MaxInt

Languages == {"C++", "C", "Go", "Rust", "Python"}

\* An integer cut to the signed type whose largest is max, or its unsigned one.
Wrap(i, max)  == ((i + max + 1) % (2 * max + 2)) - (max + 1)
UWrap(i, max) == i % (2 * max + 2)

(***************************************************************************)
(* C.  A function does nothing, and answers false or 0, when a pointer it  *)
(* needs is null, except that traeger_map_set_list dereferences a null     *)
(* list: the program ends.                                                 *)
(***************************************************************************)
CStorable(a) == a[1] \notin {"NullPointer", "NullList", "NilString"}

CListAppend(self, a) ==
  IF self # None /\ CStorable(a) THEN Some(ListAppend(self[1], ValueOf(a))) ELSE self

\* Whether the index existed is not reported.
CListSet(self, index, a) ==
  IF self # None /\ CStorable(a) THEN Some(ListSet(self[1], index, ValueOf(a))) ELSE self

CListFind(self, index) == IF self = None THEN None ELSE ListFind(self[1], index)

CListSize(self) == IF self = None THEN 0 ELSE Len(self[1])

CListResize(self, size) == IF self = None THEN None ELSE Some(ListResize(self[1], size))

CMapSet(self, key, a) ==
  IF self = None \/ key = None THEN self
  ELSE IF a[1] = "NullList" THEN Terminates
  ELSE IF CStorable(a) THEN Some(MapSet(self[1], key[1], ValueOf(a))) ELSE self

CMapErase(self, key) ==
  IF self # None /\ key # None THEN Some(MapErase(self[1], key[1])) ELSE self

CMapFind(self, key) ==
  IF self = None \/ key = None THEN None ELSE MapFind(self[1], key[1])

\* traeger_value_set_string makes a String of a null pointer and the size 0.
CValueSet(self, a) ==
  IF self = None \/ a[1] \in {"NullPointer", "NullList"} THEN self
  ELSE IF a[1] = "NilString" THEN Some(<<"String", <<"empty">>>>)
  ELSE Some(ValueOf(a))

CValueGetType(self) == IF self = None THEN "Null" ELSE TypeName(self[1])

\* The variable of the caller is assigned only when the value could be had.
CValueGet(self, type) == IF self = None THEN None ELSE Get(self[1], type)

\* Whether there was one more, what it was, and the iterator after it.
CListNext(list, it) ==
  IF HasNext(list, it) THEN <<Some(Current(list, it)), Increment(list, it)>> ELSE <<None, it>>

CMapNext(map, it) ==
  IF HasNext(map, it) THEN <<Some(Current(map, it)), Increment(map, it)>> ELSE <<None, it>>

(***************************************************************************)
(* Go.  The type switches of Append and Set; nil is not among their cases. *)
(* ok says that there is a case for the argument, also when it is the zero *)
(* string, of which a list or map stores nothing.                          *)
(***************************************************************************)
GoToC(a) ==
  CASE a[1] = "Int32"  -> <<"Int", a[2]>>
    [] a[1] = "UInt32" -> <<"UInt", a[2]>>
    [] a[1] = "Other"  -> Null
    [] OTHER           -> a

GoListAppend(list, a) == [ok |-> a[1] # "Other", list |-> CListAppend(Some(list), GoToC(a))[1]]

\* Typed setters: no type switch, and the index is cut to C's int.
GoListSet(list, index, a) == CListSet(Some(list), Wrap(index, MaxIndex), GoToC(a))[1]

GoListFind(list, index) == CListFind(Some(list), Wrap(index, MaxIndex))

GoListResize(list, size) == CListResize(Some(list), size)[1]

GoMapSet(map, key, a) == [ok |-> a[1] # "Other", map |-> CMapSet(Some(map), key, GoToC(a))[1]]

GoMapFind(map, key) == CMapFind(Some(map), key)

GoValueSet(value, a) == [ok |-> a[1] # "Other", value |-> CValueSet(Some(value), GoToC(a))[1]]

GoValueGet(value, type) == CValueGet(Some(value), type)

GoType(kind) ==
  CASE kind = "Int32" -> "Int" [] kind = "UInt32" -> "UInt" [] OTHER -> kind

\* What is stored in a variable, of 32 bits or not, and what stays in it when the
\* value cannot be had as its type.
GoAssign(value, kind, old) ==
  LET got == IF kind = "Value" THEN Some(value) ELSE GoValueGet(value, GoType(kind))
  IN  IF Len(got) # 1 THEN old
      ELSE CASE kind = "Int32"  -> Wrap(got[1], MaxInt32)
             [] kind = "UInt32" -> UWrap(got[1], MaxInt32)
             [] OTHER           -> got[1]

\* Unpack reports a wrong count and a variable of no known type, by when it has
\* assigned those before it; of a value of another type it says nothing.
GoUnpack(list, kinds, vars) ==
  LET Good(i) == \A j \in 1 .. i : kinds[j] # "Other"
      ends == \E i \in DOMAIN kinds : /\ Good(i) /\ kinds[i] # "Value"
                                      /\ GoValueGet(GoListFind(list, i - 1)[1], GoType(kinds[i])) = Terminates
      now  == [i \in DOMAIN vars |->
                 IF Good(i) THEN GoAssign(GoListFind(list, i - 1)[1], kinds[i], vars[i]) ELSE vars[i]]
  IN  CASE Len(kinds) # CListSize(Some(list)) -> Refused(vars)
        [] Len(kinds) = CListSize(Some(list)) /\ ends -> Ended(vars)
        [] Len(kinds) = CListSize(Some(list)) /\ ~ends ->
             IF Good(Len(kinds)) THEN Unpacked(now) ELSE Refused(now)

GoMapGet(map, key, kind, old) ==
  LET found == GoMapFind(map, key)
  IN  CASE found = None \/ kind = "Other" -> Refused(old)
        [] found # None /\ kind = "Value" -> Unpacked(found[1])
        [] OTHER -> IF GoValueGet(found[1], GoType(kind)) = Terminates THEN Ended(old)
                    ELSE Unpacked(GoAssign(found[1], kind, old))

GoListNext(list, it) == CListNext(list, it)
GoMapNext(map, it)   == CMapNext(map, it)

(***************************************************************************)
(* Rust.  One implementation of each trait per type; a string's pointer is *)
(* never null.                                                             *)
(***************************************************************************)
RustToC(a) == IF a[1] \in {"Int32", "UInt32"} THEN <<"Int", a[2]>> ELSE a

RustListAppend(list, a) == CListAppend(Some(list), RustToC(a))[1]

RustListSet(list, index, a) == CListSet(Some(list), index, RustToC(a))[1]

RustListFind(list, index) == CListFind(Some(list), index)

RustListResize(list, size) == CListResize(Some(list), size)[1]

RustMapSet(map, key, a) == CMapSet(Some(map), Some(key), RustToC(a))[1]

RustMapErase(map, key) == CMapErase(Some(map), Some(key))[1]

RustMapFind(map, key) == CMapFind(Some(map), Some(key))

RustValueSet(value, a) == CValueSet(Some(value), RustToC(a))[1]

RustValueGet(value, type) == CValueGet(Some(value), type)

\* The variant of the value's own type, which its getter cannot refuse.
RustVariant(value) ==
  LET type == CValueGetType(Some(value))
  IN  IF type = "Null" THEN ToVariant(Null) ELSE ToVariant(<<type, RustValueGet(value, type)[1]>>)

RustFind(container, item) ==
  IF container[1] = "List" THEN RustListFind(container[2], item)
  ELSE RustMapFind(container[2], item)

\* unpack! of the items of a list or a map returns at the first one that is missing
\* or cannot be had as its type; items that are not asked for are not noticed.
RustUnpack(container, items, types, vars) ==
  LET Had(i) == LET found == RustFind(container, items[i])
                IN  IF found = None THEN None ELSE RustValueGet(found[1], types[i])
      got  == [i \in DOMAIN items |-> Had(i)]
      fail == {i \in DOMAIN items : Len(got[i]) # 1}
  IN  CASE fail = {} -> Unpacked([i \in DOMAIN items |-> got[i][1]])
        [] \E i \in fail : got[i] = Terminates /\ \A j \in fail : i <= j -> Ended(vars)
        [] OTHER -> Refused(vars)

RustListNext(list, it) == CListNext(list, it)
RustMapNext(map, it)   == CMapNext(map, it)

(***************************************************************************)
(* Python.  An int becomes the first alternative of the variant that can   *)
(* hold it; what none can hold is a TypeError.                             *)
(***************************************************************************)
PythonToVariant(a) ==
  IF a[1] = "Other" THEN None
  ELSE IF a[1] # "PyInt" THEN Some(a)
  ELSE CASE a[2] \in Ints         -> Some(<<"Int", a[2]>>)
         [] a[2] \in UInts \ Ints -> Some(<<"UInt", a[2]>>)
         [] OTHER                 -> Some(<<"Float", ToFloat(2 * a[2])>>)

\* A list from a sequence: all of it, or a TypeError and nothing.
PythonListFrom(objects) ==
  LET variants == [i \in DOMAIN objects |-> PythonToVariant(objects[i])]
  IN  IF \E i \in DOMAIN objects : variants[i] = None THEN None
      ELSE Some([i \in DOMAIN objects |-> ValueOf(variants[i][1])])

\* A map from a mapping, whose keys must be strings.
PythonMapFrom(objects) ==
  LET variants == [k \in DOMAIN objects |-> PythonToVariant(objects[k])]
  IN  IF \E k \in DOMAIN objects : variants[k] = None \/ k \notin Keys THEN None
      ELSE Some([k \in DOMAIN objects |-> ValueOf(variants[k][1])])

PythonListAppend(list, a) ==
  LET variant == PythonToVariant(a)
  IN  IF variant = None THEN list ELSE ListAppend(list, ValueOf(variant[1]))

\* The index is cut to C's int on the way to List::set and List::find.
PythonListSet(list, index, a) ==
  LET variant == PythonToVariant(a)
  IN  IF variant = None THEN list ELSE ListSet(list, Wrap(index, MaxIndex), ValueOf(variant[1]))

PythonListFind(list, index) ==
  LET found == ListFind(list, Wrap(index, MaxIndex))
  IN  IF found = None THEN None ELSE Some(ToVariant(found[1]))

PythonMapSet(map, key, a) ==
  LET variant == PythonToVariant(a)
  IN  IF variant = None THEN map ELSE MapSet(map, key, ValueOf(variant[1]))

PythonMapFind(map, key) ==
  LET found == MapFind(map, key)
  IN  IF found = None THEN None ELSE Some(ToVariant(found[1]))

PythonValueSet(value, a) ==
  LET variant == PythonToVariant(a)
  IN  IF variant = None THEN value ELSE ValueOf(variant[1])

\* Value.get: no getter of a type, only what the value is.
PythonValueGet(value, type) ==
  LET variant == ToVariant(value)
  IN  IF TypeName(variant) = type THEN Some(variant[2]) ELSE None

PythonListNext(list, it) ==
  IF HasNext(list, it) THEN <<Some(Current(list, it)), Increment(list, it)>> ELSE <<None, it>>

PythonMapNext(map, it) ==
  IF HasNext(map, it) THEN <<Some(Current(map, it)), Increment(map, it)>> ELSE <<None, it>>
=============================================================================
