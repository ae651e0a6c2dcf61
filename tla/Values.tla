------------------------------- MODULE Values -------------------------------
(***************************************************************************)
(* A value on its way through a program of several languages: stored,      *)
(* changed, unpacked, walked over and sent in a message, each time by code *)
(* in any of them.  `object' is the value, `meant' the argument it, or the *)
(* one scalar in it, was made from, `unpacked' what the last unpack left   *)
(* in the caller's variables, `walk' an iterator in use: whoever walks     *)
(* over a list or map leaves it alone until the walk is over.              *)
(***************************************************************************)
EXTENDS Bindings, Formats

CONSTANTS Numbers, Halves, Texts,    (* what is stored: integers, floats, strings  *)
          Indexes,                   (* the indexes tried                          *)
          Fillers,                   (* the arguments that lists and maps grow by  *)
          Wishes,                    (* the types of variables to unpack into      *)
          MaxLen, MaxNested,         (* bounds: elements, elements of elements     *)
          Untouched, Idle

\* There is a float near every number: its nearest one is not beyond the last.
ASSUME ValuesAssumption ==
  /\ Numbers \subseteq Int /\ Halves \subseteq Floats /\ Indexes \subseteq Int
  /\ Texts \subseteq Strings
  /\ \A n \in Numbers : \E u \in Units :
       2 * u \in Units /\ Reaches(u, 2 * n) /\ Reaches(u, -2 * n)
  /\ Wishes \subseteq Seq(Types \cup {"Int32", "UInt32", "Other"})
  /\ MaxLen \in Nat /\ MaxNested \in 0 .. MaxLen

VARIABLES object, meant, unpacked, walk

vars == <<object, meant, unpacked, walk>>

CNumbers(kind) ==
  CASE kind = "Int"    -> Numbers \cap Ints
    [] kind = "UInt"   -> Numbers \cap UInts
    [] kind = "Int32"  -> {n \in Numbers : Wrap(n, MaxInt32) = n}
    [] kind = "UInt32" -> {n \in Numbers : UWrap(n, MaxInt32) = n}

Integers(kinds) == UNION {{<<kind, n>> : n \in CNumbers(kind)} : kind \in kinds}

\* What a language can give to the functions that store a value.
Args(l) ==
  {<<"Bool", b>> : b \in BOOLEAN} \cup {<<"Float", h>> : h \in Halves}
  \cup {<<"String", s>> : s \in Texts}
  \cup (IF l \in {"C++", "C", "Rust", "Python"} THEN {Null} ELSE {})
  \cup (CASE l \in {"C++", "Go", "Rust"} -> Integers({"Int32", "UInt32", "Int", "UInt"})
          [] l = "C"                     -> Integers({"Int", "UInt"})
          [] l = "Python"                -> {<<"PyInt", n>> : n \in Numbers})
  \cup (CASE l = "C"                -> {"NullPointer", "NullList", "NilString"} \X {None}
          [] l = "Go"               -> {<<"NilString", None>>, <<"Other", None>>}
          [] l = "Python"           -> {<<"Other", None>>}
          [] l \in {"C++", "Rust"}  -> {})

(***************************************************************************)
(* The operations in each language.                                        *)
(***************************************************************************)
SetIn(l, value, a) ==
  CASE l = "C++"    -> ValueOf(a)
    [] l = "C"      -> CValueSet(Some(value), a)[1]
    [] l = "Go"     -> GoValueSet(value, a).value
    [] l = "Rust"   -> RustValueSet(value, a)
    [] l = "Python" -> PythonValueSet(value, a)

GetIn(l, value, type) ==
  CASE l = "C++"    -> Get(value, type)
    [] l = "C"      -> CValueGet(Some(value), type)
    [] l = "Go"     -> GoValueGet(value, type)
    [] l = "Rust"   -> RustValueGet(value, type)
    [] l = "Python" -> PythonValueGet(value, type)

AppendIn(l, list, a) ==
  CASE l = "C++"    -> ListAppend(list, ValueOf(a))
    [] l = "C"      -> CListAppend(Some(list), a)[1]
    [] l = "Go"     -> GoListAppend(list, a).list
    [] l = "Rust"   -> RustListAppend(list, a)
    [] l = "Python" -> PythonListAppend(list, a)

SetAtIn(l, list, index, a) ==
  CASE l = "C++"    -> ListSet(list, index, ValueOf(a))
    [] l = "C"      -> CListSet(Some(list), index, a)[1]
    [] l = "Go"     -> GoListSet(list, index, a)
    [] l = "Rust"   -> RustListSet(list, index, a)
    [] l = "Python" -> PythonListSet(list, index, a)

FindIn(l, list, index) ==
  CASE l = "C++"    -> ListFind(list, index)
    [] l = "C"      -> CListFind(Some(list), index)
    [] l = "Go"     -> GoListFind(list, index)
    [] l = "Rust"   -> RustListFind(list, index)
    [] l = "Python" -> PythonListFind(list, index)

ResizeIn(l, list, size) ==
  CASE l \in {"C++", "Python"} -> ListResize(list, size)
    [] l = "C"                 -> CListResize(Some(list), size)[1]
    [] l = "Go"                -> GoListResize(list, size)
    [] l = "Rust"              -> RustListResize(list, size)

SetKeyIn(l, map, key, a) ==
  CASE l = "C++"    -> MapSet(map, key, ValueOf(a))
    [] l = "C"      -> CMapSet(Some(map), Some(key), a)[1]
    [] l = "Go"     -> GoMapSet(map, Some(key), a).map
    [] l = "Rust"   -> RustMapSet(map, key, a)
    [] l = "Python" -> PythonMapSet(map, key, a)

FindKeyIn(l, map, key) ==
  CASE l = "C++"    -> MapFind(map, key)
    [] l = "C"      -> CMapFind(Some(map), Some(key))
    [] l = "Go"     -> GoMapFind(map, Some(key))
    [] l = "Rust"   -> RustMapFind(map, key)
    [] l = "Python" -> PythonMapFind(map, key)

\* Go has no erase.
EraseIn(l, map, key) ==
  CASE l \in {"C++", "Python"} -> MapErase(map, key)
    [] l = "C"                 -> CMapErase(Some(map), Some(key))[1]
    [] l = "Rust"              -> RustMapErase(map, key)

\* C and Python have no unpack, and Go gets one item of a map at a time.
UnpackIn(l, v, items, types, old) ==
  CASE l = "Rust" -> {RustUnpack(v, items, types, old)}
    [] l = "C++"  -> IF v[1] = "List" THEN Unpack(v[2], types, old)
                     ELSE {MapGet(v[2], items, types, old)}
    [] l = "Go"   -> IF v[1] = "List" THEN {GoUnpack(v[2], types, old)}
                     ELSE LET o == GoMapGet(v[2], Some(items[1]), types[1], old[1])
                          IN  {[o EXCEPT !.vars = <<o.vars>>]}

NextIn(l, v, it) ==
  LET isList == v[1] = "List"
  IN  CASE l = "C++"    -> IF HasNext(v, it) THEN <<Some(Current(v, it)), Increment(v, it)>>
                           ELSE <<None, it>>
        [] l = "C"      -> IF isList THEN CListNext(v, it) ELSE CMapNext(v, it)
        [] l = "Go"     -> IF isList THEN GoListNext(v, it) ELSE GoMapNext(v, it)
        [] l = "Rust"   -> IF isList THEN RustListNext(v, it) ELSE RustMapNext(v, it)
        [] l = "Python" -> IF isList THEN PythonListNext(v, it) ELSE PythonMapNext(v, it)

(***************************************************************************)
(* The program.                                                            *)
(***************************************************************************)
Nothing == [lang |-> Idle, items |-> None, types |-> None, status |-> "none", vars |-> None]

Init == object = Null /\ meant = Null /\ unpacked = Nothing /\ walk = Idle

\* The caller neither walks over the object nor has yet to look at its variables.
Free == walk = Idle /\ unpacked = Nothing

Becomes(v, from) ==
  /\ Free
  /\ object' = v /\ meant' = from
  /\ UNCHANGED <<unpacked, walk>>

IsFlat(v) == \A i \in DOMAIN v[2] : v[2][i][1] \notin {"List", "Map"}

\* What a list or map stores; a value takes an empty string whose pointer is null, too.
IsStored(a) == a[1] \notin {"NullPointer", "NullList", "NilString", "Other"}

Store ==
  \E l \in Languages : \E a \in Args(l) :
    Becomes(SetIn(l, object, a), CASE IsStored(a)        -> a
                                   [] a[1] = "NilString" -> <<"String", <<"empty">>>>
                                   [] OTHER              -> Idle)

\* make_list, list!, List(), and the same for maps: empty.
New == \E type \in {"List", "Map"} : Becomes(<<type, None>>, Idle)

\* A list or map of one element, the object.
Nest ==
  /\ object[1] \in {"List", "Map"} => IsFlat(object) /\ Cardinality(DOMAIN object[2]) <= MaxNested
  /\ LET self == <<"Value", object>>
     IN  \/ \E l \in Languages : Becomes(<<"List", AppendIn(l, None, self)>>, meant)
         \/ \E l \in Languages, k \in Keys : Becomes(<<"Map", SetKeyIn(l, None, k, self)>>, meant)
         \/ Becomes(<<"List", PythonListFrom(<<self>>)[1]>>, meant)
         \/ \E k \in Keys : Becomes(<<"Map", PythonMapFrom([x \in {k} |-> self])[1]>>, meant)

AppendOne ==
  /\ object[1] = "List" /\ IsFlat(object) /\ Len(object[2]) < MaxLen
  /\ \E l \in Languages : \E a \in Args(l) \cap Fillers : Becomes(<<"List", AppendIn(l, object[2], a)>>, Idle)

\* What the languages whose index is wider than C's int do not cut.
IsCIndex(i) == Wrap(i, MaxIndex) = i

SetOne ==
  /\ object[1] = "List" /\ IsFlat(object)
  /\ \E l \in Languages, i \in Indexes : \E a \in Args(l) \cap Fillers :
       /\ l \in {"C++", "C", "Rust"} => IsCIndex(i)
       /\ Becomes(<<"List", SetAtIn(l, object[2], i, a)>>, Idle)

Resize ==
  /\ object[1] = "List" /\ IsFlat(object)
  /\ \E l \in Languages, size \in 0 .. MaxLen :
       Becomes(<<"List", ResizeIn(l, object[2], size)>>, Idle)

\* The program ends, without a variable of its caller to be looked at.
End ==
  /\ Free
  /\ unpacked' = [Nothing EXCEPT !.status = "ends"]
  /\ UNCHANGED <<object, meant, walk>>

SetKeyEnds(l, map, key, a) == l = "C" /\ CMapSet(Some(map), Some(key), a) = Terminates

SetKey ==
  /\ object[1] = "Map" /\ IsFlat(object)
  /\ \E l \in Languages, k \in Keys : \E a \in Args(l) \cap Fillers :
       IF SetKeyEnds(l, object[2], k, a) THEN End
       ELSE Becomes(<<"Map", SetKeyIn(l, object[2], k, a)>>, Idle)

EraseKey ==
  /\ object[1] = "Map"
  /\ \E l \in Languages \ {"Go"}, k \in Keys : Becomes(<<"Map", EraseIn(l, object[2], k)>>, Idle)

Take ==
  /\ object[1] \in {"List", "Map"}
  /\ LET from == IF Cardinality(DOMAIN object[2]) = 1 THEN meant ELSE Idle
     IN  \/ /\ object[1] = "List"
            /\ \E l \in Languages, i \in Indexes :
                 /\ l \in {"C++", "C", "Rust"} => IsCIndex(i)
                 /\ FindIn(l, object[2], i) # None
                 /\ Becomes(FindIn(l, object[2], i)[1], from)
         \/ /\ object[1] = "Map"
            /\ \E l \in Languages, k \in Keys :
                 /\ FindKeyIn(l, object[2], k) # None
                 /\ Becomes(FindKeyIn(l, object[2], k)[1], from)

\* What a format does not carry: JSON and YAML no float that is NaN or infinite, YAML
\* no bytes.
Loses(format, v) ==
  \/ format \in {"json", "yaml"} /\ IsSpecial(v)
  \/ format = "yaml" /\ v = <<"String", <<"bytes">>>>

\* Sent and received: encoded by the one side and decoded by the other.
Transfer ==
  \E format \in FormatNames :
    LET sent == Encode(format, object)
    IN  /\ sent # None
        /\ Becomes(Decode(format, sent[1]),
                   IF meant = Idle \/ Loses(format, meant) THEN Idle ELSE meant)

Unpackers(types) ==
  IF \E i \in DOMAIN types : types[i] \in {"Int32", "UInt32", "Other"} THEN {"Go"}
  ELSE {"C++", "Go", "Rust"}

\* What is asked for: all of a list, or some keys of a map.
Items(v, types) ==
  IF v[1] = "List" THEN {[i \in DOMAIN types |-> i - 1]} ELSE [DOMAIN types -> Keys]

UnpackSome ==
  /\ Free
  /\ \E types \in Wishes : \E l \in Unpackers(types), items \in Items(object, types) :
       /\ object[1] = "List" \/ (object[1] = "Map" /\ (l = "Go" => Len(types) = 1))
       /\ \E o \in UnpackIn(l, object, items, types, [i \in DOMAIN types |-> Untouched]) :
            unpacked' = [lang |-> l, items |-> items, types |-> types,
                         status |-> o.status, vars |-> o.vars]
  /\ UNCHANGED <<object, meant, walk>>

\* The caller has what it wanted, or its error.
Look ==
  /\ unpacked.status \in {"ok", "error"}
  /\ unpacked' = Nothing
  /\ UNCHANGED <<object, meant, walk>>

BeginWalk ==
  /\ Free /\ object[1] \in {"List", "Map"}
  /\ \E l \in Languages : walk' = [lang |-> l, it |-> Begin(object), seen |-> None, over |-> FALSE]
  /\ UNCHANGED <<object, meant, unpacked>>

StepWalk ==
  /\ walk # Idle
  /\ LET next == NextIn(walk.lang, object, walk.it)
     IN  walk' = IF walk.over THEN Idle
                 ELSE IF next[1] = None THEN [walk EXCEPT !.over = TRUE]
                 ELSE [walk EXCEPT !.it = next[2], !.seen = Append(@, next[1][1])]
  /\ UNCHANGED <<object, meant, unpacked>>

Next ==
  \/ Store \/ New \/ Nest \/ AppendOne \/ SetOne \/ Resize \/ SetKey \/ EraseKey
  \/ Take \/ Transfer \/ UnpackSome \/ Look \/ BeginWalk \/ StepWalk

Spec == Init /\ [][Next]_vars
-----------------------------------------------------------------------------
(***************************************************************************)
(* Properties.                                                             *)
(***************************************************************************)
IsContainer(v, IsElement(_)) ==
  /\ \/ v[1] = "List" /\ v[2] \in Seq(Parts(v))
     \/ v[1] = "Map" /\ DOMAIN v[2] \subseteq Keys /\ v[2] \in [DOMAIN v[2] -> Parts(v)]
  /\ \A p \in Parts(v) : IsElement(p)

\* A value's data is data of its type, down to the elements of its elements; Python
\* and Rust see the type it has.
TypeOK ==
  LET IsScalar(v)  == v \in Scalars
      IsShallow(v) == IsScalar(v) \/ IsContainer(v, IsScalar)
  IN  /\ IsScalar(object) \/ IsContainer(object, IsShallow)
      /\ RustVariant(object) = object
      /\ unpacked.status \in {"none", "ok", "error", "ends"}
      /\ walk # Idle => walk.lang \in Languages /\ walk.over \in BOOLEAN

\* "UInt represents an unsigned 64-bit integer that cannot be represented as a signed
\* integer" (src/README.md:71): whichever language stored a number, and after any
\* number of messages in any format, so that equal numbers are equal values.
UIntIsLarge == \A v \in Within(object) : v[1] = "UInt" => v[2] > MaxInt

\* What reading an argument as a type is to give, from what the argument means.
Meant(a, type) ==
  CASE a[1] \in {"Int32", "UInt32", "Int", "UInt", "PyInt"} ->
         (CASE type = "Int"   -> IF a[2] \in Ints THEN Some(a[2]) ELSE None
            [] type = "UInt"  -> IF a[2] \in UInts THEN Some(a[2]) ELSE None
            [] type = "Float" -> Some(ToFloat(2 * a[2]))
            [] OTHER          -> None)
    [] OTHER -> IF a[1] = type THEN Some(a[2]) ELSE None

\* Stored as a float: one, or an int of Python that is in the range of no integer.
IsFloating(a) == a[1] = "Float" \/ (a[1] = "PyInt" /\ a[2] \notin Ints \cup UInts)

\* What is read of a text, of what YAML made a text, and of a float that MessagePack
\* made an integer, is more than what was meant.
ReadTypes(a, v) ==
  IF a[1] = "String" THEN {"String"}
  ELSE IF v[1] = "String" \/ (IsFloating(a) /\ v[1] # "Float")
  THEN {t \in Types : Meant(a, t) # None}
  ELSE Types

ReadsBack(a, v) ==
  \A type \in ReadTypes(a, v) :
    /\ \A m \in Languages \ {"Python"} : GetIn(m, v, type) = Meant(a, type)
    /\ GetIn("Python", v, type) # None => GetIn("Python", v, type) = Meant(a, type)

At(list, i) == IF i >= 0 THEN i + 1 ELSE Len(list) + 1 + i

\* What one language stores, every language reads back as what was meant, after it was
\* put in lists and maps and taken out again, and sent in any format that does not
\* lose it (Loses); as much of it as its type says, if the format changed the type.
StoresReadBack ==
  LET Inner(v) == IF Parts(v) = {} THEN v ELSE CHOOSE p \in Parts(v) : TRUE
      leaf     == Inner(Inner(object))
  IN  meant # Idle => ReadsBack(meant, leaf)

\* In the list or map that is the object, every language finds what is stored, and
\* nothing else changes; an index that is not there changes nothing.
IsFound(l, a, v) ==
  /\ object[1] = "List" =>
       LET old == object[2]
           new == AppendIn(l, old, a)
       IN  /\ Len(new) = Len(old) + 1 /\ SubSeq(new, 1, Len(old)) = old
           /\ \A m \in Languages : FindIn(m, new, -1) = v
           /\ IsCIndex(Len(old)) => \A m \in Languages : FindIn(m, new, Len(old)) = v
           /\ \A i \in {j \in Indexes : IsCIndex(j)} :
                LET set == SetAtIn(l, old, i, a)
                IN  IF At(old, i) \in DOMAIN old
                    THEN /\ FindIn(l, set, i) = v
                         /\ \A j \in DOMAIN old : j # At(old, i) => set[j] = old[j]
                    ELSE set = old /\ FindIn(l, set, i) = None
  /\ object[1] = "Map" =>
       \A k \in Keys :
         LET new == SetKeyIn(l, object[2], k, a)
         IN  /\ \A m \in Languages : FindKeyIn(m, new, k) = v
             /\ \A j \in Keys \ {k} : FindKeyIn(l, new, j) = FindKeyIn(l, object[2], j)

IsIgnored(l, a) ==
  /\ object[1] = "List" => /\ AppendIn(l, object[2], a) = object[2]
                           /\ \A i \in Indexes : SetAtIn(l, object[2], i, a) = object[2]
  /\ object[1] = "Map" => \A k \in Keys : \/ SetKeyIn(l, object[2], k, a) = object[2]
                                           \/ SetKeyEnds(l, object[2], k, a)

\* Storing in a list or map puts the value there, where every language finds it, and
\* changes nothing else; an index that is not there changes nothing.  Go and Python
\* reach as far as C's int does.  What is not stored changes nothing, a null pointer
\* or Go's zero string, about which Go says that it was stored (src/go/value.go:145),
\* unless the program ends; Go stores null for what it has no type for.
StoresWhereAsked ==
  Free => \A l \in Languages : \A a \in Args(l) :
    IF IsStored(a) \/ (l = "Go" /\ a[1] = "Other")
    THEN IsFound(l, a, Some(SetIn(l, object, a)))
    ELSE IsIgnored(l, a)

\* Unpacking a list in C++ and either in Rust assigns every variable what its value is
\* as the variable's type, or none of them (std::tie in src/traeger/value/List.hpp:89,
\* the tuple of src/rust/src/value.rs:1056).  The others may stop half way, but what
\* they assign is what the value is, and C++ tells when something is missing.
UnpackAllOrNothing ==
  LET u == unpacked
      Found(i) == RustFind(object, u.items[i])
      IsGot(i) == Found(i) # None /\ Some(u.vars[i]) = CValueGet(Found(i), u.types[i])
      whole == u.lang = "Rust" \/ (u.lang = "C++" /\ object[1] = "List")
      exact == \A i \in DOMAIN u.types : u.types[i] \notin {"Int32", "UInt32"} /\ IsCIndex(i - 1)
  IN  /\ u.status # "none" /\ exact => \A i \in DOMAIN u.vars : u.vars[i] = Untouched \/ IsGot(i)
      /\ whole /\ u.status # "ok" => \A i \in DOMAIN u.vars : u.vars[i] = Untouched
      /\ u.lang # "Go" /\ u.status = "ok" => \A i \in DOMAIN u.vars : IsGot(i)
      /\ u.lang # "Rust" /\ u.status = "ok" /\ object[1] = "List" => Len(u.types) = Len(object[2])

\* As much of v as the format keeps is in w, if `elements' says so of their elements.
SameMeaning(format, v, w, elements) ==
  IF v[1] \in {"List", "Map"}
  THEN IF w = Null
       THEN v[2] = None /\ (format = "json" => v[1] = "Map") /\ format # "msgpack"
       ELSE w[1] = v[1] /\ DOMAIN w[2] = DOMAIN v[2] /\ elements
  ELSE IF IsSpecial(v) /\ format = "json" THEN w = Null
  ELSE IF format # "yaml"
  THEN w = v \/ (format = "msgpack" /\ v[1] = "Float" /\ GetFloat(w) = Some(v[2]))
  ELSE \/ Loses(format, v)
       \/ \A type \in Types : Get(v, type) \in {None, Terminates} \/ Get(w, type) = Get(v, type)

\* Level by level, as values are written.
Same0(format, v, w) == SameMeaning(format, v, w, v[2] = w[2])
Same1(format, v, w) == SameMeaning(format, v, w, \A i \in DOMAIN v[2] : Same0(format, v[2][i], w[2][i]))
Same2(format, v, w) == SameMeaning(format, v, w, \A i \in DOMAIN v[2] : Same1(format, v[2][i], w[2][i]))

\* What was written reads like what was meant: JSON keeps a scalar, and makes null of
\* NaN and the infinite floats; MessagePack keeps it or makes an integer of a whole
\* float, which reads as the same float; YAML makes a string of it of which every
\* getter that had an answer makes the same again, NaN, the infinite floats and bytes
\* excepted; JSON makes nothing of an empty map, YAML of an empty list too.
WireKeepsMeaning ==
  Free => \A format \in FormatNames :
    LET sent == Encode(format, object)
    IN  /\ sent = None => format = "json"
        /\ sent # None => Same2(format, object, Decode(format, sent[1]))

\* An iterator comes once to every element, in order if it is a list's, and then
\* says that there are no more.
WalkVisitsOnce ==
  walk # Idle =>
    /\ \A i \in DOMAIN walk.seen :
         /\ object[1] = "List" => walk.seen[i] = <<i - 1, object[2][i]>>
         /\ object[1] = "Map" => walk.seen[i][2] = object[2][walk.seen[i][1]]
         /\ \A j \in DOMAIN walk.seen : walk.seen[i][1] = walk.seen[j][1] => i = j
    /\ walk.over => Len(walk.seen) = Cardinality(DOMAIN object[2])

\* "invalid cast in argument 0 from type Int to String" is an error that the sender is
\* told (src/traeger/tests/test-actor-define.cpp:100), not the end of the program.
BadCastIsAnError == unpacked.lang # Idle => unpacked.status # "ends"
=============================================================================
