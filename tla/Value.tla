------------------------------- MODULE Value -------------------------------
(***************************************************************************)
(* The values that actors exchange (src/traeger/value): a Value is null, a *)
(* boolean, a signed or unsigned integer, a float, a string, a list or a   *)
(* map from strings to values.  Values, lists and maps have value          *)
(* semantics, so the operations on them are operators here; they are used  *)
(* by the C interface and by the bindings in Bindings.                     *)
(*                                                                         *)
(* A Value is <<type, data>>, an optional is <<>> or <<x>>.  Integers have *)
(* a width of their own, given by the largest signed one; a float is       *)
(* counted in halves, or is NaN or infinite.  The sign of zero and numbers *)
(* beyond every float are left out.  Of a string only what the conversions *)
(* tell apart is kept: see Strings.                                        *)
(***************************************************************************)
EXTENDS Integers, Sequences, FiniteSets

CONSTANTS MaxInt,               (* 2^63 - 1 in the code                            *)
          Significand, Units,   (* a float is m * u, |m| < Significand and u a unit *)
          NaN, PosInf, NegInf,
          Keys

\* 2^53 and the powers of 2, of which there are so many that no number is too large.
ASSUME ValueAssumption ==
  /\ MaxInt \in Nat \ {0}
  /\ Significand \in Nat \ {0} /\ Significand % 2 = 0
  /\ Units \subseteq Nat \ {0} /\ 1 \in Units
  /\ \A u, w \in Units : w < u => 2 * w \in Units /\ u % (2 * w) = 0
  /\ {NaN, PosInf, NegInf} \cap Int = {}
  /\ IsFiniteSet(Keys)

MinInt  == -MaxInt - 1
MaxUInt == 2 * MaxInt + 1

Ints  == MinInt .. MaxInt
UInts == 0 .. MaxUInt

None    == <<>>
Some(x) == <<x>>

\* What a function declared noexcept returns when something in it throws: the
\* program ends.
Terminates == <<None, None>>

\* static_cast<Int> of an unsigned integer.
ToInt(u) == IF u > MaxInt THEN u - (MaxUInt + 1) ELSE u

(***************************************************************************)
(* Floats, and the nearest one to a number of halves: a multiple of the    *)
(* smallest unit that reaches it, to even when two are as near.            *)
(***************************************************************************)
FiniteFloats  == {s * m * u : s \in {1, -1}, m \in 0 .. Significand - 1, u \in Units}
SpecialFloats == {NaN, PosInf, NegInf}
Floats        == FiniteFloats \cup SpecialFloats

Reaches(unit, size) == size < Significand * unit

ToFloat(h) ==
  LET size == IF h < 0 THEN -h ELSE h
      unit == CHOOSE u \in Units : Reaches(u, size) /\ \A w \in Units : w < u => ~Reaches(w, size)
      m    == h \div unit
      rest == h % unit
      up   == 2 * rest > unit \/ (2 * rest = unit /\ m % 2 = 1)
  IN  (IF up THEN m + 1 ELSE m) * unit

(***************************************************************************)
(* Strings: the texts "true" and "false", the decimal text of an integer,  *)
(* of a float that is none, an integer followed by something else, words,  *)
(* the empty string, and bytes that are not UTF-8.                         *)
(***************************************************************************)
Strings ==
  {<<"true">>, <<"false">>, <<"word">>, <<"empty">>, <<"bytes">>}
  \cup ({"integer", "trailing", "point"} \X Int)

StringToBool(s) ==
  IF s \in {<<"true">>, <<"false">>} THEN Some(s = <<"true">>) ELSE None

\* std::stol throws when no integer, or one out of range, begins the text; get_int
\* is noexcept and nothing in between catches.
StringToInt(s) ==
  CASE s[1] = "integer"             -> IF s[2] \in Ints THEN Some(s[2]) ELSE Terminates
    [] s[1] \in {"trailing", "point"} -> None
    [] OTHER                        -> Terminates

\* std::stoul negates an unsigned number after a minus sign.
StringToUInt(s) ==
  IF s[1] = "integer" /\ s[2] \in -MaxUInt .. MaxUInt THEN Some(s[2] % (MaxUInt + 1)) ELSE None

StringToFloat(s) ==
  CASE s[1] = "integer" -> Some(ToFloat(2 * s[2]))
    [] s[1] = "point"   -> Some(ToFloat(s[2]))
    [] OTHER            -> None

(***************************************************************************)
(* Values.  An argument is <<kind, data>>: the kinds are the types of      *)
(* Value, 32 bit integers, and "Value" for a Value itself.                 *)
(***************************************************************************)
Null == <<"Null", None>>

Types == {"Null", "Bool", "Int", "UInt", "Float", "String", "List", "Map"}

Scalars ==
  {Null} \cup ({"Bool"} \X BOOLEAN) \cup ({"Int"} \X Ints) \cup ({"UInt"} \X UInts)
  \cup ({"Float"} \X Floats) \cup ({"String"} \X Strings)

IsSpecial(v)    == v[1] = "Float" /\ v[2] \in SpecialFloats
IsCollection(v) == v[1] \in {"List", "Map"}

\* What is in a value, and what is in that.
Parts(v)  == IF IsCollection(v) THEN {v[2][i] : i \in DOMAIN v[2]} ELSE {}
Within(v) == {v} \cup Parts(v) \cup UNION {Parts(p) : p \in Parts(v)}

\* Mutant: the alternative is chosen by the type of the argument.
FromUInt_ByType(u) == <<"UInt", u>>

FromUInt(u) == IF ToInt(u) >= 0 THEN <<"Int", ToInt(u)>> ELSE <<"UInt", u>>

ValueOf(a) ==
  CASE a[1] \in {"Int32", "UInt32"} -> <<"Int", a[2]>>
    [] a[1] = "UInt"                -> FromUInt(a[2])
    [] a[1] = "Value"               -> a[2]
    [] OTHER                        -> a

\* The alternative of the variant that is in use.
TypeName(v) == v[1]

GetNull(v) == IF v[1] = "Null" THEN Some(None) ELSE None

GetBool(v) ==
  CASE v[1] = "Bool"   -> Some(v[2])
    [] v[1] = "String" -> StringToBool(v[2])
    [] OTHER           -> None

GetInt(v) ==
  CASE v[1] = "Int"    -> Some(v[2])
    [] v[1] = "String" -> StringToInt(v[2])
    [] OTHER           -> None

\* Mutant: the sign of an Int is not looked at.
GetUInt_Cast(v) ==
  CASE v[1] = "Int"    -> Some(v[2] % (MaxUInt + 1))
    [] v[1] = "UInt"   -> Some(v[2])
    [] v[1] = "String" -> StringToUInt(v[2])
    [] OTHER           -> None

GetUInt(v) ==
  CASE v[1] = "Int" /\ v[2] >= 0 -> Some(v[2])
    [] v[1] = "UInt"             -> Some(v[2])
    [] v[1] = "String"           -> StringToUInt(v[2])
    [] OTHER                     -> None

GetFloat(v) ==
  CASE v[1] \in {"Int", "UInt"} -> Some(ToFloat(2 * v[2]))
    [] v[1] = "Float"           -> Some(v[2])
    [] v[1] = "String"          -> StringToFloat(v[2])
    [] OTHER                    -> None

GetString(v) == IF v[1] = "String" THEN Some(v[2]) ELSE None
GetList(v)   == IF v[1] = "List"   THEN Some(v[2]) ELSE None
GetMap(v)    == IF v[1] = "Map"    THEN Some(v[2]) ELSE None

\* Value::get<Arg>
Get(v, type) ==
  CASE type = "Null"   -> GetNull(v)
    [] type = "Bool"   -> GetBool(v)
    [] type = "Int"    -> GetInt(v)
    [] type = "UInt"   -> GetUInt(v)
    [] type = "Float"  -> GetFloat(v)
    [] type = "String" -> GetString(v)
    [] type = "List"   -> GetList(v)
    [] type = "Map"    -> GetMap(v)

\* Python's and Rust's view of a value, of exactly its own type.
ToVariant(v) == v

(***************************************************************************)
(* Lists are sequences.  An index below zero counts from the end; what the *)
(* code computes as a std::size_t is a position only when it is below the  *)
(* size.                                                                   *)
(***************************************************************************)
\* Mutant: -1 is the last but one.
Position_OffByOne(list, index) == IF index < 0 THEN index + Len(list) - 1 ELSE index

Position(list, index) == IF index < 0 THEN index + Len(list) ELSE index

HasPosition(list, index) == Position(list, index) \in 0 .. Len(list) - 1

ListAppend(list, v) == Append(list, v)

ListSet(list, index, v) ==
  IF HasPosition(list, index) THEN [list EXCEPT ![Position(list, index) + 1] = v] ELSE list

ListFind(list, index) ==
  IF HasPosition(list, index) THEN Some(list[Position(list, index) + 1]) ELSE None

ListResize(list, size) == [i \in 1 .. size |-> IF i <= Len(list) THEN list[i] ELSE Null]

\* List::get_index_arg: one argument of a tuple, or an exception.
GetIndexArg(list, index, type) ==
  LET found == ListFind(list, index)
  IN  IF found = None THEN None ELSE Get(found[1], type)

\* What unpacking does to the caller's variables, and whether it says so; "ends":
\* the program does.
Unpacked(vars)   == [status |-> "ok", vars |-> vars]
Refused(vars)    == [status |-> "error", vars |-> vars]
Ended(vars)      == [status |-> "ends", vars |-> vars]

\* Mutant: each variable is assigned as soon as its value was had.
Unpack_Early(list, types, vars) ==
  LET got == [i \in DOMAIN types |-> GetIndexArg(list, i - 1, types[i])]
      now == [i \in DOMAIN types |-> IF Len(got[i]) = 1 THEN got[i][1] ELSE vars[i]]
  IN  IF Len(types) # Len(list) THEN {Refused(vars)}
      ELSE IF \E i \in DOMAIN types : got[i] = Terminates THEN {Ended(vars)}
      ELSE IF \E i \in DOMAIN types : got[i] = None THEN {Refused(now)}
      ELSE {Unpacked(now)}

\* List::unpack: as many values as variables, each of which can be had as its
\* variable's type, in the order the compiler likes; the variables are assigned
\* together, after the last get.
Unpack(list, types, vars) ==
  LET got  == [i \in DOMAIN types |-> GetIndexArg(list, i - 1, types[i])]
      bad  == Len(types) # Len(list) \/ \E i \in DOMAIN types : got[i] = None
      ends == Len(types) = Len(list) /\ \E i \in DOMAIN types : got[i] = Terminates
  IN  IF ~bad /\ ~ends THEN {Unpacked([i \in DOMAIN types |-> got[i][1]])}
      ELSE (IF ends THEN {Ended(vars)} ELSE {}) \cup (IF bad THEN {Refused(vars)} ELSE {})

(***************************************************************************)
(* Maps are functions from a set of keys.                                  *)
(***************************************************************************)
MapSet(map, key, v) ==
  [k \in DOMAIN map \cup {key} |-> IF k = key THEN v ELSE map[k]]

MapErase(map, key) == [k \in DOMAIN map \ {key} |-> map[k]]

MapFind(map, key) == IF key \in DOMAIN map THEN Some(map[key]) ELSE None

\* Map::get: one key after the other, so a variable keeps what it got when a later
\* one cannot be had.
MapGet(map, keys, types, vars) ==
  LET got  == [i \in DOMAIN keys |-> LET found == MapFind(map, keys[i])
                                     IN  IF found = None THEN None ELSE Get(found[1], types[i])]
      Had(i) == \A j \in 1 .. i : got[j] \notin {None, Terminates}
      now  == [i \in DOMAIN vars |-> IF Had(i) THEN got[i][1] ELSE vars[i]]
      fail == {i \in DOMAIN keys : ~Had(i)}
  IN  CASE fail = {} -> Unpacked(now)
        [] \E i \in fail : got[i] = Terminates /\ \A j \in fail : i <= j -> Ended(now)
        [] OTHER -> Refused(now)

(***************************************************************************)
(* Iterators: where they are in their list, or which keys of their map     *)
(* they have not reached yet, in an order the map chooses.                 *)
(***************************************************************************)
Begin(v) == IF v[1] = "List" THEN [at |-> 0] ELSE [left |-> DOMAIN v[2]]

\* Mutant: the last element of a list is its end.
HasNext_Short(v, it) == IF v[1] = "List" THEN it.at + 1 < Len(v[2]) ELSE it.left # {}

HasNext(v, it) == IF v[1] = "List" THEN it.at # Len(v[2]) ELSE it.left # {}

Current(v, it) ==
  IF v[1] = "List" THEN <<it.at, v[2][it.at + 1]>>
  ELSE LET key == CHOOSE k \in it.left : TRUE IN <<key, v[2][key]>>

Increment(v, it) ==
  IF ~HasNext(v, it) THEN it
  ELSE IF v[1] = "List" THEN [at |-> it.at + 1]
  ELSE [left |-> it.left \ {Current(v, it)[1]}]
=============================================================================
