---------------------------- MODULE ValuesProofs ----------------------------
(***************************************************************************)
(* Proofs about Values: whatever the sizes of the integers, whatever the   *)
(* lists, maps and messages, a value is read as what was meant, is where   *)
(* it was put, is unpacked whole and is come to once.                      *)
(***************************************************************************)
EXTENDS Values, FiniteSetTheorems, SequenceTheorems, WellFoundedInduction, TLAPS

(***************************************************************************)
(* The inductive invariant.                                                *)
(***************************************************************************)
\* The scalars as they are stored: no UInt that an Int could be.
Canonical == {v \in Scalars : v[1] = "UInt" => v[2] > MaxInt}

Lists(S)       == {"List"} \X Seq(S)
MapsTo(S)      == UNION {[keys -> S] : keys \in SUBSET Keys}
Maps(S)        == {"Map"} \X MapsTo(S)
Collections(S) == Lists(S) \cup Maps(S)

Flat   == Canonical \cup Collections(Canonical)
Nested == Canonical \cup Collections(Flat)

ObjectInv == object \in Nested

\* The value that an argument becomes in every language, and what is left of it after
\* any number of messages.
Stored(a) == IF a[1] = "PyInt" THEN ValueOf(PythonToVariant(a)[1]) ELSE ValueOf(a)

Bytes == <<"String", <<"bytes">>>>

IsOf(a, v) ==
  \/ v = Stored(a)
  \/ /\ Stored(a) \notin {Null, Bytes} /\ ~IsSpecial(Stored(a))
     /\ v = <<"String", Text(Stored(a))>>
  \/ /\ Stored(a)[1] = "Float"
     /\ \E n \in Int : /\ ToFloat(2 * n) = Stored(a)[2]
                      /\ v \in {<<"Int", n>>, <<"UInt", n>>, <<"String", <<"integer", n>>>>}

Stores(l) == {a \in Args(l) : IsStored(a)}

\* A number is stored as what can hold it.
IsNumber(a) ==
  /\ a[1] \in {"Int32", "UInt32", "Int", "UInt", "PyInt"} /\ a = <<a[1], a[2]>> /\ a[2] \in Int
  /\ a[2] \in Ints => Stored(a) = <<"Int", a[2]>>
  /\ a[2] \in UInts \ Ints => Stored(a) = <<"UInt", a[2]>> /\ a[2] > MaxInt
  /\ a[2] \notin Ints \cup UInts => a[1] = "PyInt" /\ Stored(a) = <<"Float", ToFloat(2 * a[2])>>
  /\ ~IsSpecial(Stored(a))

\* What can be meant: a number, or a scalar of another type.
IsMeaning(a) ==
  /\ Stored(a) \in Canonical
  /\ IsNumber(a) \/ (a[1] \in {"Null", "Bool", "Float", "String"} /\ Stored(a) = a)

\* An argument, and the one scalar of v.
Carries(v, a, leaf) ==
  /\ leaf \in Canonical /\ IsOf(a, leaf)
  /\ \/ v = leaf
     \/ Parts(v) = {leaf}
     \/ \E p \in Parts(v) : Parts(v) = {p} /\ Parts(p) = {leaf}

\* What was meant is the one scalar of the object.
MeantInv ==
  meant # Idle => /\ IsMeaning(meant)
                  /\ \E leaf \in Within(object) : Carries(object, meant, leaf)

\* The program ended in SetKey, or nobody has touched the object since it was unpacked.
UnpackedInv ==
  \/ unpacked = Nothing
  \/ unpacked = [lang |-> Idle, items |-> None, types |-> None, status |-> "ends", vars |-> None]
  \/ \E types \in Wishes : \E l \in Unpackers(types), items \in Items(object, types) :
       /\ object[1] = "List" \/ (object[1] = "Map" /\ (l = "Go" => Len(types) = 1))
       /\ \E o \in UnpackIn(l, object, items, types, [i \in DOMAIN types |-> Untouched]) :
            unpacked = [lang |-> l, items |-> items, types |-> types,
                        status |-> o.status, vars |-> o.vars]

\* Where an iterator is tells what it has come to.
WalkedList ==
  LET data == object[2]
  IN  /\ walk.it = [at |-> Len(walk.seen)]
      /\ Len(walk.seen) \in 0 .. Len(data)
      /\ walk.seen = [i \in 1 .. Len(walk.seen) |-> <<i - 1, data[i]>>]
      /\ walk.over => Len(walk.seen) = Len(data)

WalkedMap ==
  LET data == object[2]
      done == DOMAIN data \ walk.it.left
  IN  /\ walk.it = [left |-> walk.it.left] /\ walk.it.left \subseteq DOMAIN data
      /\ walk.seen \in Seq({<<k, data[k]>> : k \in done})
      /\ Len(walk.seen) = Cardinality(done)
      /\ \A i, j \in DOMAIN walk.seen : walk.seen[i][1] = walk.seen[j][1] => i = j
      /\ walk.over => walk.it.left = {}

WalkInv ==
  walk # Idle =>
    /\ walk.lang \in Languages /\ walk.over \in BOOLEAN
    /\ walk = [lang |-> walk.lang, it |-> walk.it, seen |-> walk.seen, over |-> walk.over]
    /\ \/ object[1] = "List" /\ WalkedList
       \/ object[1] = "Map" /\ WalkedMap

IInv == ObjectInv /\ MeantInv /\ UnpackedInv /\ WalkInv
-----------------------------------------------------------------------------
(***************************************************************************)
(* Numbers.                                                                *)
(***************************************************************************)

LEMMA Multiples ==
  ASSUME NEW k \in Int, NEW w \in Nat \ {0}
  PROVE  (k * w) \div w = k /\ (k * w) % w = 0
OBVIOUS

LEMMA LeastUnit ==
  ASSUME NEW size \in Nat, NEW u \in Units, Reaches(u, size)
  PROVE  \E v \in Units : /\ Reaches(v, size) /\ v <= u
                          /\ \A w \in Units : w < v => ~Reaches(w, size)
<1> DEFINE T == {v \in Units : Reaches(v, size)}
<1>1. T \subseteq Nat /\ T # {}
  BY ValueAssumption
<1>2. PICK v \in T : \A w \in T : ~(<<w, v>> \in OpToRel(<, Nat))
  BY <1>1, WFMin, NatLessThanWellFounded
<1>3. \A w \in T : ~(w < v)
  BY <1>1, <1>2 DEF OpToRel
<1>4. u \in T /\ v \in Units
  OBVIOUS
<1> QED
  BY <1>1, <1>3, <1>4

\* Without its sign, and the nearest multiple of a unit.
Size(x) == IF x < 0 THEN -x ELSE x

Nearest(x, unit) ==
  LET m    == x \div unit
      rest == x % unit
      up   == 2 * rest > unit \/ (2 * rest = unit /\ m % 2 = 1)
  IN  (IF up THEN m + 1 ELSE m) * unit

LEMMA NearestUnit ==
  ASSUME NEW x \in Int, NEW u \in Units, Reaches(u, x), Reaches(u, -x)
  PROVE  \E v \in Units : Reaches(v, Size(x)) /\ v <= u /\ ToFloat(x) = Nearest(x, v)
<1> DEFINE Least(v) == Reaches(v, Size(x)) /\ \A w \in Units : w < v => ~Reaches(w, Size(x))
           unit == CHOOSE v \in Units : Least(v)
<1>1. Size(x) \in Nat /\ Reaches(u, Size(x))
  BY DEF Size
<1>2. PICK v \in Units : Least(v) /\ v <= u
  BY <1>1, LeastUnit
<1>3. unit \in Units /\ Least(unit)
  BY <1>2
<1>4. unit = v
  <2>1. ~(unit < v) /\ ~(v < unit)
    BY <1>2, <1>3
  <2>2. unit \in Nat /\ v \in Nat
    BY <1>2, <1>3, ValueAssumption
  <2> HIDE DEF unit
  <2> QED
    BY <2>1, <2>2
<1>5. ToFloat(x) = Nearest(x, unit)
  BY DEF ToFloat, Nearest, Size
<1> QED
  BY <1>2, <1>4, <1>5

\* A float is its own nearest one.
LEMMA FloatsStay ==
  ASSUME NEW f \in FiniteFloats
  PROVE  f \in Int /\ ToFloat(f) = f /\ f \notin SpecialFloats
<1>1. PICK s \in {1, -1}, m \in 0 .. Significand - 1, u \in Units : f = s * m * u
  BY DEF FiniteFloats
<1>2. u \in Nat \ {0} /\ Significand \in Nat /\ m \in Nat
  BY <1>1, ValueAssumption
<1>3. f \in Int
  BY <1>1, <1>2
<1>4. m * u < Significand * u /\ -(m * u) < Significand * u
  BY <1>1, <1>2
<1>5. f = m * u \/ f = -(m * u)
  BY <1>1, <1>2
<1>6. Reaches(u, f) /\ Reaches(u, -f)
  BY <1>2, <1>4, <1>5 DEF Reaches
<1>7. PICK v \in Units : v <= u /\ ToFloat(f) = Nearest(f, v)
  BY <1>3, <1>6, NearestUnit
<1>8. v \in Nat \ {0}
  BY ValueAssumption
<1>9. PICK q \in Nat : u = q * v
  <2>1. CASE u = v
    <3>1. u = 1 * v /\ 1 \in Nat
      BY <2>1, <1>8
    <3> QED
      BY <3>1
  <2>2. CASE u # v
    <3>1. u % (2 * v) = 0 /\ 2 * v \in Nat \ {0}
      BY <2>2, <1>2, <1>7, <1>8, ValueAssumption
    <3>2. u = (2 * v) * (u \div (2 * v)) /\ u \div (2 * v) \in Nat
      BY <3>1, <1>2
    <3>3. u = (2 * (u \div (2 * v))) * v
      BY <3>2, <1>8
    <3> QED
      BY <3>2, <3>3
  <2> QED
    BY <2>1, <2>2
<1>10. f = (s * m * q) * v /\ s * m * q \in Int
  BY <1>1, <1>2, <1>8, <1>9
<1>11. f \div v = s * m * q /\ f % v = 0
  BY <1>10, <1>8, Multiples
<1>12. f \notin SpecialFloats
  BY <1>3, ValueAssumption DEF SpecialFloats
<1> QED
  BY <1>3, <1>7, <1>8, <1>10, <1>11, <1>12 DEF Nearest

\* The nearest float to what the units reach is one.
LEMMA FloatsAreNear ==
  ASSUME NEW x \in Int, NEW u \in Units, 2 * u \in Units, Reaches(u, x), Reaches(u, -x)
  PROVE  ToFloat(x) \in FiniteFloats
<1>1. PICK v \in Units : Reaches(v, Size(x)) /\ v <= u /\ ToFloat(x) = Nearest(x, v)
  BY NearestUnit
<1>2. v \in Nat \ {0} /\ u \in Nat /\ 2 * v \in Units
  BY <1>1, ValueAssumption
<1>3. Significand \in Nat \ {0} /\ Significand % 2 = 0
  BY ValueAssumption
<1> DEFINE m    == x \div v
           rest == x % v
<1>4. m \in Int /\ rest \in 0 .. v - 1 /\ x = m * v + rest
  BY <1>2
<1>5. x < Significand * v /\ -x < Significand * v
  BY <1>1, <1>2, <1>3 DEF Reaches, Size
<1>6. m < Significand
  <2>1. m * v < Significand * v
    BY <1>2, <1>3, <1>4, <1>5
  <2> QED
    BY <2>1, <1>2, <1>3, <1>4
<1>7. m >= -Significand
  <2>1. (-Significand - 1) * v < m * v
    BY <1>2, <1>3, <1>4, <1>5
  <2> QED
    BY <2>1, <1>2, <1>3, <1>4
<1>8. PICK r \in Int : /\ ToFloat(x) = r * v
                       /\ -Significand <= r /\ r <= Significand
  BY <1>1, <1>4, <1>6, <1>7, <1>3 DEF Nearest
<1>9. PICK half \in Nat : Significand = 2 * half /\ half \in 0 .. Significand - 1
  BY <1>3
<1>10. CASE r \in 0 .. Significand - 1
  <2>1. ToFloat(x) = 1 * r * v
    BY <1>8, <1>10, <1>2
  <2> QED
    BY <2>1, <1>10 DEF FiniteFloats
<1>11. CASE -r \in 0 .. Significand - 1
  <2>1. ToFloat(x) = (-1) * (-r) * v
    BY <1>8, <1>11, <1>2
  <2> QED
    BY <2>1, <1>11 DEF FiniteFloats
<1>12. CASE r = Significand
  <2>1. ToFloat(x) = 1 * half * (2 * v)
    BY <1>8, <1>9, <1>12, <1>2
  <2> QED
    BY <2>1, <1>2, <1>9 DEF FiniteFloats
<1>13. CASE r = -Significand
  <2>1. ToFloat(x) = (-1) * half * (2 * v)
    BY <1>8, <1>9, <1>13, <1>2
  <2> QED
    BY <2>1, <1>2, <1>9 DEF FiniteFloats
<1> QED
  BY <1>3, <1>8, <1>10, <1>11, <1>12, <1>13

(***************************************************************************)
(* Scalars, and what is stored of an argument.                             *)
(***************************************************************************)

LEMMA ScalarKinds ==
  ASSUME NEW v \in Canonical
  PROVE  \/ v = Null
         \/ v = <<"Bool", v[2]>> /\ v[2] \in BOOLEAN
         \/ v = <<"Int", v[2]>> /\ v[2] \in Ints
         \/ v = <<"UInt", v[2]>> /\ v[2] \in UInts /\ v[2] > MaxInt
         \/ v = <<"Float", v[2]>> /\ v[2] \in Floats
         \/ v = <<"String", v[2]>> /\ v[2] \in Strings
BY DEF Canonical, Scalars

LEMMA AreScalars ==
  /\ Null \in Canonical
  /\ \A b \in BOOLEAN : <<"Bool", b>> \in Canonical
  /\ \A n \in Ints : <<"Int", n>> \in Canonical
  /\ \A n \in UInts : n > MaxInt => <<"UInt", n>> \in Canonical
  /\ \A h \in Floats : <<"Float", h>> \in Canonical
  /\ \A s \in Strings : <<"String", s>> \in Canonical
BY DEF Canonical, Scalars, Null

LEMMA ScalarsHoldNothing ==
  ASSUME NEW v \in Canonical
  PROVE  ~IsCollection(v) /\ Parts(v) = {} /\ Within(v) = {v}
BY ScalarKinds DEF IsCollection, Parts, Within, Null

LEMMA TextKinds ==
  ASSUME NEW s \in Strings
  PROVE  \/ s \in {<<"true">>, <<"false">>, <<"word">>, <<"empty">>, <<"bytes">>}
         \/ \E n \in Int : s \in {<<"integer", n>>, <<"trailing", n>>, <<"point", n>>}
BY DEF Strings

LEMMA UIntsStored ==
  ASSUME NEW n \in UInts
  PROVE  /\ n <= MaxInt => FromUInt(n) = <<"Int", n>> /\ n \in Ints
         /\ n > MaxInt => FromUInt(n) = <<"UInt", n>>
         /\ FromUInt(n) \in Canonical
<1>1. n \in Int /\ MaxInt \in Nat /\ 0 <= n /\ n <= 2 * MaxInt + 1
  BY ValueAssumption DEF UInts, MaxUInt
<1>2. n <= MaxInt => FromUInt(n) = <<"Int", n>> /\ n \in Ints
  BY <1>1 DEF FromUInt, ToInt, Ints, MinInt
<1>3. n > MaxInt => FromUInt(n) = <<"UInt", n>>
  BY <1>1 DEF FromUInt, ToInt, MaxUInt
<1> QED
  BY <1>1, <1>2, <1>3, AreScalars

\* What each language's numbers are.
LEMMA NumbersFit ==
  /\ \A n \in CNumbers("Int") : n \in Ints
  /\ \A n \in CNumbers("UInt") : n \in UInts
  /\ \A n \in CNumbers("Int32") : n \in Ints
  /\ \A n \in CNumbers("UInt32") : n \in Ints /\ n \in UInts /\ n <= MaxInt
<1>1. MaxInt \in Nat /\ MaxInt32 \in Nat /\ 2 * MaxInt32 + 1 <= MaxInt /\ Numbers \subseteq Int
  BY ValueAssumption, BindingsAssumption, ValuesAssumption
<1>2. ASSUME NEW n \in Int, Wrap(n, MaxInt32) = n
      PROVE  n \in Ints
  BY <1>1, <1>2 DEF Wrap, Ints, MinInt
<1>3. ASSUME NEW n \in Int, UWrap(n, MaxInt32) = n
      PROVE  n \in Ints /\ n \in UInts /\ n <= MaxInt
  BY <1>1, <1>3 DEF UWrap, Ints, UInts, MinInt, MaxUInt
<1> QED
  BY <1>1, <1>2, <1>3 DEF CNumbers

LEMMA ArgKinds ==
  ASSUME NEW l \in Languages, NEW a \in Args(l)
  PROVE  \/ a = Null
         \/ a = <<"Bool", a[2]>> /\ a[2] \in BOOLEAN
         \/ a = <<"Float", a[2]>> /\ a[2] \in Halves
         \/ a = <<"String", a[2]>> /\ a[2] \in Texts
         \/ \E kind \in {"Int32", "UInt32", "Int", "UInt"} :
              /\ l \in {"C++", "Go", "Rust"} \/ (l = "C" /\ kind \in {"Int", "UInt"})
              /\ a = <<kind, a[2]>> /\ a[2] \in CNumbers(kind)
         \/ a = <<"PyInt", a[2]>> /\ a[2] \in Numbers /\ l = "Python"
         \/ a \in {<<"NullPointer", None>>, <<"NullList", None>>} /\ l = "C"
         \/ a = <<"NilString", None>> /\ l \in {"C", "Go"}
         \/ a = <<"Other", None>> /\ l \in {"Go", "Python"}
BY DEF Languages, Args, Integers

LEMMA StoredScalar ==
  ASSUME NEW l \in Languages, NEW a \in Stores(l)
  PROVE  IsMeaning(a)
<1>1. a \in Args(l) /\ a[1] \notin {"NullPointer", "NullList", "NilString", "Other"}
  BY DEF Stores, IsStored
<1>2. MaxInt \in Nat /\ \A n \in Ints : n <= MaxInt
  BY ValueAssumption DEF Ints
<1>3. ASSUME a = Null
      PROVE  Stored(a) = a /\ Stored(a) \in Canonical
  BY <1>3, AreScalars DEF Stored, ValueOf, Null
<1>4. ASSUME a = <<"Bool", a[2]>>, a[2] \in BOOLEAN
      PROVE  Stored(a) = a /\ Stored(a) \in Canonical
  <2>1. Stored(a) = a /\ a[1] = "Bool"
    BY <1>4 DEF Stored, ValueOf
  <2> QED
    BY <2>1, <1>4, AreScalars
<1>5. ASSUME a = <<"Float", a[2]>>, a[2] \in Halves
      PROVE  Stored(a) = a /\ Stored(a) \in Canonical
  <2>1. Stored(a) = a /\ a[1] = "Float"
    BY <1>5 DEF Stored, ValueOf
  <2> QED
    BY <2>1, <1>5, AreScalars, ValuesAssumption
<1>6. ASSUME a = <<"String", a[2]>>, a[2] \in Texts
      PROVE  Stored(a) = a /\ Stored(a) \in Canonical
  <2>1. Stored(a) = a /\ a[1] = "String"
    BY <1>6 DEF Stored, ValueOf
  <2> QED
    BY <2>1, <1>6, AreScalars, ValuesAssumption
<1>7. ASSUME NEW kind \in {"Int32", "UInt32"}, a = <<kind, a[2]>>, a[2] \in CNumbers(kind)
      PROVE  a[2] \in Ints /\ Stored(a) = <<"Int", a[2]>>
  BY <1>7, NumbersFit DEF Stored, ValueOf
<1>8. ASSUME a = <<"Int", a[2]>>, a[2] \in CNumbers("Int")
      PROVE  a[2] \in Ints /\ Stored(a) = <<"Int", a[2]>>
  BY <1>8, NumbersFit DEF Stored, ValueOf
<1>9. ASSUME a = <<"UInt", a[2]>>, a[2] \in CNumbers("UInt")
      PROVE  a[2] \in UInts /\ Stored(a) = FromUInt(a[2])
  BY <1>9, NumbersFit DEF Stored, ValueOf
<1>10. ASSUME a = <<"PyInt", a[2]>>, a[2] \in Numbers
       PROVE  IsNumber(a) /\ Stored(a) \in Canonical
  <2>1. a[2] \in Int
    BY <1>10, ValuesAssumption
  <2>2. a[2] \in Ints => Stored(a) = <<"Int", a[2]>>
    BY <1>10 DEF Stored, PythonToVariant, ValueOf, Some
  <2>3. a[2] \in UInts \ Ints => Stored(a) = <<"UInt", a[2]>> /\ a[2] > MaxInt
    <3>1. a[2] \in UInts \ Ints => Stored(a) = FromUInt(a[2])
      BY <1>10 DEF Stored, PythonToVariant, ValueOf, Some
    <3>2. a[2] \in UInts \ Ints => a[2] > MaxInt
      BY <2>1, ValueAssumption DEF UInts, Ints, MinInt
    <3> QED
      BY <3>1, <3>2, UIntsStored
  <2>4. a[2] \notin Ints \cup UInts => Stored(a) = <<"Float", ToFloat(2 * a[2])>>
    BY <1>10 DEF Stored, PythonToVariant, ValueOf, Some
  <2>5. ToFloat(2 * a[2]) \in Floats /\ ToFloat(2 * a[2]) \notin SpecialFloats
    <3>1. PICK u \in Units : 2 * u \in Units /\ Reaches(u, 2 * a[2]) /\ Reaches(u, -2 * a[2])
      BY <1>10, ValuesAssumption
    <3>2. -2 * a[2] = -(2 * a[2]) /\ 2 * a[2] \in Int
      BY <2>1
    <3> QED
      BY <3>1, <3>2, FloatsAreNear, FloatsStay DEF Floats
  <2>6. ~IsSpecial(Stored(a))
    BY <2>2, <2>3, <2>4, <2>5 DEF IsSpecial
  <2> QED
    BY <1>10, <2>1, <2>2, <2>3, <2>4, <2>5, <2>6, AreScalars DEF IsNumber
<1>11. ASSUME NEW kind \in {"Int32", "UInt32", "Int", "UInt"},
              a = <<kind, a[2]>>, a[2] \in CNumbers(kind)
       PROVE  IsNumber(a) /\ Stored(a) \in Canonical
  <2>1. a[2] \in Ints \cup UInts /\ a[2] \in Int
    BY <1>11, NumbersFit DEF Ints, UInts
  <2>2. a[2] \in Ints => Stored(a) = <<"Int", a[2]>>
    BY <1>2, <1>7, <1>8, <1>9, <1>11, UIntsStored
  <2>3. a[2] \in UInts \ Ints => Stored(a) = <<"UInt", a[2]>> /\ a[2] > MaxInt
    BY <1>2, <1>7, <1>8, <1>9, <1>11, <2>1, UIntsStored DEF UInts
  <2>4. ~IsSpecial(Stored(a))
    BY <2>1, <2>2, <2>3 DEF IsSpecial
  <2> QED
    BY <1>11, <2>1, <2>2, <2>3, <2>4, AreScalars DEF IsNumber
<1>12. a[1] = "PyInt" \/ a[1] \in {"Int32", "UInt32", "Int", "UInt"} => IsNumber(a) /\ Stored(a) \in Canonical
  BY <1>10, <1>11, <1>1, ArgKinds DEF Null
<1>13. a[1] \in {"Null", "Bool", "Float", "String"} => Stored(a) = a /\ Stored(a) \in Canonical
  BY <1>1, <1>3, <1>4, <1>5, <1>6, ArgKinds DEF Null
<1>14. a[1] \in {"PyInt", "Int32", "UInt32", "Int", "UInt", "Null", "Bool", "Float", "String"}
  BY <1>1, ArgKinds DEF Null
<1> QED
  BY <1>12, <1>13, <1>14 DEF IsMeaning

(***************************************************************************)
(* Every language does the same to lists and maps: with the value that an  *)
(* argument is stored as, or that it is, and at the index it can tell.     *)
(***************************************************************************)
Given(l, a, v) ==
  \/ a \in Stores(l) /\ v = Stored(a)
  \/ a = <<"Value", v>>
  \/ l = "Go" /\ a = <<"Other", None>> /\ v = Null

Converts(l, a, v) ==
  /\ l = "C++" => ValueOf(a) = v
  /\ l = "C" => CStorable(a) /\ ValueOf(a) = v
  /\ l = "Go" => CStorable(GoToC(a)) /\ ValueOf(GoToC(a)) = v
  /\ l = "Rust" => CStorable(RustToC(a)) /\ ValueOf(RustToC(a)) = v
  /\ l = "Python" => PythonToVariant(a) # None /\ ValueOf(PythonToVariant(a)[1]) = v

LEMMA Conversions ==
  ASSUME NEW l \in Languages, NEW a, NEW v, Given(l, a, v)
  PROVE  Converts(l, a, v)
<1>1. CASE a = <<"Value", v>>
  BY <1>1 DEF Converts, ValueOf, CStorable, GoToC, RustToC, PythonToVariant, Some, None
<1>2. CASE a \in Stores(l) /\ v = Stored(a)
  <2>1. a \in Args(l) /\ a[1] \notin {"NullPointer", "NullList", "NilString", "Other"}
    BY <1>2 DEF Stores, IsStored
  <2>2. ASSUME a[1] \in {"Null", "Bool", "Float", "String"}
        PROVE  Converts(l, a, v)
    BY <1>2, <2>2 DEF Stored, Converts, ValueOf, CStorable, GoToC, RustToC, PythonToVariant, Some,
       None
  <2>3. ASSUME a = <<"PyInt", a[2]>>, l = "Python"
        PROVE  Converts(l, a, v)
    BY <1>2, <2>3 DEF Stored, Converts, PythonToVariant, Some, None
  <2>4. ASSUME NEW kind \in {"Int32", "UInt32", "Int", "UInt"},
               l \in {"C++", "Go", "Rust"} \/ (l = "C" /\ kind \in {"Int", "UInt"}),
               a = <<kind, a[2]>>, a[2] \in CNumbers(kind)
        PROVE  Converts(l, a, v)
    <3>1. v = ValueOf(a) /\ CStorable(a)
      BY <1>2, <2>4 DEF Stored, CStorable
    <3>2. CStorable(GoToC(a)) /\ ValueOf(GoToC(a)) = v
      <4>1. CASE kind = "UInt32"
        BY <2>4, <3>1, <4>1, NumbersFit, UIntsStored DEF GoToC, ValueOf, CStorable
      <4>2. CASE kind # "UInt32"
        BY <2>4, <3>1, <4>2 DEF GoToC, ValueOf, CStorable
      <4> QED
        BY <4>1, <4>2
    <3>3. CStorable(RustToC(a)) /\ ValueOf(RustToC(a)) = v
      BY <2>4, <3>1 DEF RustToC, ValueOf, CStorable
    <3> QED
      BY <2>4, <3>1, <3>2, <3>3 DEF Converts
  <2> QED
    BY <2>1, <2>2, <2>3, <2>4, ArgKinds DEF Null
<1>3. CASE l = "Go" /\ a = <<"Other", None>> /\ v = Null
  BY <1>3 DEF Converts, ValueOf, CStorable, GoToC, Null
<1> QED
  BY <1>1, <1>2, <1>3 DEF Given

\* The index that a language's find and set hand on.
IndexIn(l, i) == IF l \in {"Go", "Python"} THEN Wrap(i, MaxIndex) ELSE i

LEMMA AppendOperation ==
  ASSUME NEW l \in Languages, NEW a, NEW v, Given(l, a, v), NEW list
  PROVE  AppendIn(l, list, a) = Append(list, v)
BY Conversions DEF Languages, Converts, AppendIn, ListAppend, CListAppend, GoListAppend,
                   RustListAppend, PythonListAppend, Some, None

LEMMA SetAtOperation ==
  ASSUME NEW l \in Languages, NEW a, NEW v, Given(l, a, v), NEW list, NEW i
  PROVE  SetAtIn(l, list, i, a) = ListSet(list, IndexIn(l, i), v)
BY Conversions DEF Languages, Converts, SetAtIn, IndexIn, CListSet, GoListSet,
                   RustListSet, PythonListSet, Some, None

LEMMA SetKeyOperation ==
  ASSUME NEW l \in Languages, NEW a, NEW v, Given(l, a, v), NEW map, NEW key
  PROVE  SetKeyIn(l, map, key, a) = MapSet(map, key, v)
BY Conversions DEF Languages, Converts, SetKeyIn, CMapSet, CStorable, GoMapSet, RustMapSet,
   PythonMapSet, Some, None

LEMMA StoreOperation ==
  ASSUME NEW l \in Languages, NEW a, NEW v, Given(l, a, v), NEW value
  PROVE  SetIn(l, value, a) = v
<1>1. Converts(l, a, v)
  BY Conversions
<1>2. a[1] \notin {"NullPointer", "NullList", "NilString"}
  BY DEF Given, Stores, IsStored
<1>3. l = "C" => CValueSet(Some(value), a)[1] = v
  BY <1>1, <1>2 DEF Converts, CValueSet, Some, None
<1>4. l = "Go" => GoValueSet(value, a).value = v
  BY <1>1, <1>2 DEF Converts, CValueSet, GoValueSet, GoToC, CStorable, Some, None
<1>5. l = "Rust" => RustValueSet(value, a) = v
  BY <1>1, <1>2 DEF Converts, CValueSet, RustValueSet, RustToC, CStorable, Some, None
<1>6. l = "Python" => PythonValueSet(value, a) = v
  BY <1>1 DEF Converts, PythonValueSet
<1>7. l = "C++" => ValueOf(a) = v
  BY <1>1 DEF Converts
<1> QED
  BY <1>3, <1>4, <1>5, <1>6, <1>7 DEF Languages, SetIn

\* What is not stored changes nothing, or ends the program.
Harmless(l, a) ==
  \/ a \in {<<"NullPointer", None>>, <<"NullList", None>>} /\ l = "C"
  \/ a = <<"NilString", None>> /\ l \in {"C", "Go"}
  \/ a = <<"Other", None>> /\ l = "Python"

LEMMA ArgCases ==
  ASSUME NEW l \in Languages, NEW a \in Args(l)
  PROVE  IF IsStored(a) \/ (l = "Go" /\ a[1] = "Other")
         THEN \E v \in Canonical : Given(l, a, v)
         ELSE Harmless(l, a)
<1>1. IsStored(a) => Given(l, a, Stored(a)) /\ Stored(a) \in Canonical
  BY StoredScalar DEF Given, Stores, IsMeaning
<1>2. l = "Go" /\ a[1] = "Other" => Given(l, a, Null)
  BY ArgKinds DEF Given, Null
<1>3. ~IsStored(a) /\ ~(l = "Go" /\ a[1] = "Other") => Harmless(l, a)
  BY ArgKinds DEF Harmless, IsStored, Null
<1> QED
  BY <1>1, <1>2, <1>3, AreScalars

LEMMA NotSet ==
  ASSUME NEW l, NEW a, NEW value, Harmless(l, a)
  PROVE  \/ SetIn(l, value, a) = value /\ a[1] # "NilString"
         \/ SetIn(l, value, a) = <<"String", <<"empty">>>> /\ a[1] = "NilString"
BY DEF Harmless, SetIn, CValueSet, GoValueSet, PythonValueSet, GoToC, PythonToVariant, Some, None

LEMMA NotAppended ==
  ASSUME NEW l, NEW a, NEW list, Harmless(l, a)
  PROVE  AppendIn(l, list, a) = list
BY DEF Harmless, AppendIn, CListAppend, GoListAppend, PythonListAppend, CStorable, GoToC,
       PythonToVariant, Some, None

LEMMA NotSetAt ==
  ASSUME NEW l, NEW a, NEW list, NEW i, Harmless(l, a)
  PROVE  SetAtIn(l, list, i, a) = list
BY DEF Harmless, SetAtIn, CListSet, GoListSet, PythonListSet, CStorable, GoToC,
       PythonToVariant, Some, None

LEMMA NotSetKey ==
  ASSUME NEW l, NEW a, NEW map, NEW key, Harmless(l, a)
  PROVE  SetKeyEnds(l, map, key, a) \/ SetKeyIn(l, map, key, a) = map
BY DEF Harmless, SetKeyEnds, SetKeyIn, CMapSet, GoMapSet, PythonMapSet, CStorable, GoToC,
       PythonToVariant, Some, None, Terminates

LEMMA FindOperation ==
  ASSUME NEW l \in Languages, NEW list, NEW i
  PROVE  FindIn(l, list, i) = ListFind(list, IndexIn(l, i))
<1>1. PythonListFind(list, i) = ListFind(list, Wrap(i, MaxIndex))
  BY DEF PythonListFind, ListFind, ToVariant, Some, None
<1> QED
  BY <1>1 DEF Languages, FindIn, IndexIn, CListFind, GoListFind, RustListFind, Some, None

LEMMA FindKeyOperation ==
  ASSUME NEW l \in Languages, NEW map, NEW key
  PROVE  FindKeyIn(l, map, key) = MapFind(map, key)
<1>1. PythonMapFind(map, key) = MapFind(map, key)
  BY DEF PythonMapFind, MapFind, ToVariant, Some, None
<1> QED
  BY <1>1 DEF Languages, FindKeyIn, CMapFind, GoMapFind, RustMapFind, Some, None

LEMMA ResizeOperation ==
  ASSUME NEW l \in Languages, NEW list, NEW size
  PROVE  ResizeIn(l, list, size) = ListResize(list, size)
BY DEF Languages, ResizeIn, CListResize, GoListResize, RustListResize, Some, None

LEMMA EraseOperation ==
  ASSUME NEW l \in Languages, l # "Go", NEW map, NEW key
  PROVE  EraseIn(l, map, key) = MapErase(map, key)
BY DEF Languages, EraseIn, CMapErase, RustMapErase, Some, None

(***************************************************************************)
(* Lists and maps of the members of a set.                                 *)
(***************************************************************************)

LEMMA AppendType ==
  ASSUME NEW S, NEW list \in Seq(S), NEW v \in S
  PROVE  Append(list, v) \in Seq(S)
BY AppendProperties

LEMMA ListSetType ==
  ASSUME NEW S, NEW list \in Seq(S), NEW v \in S, NEW i \in Int
  PROVE  ListSet(list, i, v) \in Seq(S)
<1>1. HasPosition(list, i) => Position(list, i) + 1 \in 1 .. Len(list)
  BY DEF HasPosition, Position
<1> QED
  BY <1>1, ExceptSeq DEF ListSet

LEMMA ListResizeType ==
  ASSUME NEW S, NEW list \in Seq(S), Null \in S, NEW size \in Nat
  PROVE  ListResize(list, size) \in Seq(S)
<1>1. \A i \in 1 .. size : i <= Len(list) => list[i] \in S
  OBVIOUS
<1> QED
  BY <1>1 DEF ListResize

LEMMA ListFindType ==
  ASSUME NEW S, NEW list \in Seq(S), NEW i \in Int, ListFind(list, i) # None
  PROVE  \E j \in DOMAIN list : ListFind(list, i)[1] = list[j]
<1>1. HasPosition(list, i) /\ ListFind(list, i)[1] = list[Position(list, i) + 1]
  BY DEF ListFind, Some
<1>2. Position(list, i) + 1 \in DOMAIN list
  BY <1>1 DEF HasPosition, Position
<1> QED
  BY <1>1, <1>2

LEMMA MapSetType ==
  ASSUME NEW S, NEW map \in MapsTo(S), NEW v \in S, NEW key \in Keys
  PROVE  MapSet(map, key, v) \in MapsTo(S)
<1>1. PICK keys \in SUBSET Keys : map \in [keys -> S]
  BY DEF MapsTo
<1>2. MapSet(map, key, v) \in [keys \cup {key} -> S] /\ keys \cup {key} \in SUBSET Keys
  BY <1>1 DEF MapSet
<1> QED
  BY <1>2 DEF MapsTo

LEMMA MapEraseType ==
  ASSUME NEW S, NEW map \in MapsTo(S), NEW key
  PROVE  MapErase(map, key) \in MapsTo(S)
<1>1. PICK keys \in SUBSET Keys : map \in [keys -> S]
  BY DEF MapsTo
<1>2. MapErase(map, key) \in [keys \ {key} -> S] /\ keys \ {key} \in SUBSET Keys
  BY <1>1 DEF MapErase
<1> QED
  BY <1>2 DEF MapsTo

LEMMA MapShape ==
  ASSUME NEW S, NEW map \in MapsTo(S)
  PROVE  /\ DOMAIN map \subseteq Keys /\ IsFiniteSet(DOMAIN map)
         /\ map \in [DOMAIN map -> S]
<1>1. PICK keys \in SUBSET Keys : map \in [keys -> S]
  BY DEF MapsTo
<1> QED
  BY <1>1, FS_Subset, ValueAssumption

LEMMA EmptyData ==
  ASSUME NEW S
  PROVE  None \in Seq(S) /\ None \in MapsTo(S)
<1>1. None \in [{} -> S]
  BY DEF None
<1> QED
  BY <1>1 DEF None, MapsTo

LEMMA CollectionKinds ==
  ASSUME NEW S, NEW v \in Collections(S)
  PROVE  /\ IsCollection(v)
         /\ v = <<v[1], v[2]>>
         /\ v[1] = "List" => v[2] \in Seq(S)
         /\ v[1] = "Map" => v[2] \in MapsTo(S)
         /\ v[1] \in {"List", "Map"}
         /\ Parts(v) = {v[2][i] : i \in DOMAIN v[2]} /\ Parts(v) \subseteq S
<1>1. CASE v \in Lists(S)
  <2>1. v = <<"List", v[2]>> /\ v[2] \in Seq(S)
    BY <1>1 DEF Lists
  <2>2. \A i \in DOMAIN v[2] : v[2][i] \in S
    BY <2>1
  <2> QED
    BY <2>1, <2>2 DEF IsCollection, Parts
<1>2. CASE v \in Maps(S)
  <2>1. v = <<"Map", v[2]>> /\ v[2] \in MapsTo(S)
    BY <1>2 DEF Maps
  <2>2. \A i \in DOMAIN v[2] : v[2][i] \in S
    BY <2>1, MapShape
  <2> QED
    BY <2>1, <2>2 DEF IsCollection, Parts
<1> QED
  BY <1>1, <1>2 DEF Collections

LEMMA MakeCollection ==
  ASSUME NEW S
  PROVE  /\ \A list \in Seq(S) : <<"List", list>> \in Collections(S)
         /\ \A map \in MapsTo(S) : <<"Map", map>> \in Collections(S)
BY DEF Collections, Lists, Maps

LEMMA Levels ==
  /\ Canonical \subseteq Flat /\ Flat \subseteq Nested
  /\ Collections(Canonical) \subseteq Flat /\ Collections(Flat) \subseteq Nested
<1>1. ASSUME NEW v \in Collections(Canonical)
      PROVE  v \in Collections(Flat)
  <2>1. v = <<v[1], v[2]>> /\ v[1] \in {"List", "Map"}
        /\ (v[1] = "List" => v[2] \in Seq(Canonical)) /\ (v[1] = "Map" => v[2] \in MapsTo(Canonical))
    BY CollectionKinds
  <2>2. v[1] = "List" => v[2] \in Seq(Flat)
    BY <2>1 DEF Flat
  <2>3. v[1] = "Map" => v[2] \in MapsTo(Flat)
    BY <2>1 DEF Flat, MapsTo
  <2> QED
    BY <2>1, <2>2, <2>3, MakeCollection
<1> QED
  BY <1>1 DEF Flat, Nested

LEMMA NestedKinds ==
  ASSUME NEW v \in Nested
  PROVE  /\ v \in Canonical \/ v \in Collections(Flat)
         /\ v[1] = "List" => v = <<"List", v[2]>> /\ v[2] \in Seq(Flat)
         /\ v[1] = "Map" => v = <<"Map", v[2]>> /\ v[2] \in MapsTo(Flat)
         /\ IsCollection(v) <=> v \in Collections(Flat)
<1>1. v \in Canonical \/ v \in Collections(Flat)
  BY DEF Nested
<1> QED
  BY <1>1, ScalarsHoldNothing, CollectionKinds DEF IsCollection

LEMMA FlatKinds ==
  ASSUME NEW v \in Nested, v[1] \in {"List", "Map"} => IsFlat(v)
  PROVE  /\ v \in Flat
         /\ v[1] = "List" => v[2] \in Seq(Canonical)
         /\ v[1] = "Map" => v[2] \in MapsTo(Canonical)
<1>1. CASE v \in Canonical
  BY <1>1, Levels, ScalarsHoldNothing DEF IsCollection
<1>2. CASE v \in Collections(Flat)
  <2>1. v = <<v[1], v[2]>> /\ v[1] \in {"List", "Map"} /\ \A i \in DOMAIN v[2] : v[2][i] \in Flat
    BY <1>2, CollectionKinds
  <2>2. \A i \in DOMAIN v[2] : v[2][i] \in Canonical
    BY <2>1, CollectionKinds DEF IsFlat, Flat, IsCollection
  <2>3. v[1] = "List" => v[2] \in Seq(Canonical)
    <3>1. v[1] = "List" => v[2] \in Seq(Flat)
      BY <1>2, CollectionKinds
    <3> QED
      BY <2>2, <3>1, ElementOfSeq, SeqDef
  <2>4. v[1] = "Map" => v[2] \in MapsTo(Canonical)
    <3>1. v[1] = "Map" => \E keys \in SUBSET Keys : v[2] \in [keys -> Flat]
      BY <1>2, CollectionKinds DEF MapsTo
    <3> QED
      BY <2>2, <3>1 DEF MapsTo
  <2> QED
    BY <2>1, <2>3, <2>4, MakeCollection, Levels
<1> QED
  BY <1>1, <1>2, NestedKinds

(***************************************************************************)
(* What is sent and received.                                              *)
(***************************************************************************)
\* A scalar after a message.
ValueFromNode(node) ==
  CASE node[1] = "unsigned" -> FromUInt(node[2])
    [] node[1] = "integer"  -> <<"Int", node[2]>>
    [] OTHER                -> node

Sent(format, v) ==
  IF format = "yaml" /\ v # Null THEN <<"String", Text(v)>>
  ELSE IF format = "json" /\ IsSpecial(v) THEN Null
  ELSE IF format = "msgpack" /\ v[1] = "Float" THEN ValueFromNode(PackDouble(v[2]))
  ELSE v

\* And one that is in something that was sent.
SentEach(format, v, elements) ==
  IF IsEmpty(v) /\ (format = "yaml" \/ (format = "json" /\ v[1] = "Map")) THEN Null
  ELSE <<v[1], elements>>

Sent1(format, v) == IF IsCollection(v)
                    THEN SentEach(format, v, [i \in DOMAIN v[2] |-> Sent(format, v[2][i])])
                    ELSE Sent(format, v)
Sent2(format, v) == IF IsCollection(v)
                    THEN SentEach(format, v, [i \in DOMAIN v[2] |-> Sent1(format, v[2][i])])
                    ELSE Sent(format, v)

LEMMA Texts1 ==
  ASSUME NEW v \in Canonical, v # Null
  PROVE  Text(v) \in Strings /\ <<"String", Text(v)>> \in Canonical /\ Text(v) # <<"bytes">>
<1>1. CASE v = <<"Bool", v[2]>> /\ v[2] \in BOOLEAN
  BY <1>1, AreScalars DEF Text, Strings
<1>2. CASE (v = <<"Int", v[2]>> /\ v[2] \in Ints) \/ (v = <<"UInt", v[2]>> /\ v[2] \in UInts)
  <2>1. v[2] \in Int
    BY <1>2, ValueAssumption DEF Ints, UInts, MinInt, MaxUInt
  <2>2. Text(v) = <<"integer", v[2]>>
    BY <1>2 DEF Text
  <2> QED
    BY <2>1, <2>2, AreScalars DEF Strings
<1>3. CASE v = <<"Float", v[2]>> /\ v[2] \in Floats
  <2>1. Text(v) = FloatText(v[2])
    BY <1>3 DEF Text
  <2>2. CASE v[2] \in SpecialFloats
    BY <2>1, <2>2, AreScalars DEF FloatText, Strings
  <2>3. CASE v[2] \in FiniteFloats
    <3>1. v[2] \in Int /\ v[2] \div 2 \in Int
      BY <2>3, FloatsStay
    <3>2. Text(v) \in {<<"integer", v[2] \div 2>>, <<"point", v[2]>>}
      BY <2>1, <2>3, FloatsStay DEF FloatText
    <3> QED
      BY <3>1, <3>2, AreScalars DEF Strings
  <2> QED
    BY <1>3, <2>2, <2>3 DEF Floats
<1>4. CASE v = <<"String", v[2]>> /\ v[2] \in Strings
  BY <1>4, AreScalars DEF Text, Strings
<1> QED
  BY <1>1, <1>2, <1>3, <1>4, ScalarKinds

\* MessagePack leaves a float as it is, or makes an integer of it that reads as it.
LEMMA FloatsPacked ==
  ASSUME NEW h \in Floats
  PROVE  /\ PackDouble(h)[1] \in {"Float", "integer", "unsigned"}
         /\ ValueFromNode(PackDouble(h)) \in Canonical
         /\ \/ ValueFromNode(PackDouble(h)) = <<"Float", h>>
            \/ /\ h \notin SpecialFloats
               /\ \E n \in Int : /\ ToFloat(2 * n) = h
                                /\ ValueFromNode(PackDouble(h)) \in {<<"Int", n>>, <<"UInt", n>>}
<1>1. MaxInt \in Nat /\ Ints \cup UInts \subseteq Int /\ MaxUInt \in UInts
  BY ValueAssumption DEF Ints, UInts, MinInt, MaxUInt
<1>2. ASSUME NEW n \in Ints \cup UInts
      PROVE  /\ Number(n)[1] \in {"integer", "unsigned"}
             /\ ValueFromNode(Number(n)) \in Canonical
             /\ ValueFromNode(Number(n)) \in {<<"Int", n>>, <<"UInt", n>>}
  <2>1. CASE n < 0
    <3>1. n \in Ints
      BY <1>1, <2>1 DEF UInts
    <3>2. ValueFromNode(Number(n)) = <<"Int", n>>
      BY <2>1 DEF Number, ValueFromNode
    <3> QED
      BY <2>1, <3>1, <3>2, AreScalars DEF Number
  <2>2. CASE ~(n < 0)
    <3>1. n \in UInts
      BY <1>1, <2>2 DEF Ints, UInts, MaxUInt
    <3>2. ValueFromNode(Number(n)) = FromUInt(n)
      BY <2>2 DEF Number, ValueFromNode
    <3>3. n <= MaxInt \/ n > MaxInt
      BY <1>1
    <3> QED
      BY <2>2, <3>1, <3>2, <3>3, UIntsStored DEF Number
  <2> QED
    BY <2>1, <2>2
<1>3. CASE PackDouble(h) = <<"Float", h>>
  BY <1>3, AreScalars DEF ValueFromNode
<1>4. ASSUME NEW n \in Ints \cup UInts, PackDouble(h) = Number(n), ToFloat(2 * n) = h,
             h \notin SpecialFloats
      PROVE  h \notin SpecialFloats /\ \E m \in Int :
               ToFloat(2 * m) = h /\ ValueFromNode(PackDouble(h)) \in {<<"Int", m>>, <<"UInt", m>>}
  BY <1>1, <1>2, <1>4
<1>5. CASE h \in FiniteFloats /\ h % 2 = 0 /\ h \div 2 \in Ints \cup UInts
  <2>1. h \in Int /\ ToFloat(h) = h /\ h \notin SpecialFloats
    BY <1>5, FloatsStay
  <2>2. 2 * (h \div 2) = h
    BY <1>5, <2>1
  <2>3. PackDouble(h) = Number(h \div 2)
    BY <1>5, <2>1 DEF PackDouble
  <2> QED
    BY <1>2, <1>4, <1>5, <2>1, <2>2, <2>3
<1>6. CASE /\ h \in FiniteFloats /\ PackDouble(h) = Number(MaxUInt)
           /\ h = ToFloat(2 * MaxUInt)
  BY <1>1, <1>2, <1>4, <1>6, FloatsStay
<1>7. h \in SpecialFloats => PackDouble(h) = <<"Float", h>>
  BY DEF PackDouble
<1>8. h \notin SpecialFloats /\ ~(h % 2 = 0 /\ h \div 2 \in Ints \cup UInts)
        => PackDouble(h) = <<"Float", h>> \/ (PackDouble(h) = Number(MaxUInt) /\ h = ToFloat(2 * MaxUInt))
  BY DEF PackDouble
<1> QED
  BY <1>3, <1>5, <1>6, <1>7, <1>8 DEF Floats

LEMMA SentScalars ==
  ASSUME NEW v \in Canonical, NEW format \in FormatNames
  PROVE  /\ Sent(format, v) \in Canonical
         /\ Sent1(format, v) = Sent(format, v) /\ Sent2(format, v) = Sent(format, v)
<1>1. v[1] = "Float" => ValueFromNode(PackDouble(v[2])) \in Canonical
  BY ScalarKinds, FloatsPacked DEF Null
<1> QED
  BY <1>1, Texts1, ScalarsHoldNothing, AreScalars DEF Sent, Sent1, Sent2

LEMMA FormatCases ==
  ASSUME NEW format \in FormatNames
  PROVE  format = "json" \/ format = "yaml" \/ format = "msgpack"
BY DEF FormatNames

\* A scalar is a leaf at every level, however it is written.
LEMMA LeavesWritten ==
  ASSUME NEW format \in FormatNames, NEW v \in Canonical
  PROVE  \E node :
           /\ Write0(format, v) = node /\ Write1(format, v) = node /\ Write2(format, v) = node
           /\ Read0(format, node) = Sent(format, v) /\ Read1(format, node) = Sent(format, v)
           /\ Read2(format, node) = Sent(format, v)
<1> DEFINE node == CASE format = "yaml"    -> IF v = Null THEN Null ELSE <<"scalar", Text(v)>>
                     [] format = "json"    -> IF IsSpecial(v) THEN Null ELSE Scalar(v)
                     [] format = "msgpack" -> IF v[1] = "Float" THEN PackDouble(v[2]) ELSE Scalar(v)
<1>1. ~IsCollection(v) /\ v[1] \notin {"List", "Map"} /\ (v[1] = "Null" <=> v = Null)
  BY ScalarsHoldNothing, ScalarKinds DEF IsCollection, Null
<1>2. Write0(format, v) = node /\ Write1(format, v) = node /\ Write2(format, v) = node
  BY <1>1, FormatCases DEF Write0, Write1, Write2, WriteNode, JsonFrom, YamlFrom, Pack
<1>3. CASE format = "yaml"
  <2>1. ~IsCollection(node) /\ (v # Null => node[1] = "scalar") /\ (v = Null => node[1] = "Null")
    BY <1>3 DEF IsCollection, Null
  <2> QED
    BY <1>2, <1>3, <2>1 DEF Read0, Read1, Read2, ReadNode, ValueFromYaml, Sent
<1>4. ASSUME format \in {"json", "msgpack"}, ~IsCollection(node)
      PROVE  /\ Read0(format, node) = ValueFromNode(node) /\ Read1(format, node) = ValueFromNode(node)
             /\ Read2(format, node) = ValueFromNode(node)
  <2> HIDE DEF node
  <2> QED
    BY <1>4 DEF Read0, Read1, Read2, ReadNode, ValueFromJson, ValueFromMsgpack, ValueFromNode
<1>5. CASE format = "json" /\ IsSpecial(v)
  <2>1. node = Null /\ ~IsCollection(node) /\ ValueFromNode(node) = Null
    BY <1>5 DEF IsCollection, Null, ValueFromNode
  <2> QED
    BY <1>2, <1>4, <1>5, <2>1 DEF Sent
<1>6. CASE format = "msgpack" /\ v[1] = "Float"
  <2>1. node = PackDouble(v[2]) /\ v[2] \in Floats
    BY <1>6, ScalarKinds DEF Null
  <2>2. ~IsCollection(node)
    BY <2>1, FloatsPacked DEF IsCollection
  <2> QED
    BY <1>2, <1>4, <1>6, <2>1, <2>2 DEF Sent
<1>7. CASE (format = "json" /\ ~IsSpecial(v)) \/ (format = "msgpack" /\ v[1] # "Float")
  <2>1. Sent(format, v) = v /\ node = Scalar(v)
    BY <1>7 DEF Sent
  <2>2. CASE v[1] \in {"Int", "UInt"}
    <3>1. v[2] \in Int /\ (v[1] = "Int" => v = <<"Int", v[2]>> /\ v[2] \in Ints)
          /\ (v[1] = "UInt" => v = <<"UInt", v[2]>> /\ v[2] \in UInts /\ v[2] > MaxInt)
      BY <2>2, ScalarKinds, ValueAssumption DEF Ints, UInts, MinInt, MaxUInt, Null
    <3>2. v[2] >= 0 => v[2] \in UInts /\ FromUInt(v[2]) = v
      BY <3>1, <2>2, UIntsStored, ValueAssumption DEF Ints, UInts, MaxUInt
    <3>3. v[2] < 0 => v = <<"Int", v[2]>>
      BY <3>1, <2>2, ValueAssumption DEF UInts
    <3>4. node = IF v[2] < 0 THEN <<"integer", v[2]>> ELSE <<"unsigned", v[2]>>
      BY <2>1, <2>2 DEF Scalar, Number
    <3> HIDE DEF node
    <3>5. ~IsCollection(node) /\ (v[2] < 0 => node[1] = "integer" /\ node[2] = v[2])
          /\ (v[2] >= 0 => node[1] = "unsigned" /\ node[2] = v[2])
      BY <3>1, <3>4 DEF IsCollection
    <3>6. ValueFromNode(node) = v
      BY <3>1, <3>2, <3>3, <3>5 DEF ValueFromNode
    <3> QED
      BY <1>2, <1>4, <1>7, <2>1, <3>5, <3>6
  <2>3. CASE v[1] \notin {"Int", "UInt"}
    <3> HIDE DEF node
    <3>1. node = v /\ v[1] \notin {"unsigned", "integer"}
      BY <2>1, <2>3, ScalarKinds DEF Scalar, Null
    <3>2. ~IsCollection(node) /\ ValueFromNode(node) = v
      BY <1>1, <3>1 DEF ValueFromNode
    <3> QED
      BY <1>2, <1>4, <1>7, <2>1, <3>2
  <2> QED
    BY <2>2, <2>3
<1> QED
  BY <1>3, <1>5, <1>6, <1>7, FormatCases

\* What is written of an empty list or map, by the formats that drop it.
Dropped(format, v) == IsEmpty(v) /\ (format = "yaml" \/ (format = "json" /\ v[1] = "Map"))

LEMMA CollectionsWritten ==
  ASSUME NEW format \in FormatNames, NEW v, IsCollection(v)
  PROVE  /\ Write1(format, v) =
              IF Dropped(format, v) THEN Null
              ELSE <<v[1], [i \in DOMAIN v[2] |-> Write0(format, v[2][i])]>>
         /\ Write2(format, v) =
              IF Dropped(format, v) THEN Null
              ELSE <<v[1], [i \in DOMAIN v[2] |-> Write1(format, v[2][i])]>>
<1>1. v[1] # "Null" /\ ~IsSpecial(v)
  BY DEF IsCollection, IsSpecial
<1> QED
  BY <1>1, FormatCases DEF Write1, Write2, WriteNode, JsonFrom, YamlFrom, Pack, Dropped

LEMMA CollectionsRead ==
  ASSUME NEW format \in FormatNames, NEW v, IsCollection(v)
  PROVE  /\ Read1(format, v) = <<v[1], [i \in DOMAIN v[2] |-> Read0(format, v[2][i])]>>
         /\ Read2(format, v) = <<v[1], [i \in DOMAIN v[2] |-> Read1(format, v[2][i])]>>
<1>1. v[1] \notin {"Null", "scalar", "unsigned", "integer"}
  BY DEF IsCollection
<1> QED
  BY <1>1, FormatCases DEF Read1, Read2, ReadNode, ValueFromJson, ValueFromYaml, ValueFromMsgpack

LEMMA NullRead ==
  ASSUME NEW format \in FormatNames
  PROVE  Read1(format, Null) = Null /\ Read2(format, Null) = Null
<1>1. ~IsCollection(Null) /\ Null[1] \notin {"scalar", "unsigned", "integer"}
  BY DEF IsCollection, Null
<1> QED
  BY <1>1, FormatCases DEF Read1, Read2, ReadNode, ValueFromJson, ValueFromYaml, ValueFromMsgpack

\* What arrives of a value, level by level.
LEMMA FlatSent ==
  ASSUME NEW format \in FormatNames, NEW v \in Flat
  PROVE  Read1(format, Write1(format, v)) = Sent1(format, v)
<1>1. CASE v \in Canonical
  BY <1>1, LeavesWritten, SentScalars
<1>2. CASE v \in Collections(Canonical)
  <2>1. IsCollection(v) /\ v[1] \in {"List", "Map"} /\ \A i \in DOMAIN v[2] : v[2][i] \in Canonical
    BY <1>2, CollectionKinds
  <2>2. CASE Dropped(format, v)
    BY <2>1, <2>2, CollectionsWritten, NullRead DEF Sent1, SentEach, Dropped
  <2>3. CASE ~Dropped(format, v)
    <3> DEFINE w == <<v[1], [i \in DOMAIN v[2] |-> Write0(format, v[2][i])]>>
    <3>1. Write1(format, v) = w
      BY <2>1, <2>3, CollectionsWritten
    <3>2. IsCollection(w) /\ w[1] = v[1] /\ DOMAIN w[2] = DOMAIN v[2]
          /\ \A i \in DOMAIN v[2] : w[2][i] = Write0(format, v[2][i])
      BY <2>1 DEF IsCollection
    <3> HIDE DEF w
    <3>3. Read1(format, w) = <<v[1], [i \in DOMAIN v[2] |-> Read0(format, Write0(format, v[2][i]))]>>
      BY <3>2, CollectionsRead
    <3>4. \A i \in DOMAIN v[2] : Read0(format, Write0(format, v[2][i])) = Sent(format, v[2][i])
      BY <2>1, LeavesWritten
    <3>5. Sent1(format, v) = <<v[1], [i \in DOMAIN v[2] |-> Sent(format, v[2][i])]>>
      BY <2>1, <2>3 DEF Sent1, SentEach, Dropped
    <3> QED
      BY <3>1, <3>3, <3>4, <3>5
  <2> QED
    BY <2>2, <2>3
<1> QED
  BY <1>1, <1>2 DEF Flat

LEMMA NestedSent ==
  ASSUME NEW format \in FormatNames, NEW v \in Nested
  PROVE  Read2(format, Write2(format, v)) = Sent2(format, v)
<1>1. CASE v \in Canonical
  BY <1>1, LeavesWritten, SentScalars
<1>2. CASE v \in Collections(Flat)
  <2>1. IsCollection(v) /\ v[1] \in {"List", "Map"} /\ \A i \in DOMAIN v[2] : v[2][i] \in Flat
    BY <1>2, CollectionKinds
  <2>2. CASE Dropped(format, v)
    BY <2>1, <2>2, CollectionsWritten, NullRead DEF Sent2, SentEach, Dropped
  <2>3. CASE ~Dropped(format, v)
    <3> DEFINE w == <<v[1], [i \in DOMAIN v[2] |-> Write1(format, v[2][i])]>>
    <3>1. Write2(format, v) = w
      BY <2>1, <2>3, CollectionsWritten
    <3>2. IsCollection(w) /\ w[1] = v[1] /\ DOMAIN w[2] = DOMAIN v[2]
          /\ \A i \in DOMAIN v[2] : w[2][i] = Write1(format, v[2][i])
      BY <2>1 DEF IsCollection
    <3> HIDE DEF w
    <3>3. Read2(format, w) = <<v[1], [i \in DOMAIN v[2] |-> Read1(format, Write1(format, v[2][i]))]>>
      BY <3>2, CollectionsRead
    <3>4. \A i \in DOMAIN v[2] : Read1(format, Write1(format, v[2][i])) = Sent1(format, v[2][i])
      BY <2>1, FlatSent
    <3>5. Sent2(format, v) = <<v[1], [i \in DOMAIN v[2] |-> Sent1(format, v[2][i])]>>
      BY <2>1, <2>3 DEF Sent2, SentEach, Dropped
    <3> QED
      BY <3>1, <3>3, <3>4, <3>5
  <2> QED
    BY <2>2, <2>3
<1> QED
  BY <1>1, <1>2, NestedKinds

\* What arrives of an element is no more than what arrives of its level.
LEMMA SentEachType ==
  ASSUME NEW S, NEW T, NEW v \in Collections(S), NEW f \in [S -> T]
  PROVE  <<v[1], [i \in DOMAIN v[2] |-> f[v[2][i]]]>> \in Collections(T)
<1>1. v = <<v[1], v[2]>> /\ v[1] \in {"List", "Map"}
      /\ (v[1] = "List" => v[2] \in Seq(S)) /\ (v[1] = "Map" => v[2] \in MapsTo(S))
  BY CollectionKinds
<1>2. CASE v[1] = "List"
  <2>1. [i \in DOMAIN v[2] |-> f[v[2][i]]] \in Seq(T)
    <3>1. DOMAIN v[2] = 1 .. Len(v[2]) /\ Len(v[2]) \in Nat /\ \A i \in 1 .. Len(v[2]) : v[2][i] \in S
      BY <1>1, <1>2
    <3>2. \A i \in 1 .. Len(v[2]) : f[v[2][i]] \in T
      BY <3>1
    <3> QED
      BY <3>1, <3>2
  <2> QED
    BY <1>2, <2>1, MakeCollection
<1>3. CASE v[1] = "Map"
  <2>1. DOMAIN v[2] \in SUBSET Keys /\ \A i \in DOMAIN v[2] : v[2][i] \in S
    BY <1>1, <1>3, MapShape
  <2>2. [i \in DOMAIN v[2] |-> f[v[2][i]]] \in [DOMAIN v[2] -> T]
    BY <2>1
  <2>3. [i \in DOMAIN v[2] |-> f[v[2][i]]] \in MapsTo(T)
    BY <2>1, <2>2 DEF MapsTo
  <2> QED
    BY <1>3, <2>3, MakeCollection
<1> QED
  BY <1>1, <1>2, <1>3

LEMMA SentTypes ==
  ASSUME NEW format \in FormatNames
  PROVE  /\ \A v \in Flat : Sent1(format, v) \in Flat
         /\ \A v \in Nested : Sent2(format, v) \in Nested
<1>1. ASSUME NEW v \in Flat
      PROVE  Sent1(format, v) \in Flat
  <2>1. CASE v \in Canonical
    BY <2>1, SentScalars, Levels
  <2>2. CASE v \in Collections(Canonical)
    <3> DEFINE f == [e \in Canonical |-> Sent(format, e)]
    <3>1. f \in [Canonical -> Canonical]
      BY SentScalars
    <3>2. <<v[1], [i \in DOMAIN v[2] |-> f[v[2][i]]]>> \in Collections(Canonical)
      BY <2>2, <3>1, SentEachType
    <3>3. IsCollection(v) /\ \A i \in DOMAIN v[2] : v[2][i] \in Canonical
      BY <2>2, CollectionKinds
    <3>4. \A i \in DOMAIN v[2] : f[v[2][i]] = Sent(format, v[2][i])
      BY <3>3
    <3> HIDE DEF f
    <3>5. Sent1(format, v) \in {Null, <<v[1], [i \in DOMAIN v[2] |-> f[v[2][i]]]>>}
      BY <3>3, <3>4 DEF Sent1, SentEach
    <3> QED
      BY <3>2, <3>5, Levels, AreScalars
  <2> QED
    BY <2>1, <2>2 DEF Flat
<1>2. ASSUME NEW v \in Nested
      PROVE  Sent2(format, v) \in Nested
  <2>1. CASE v \in Canonical
    BY <2>1, SentScalars, Levels
  <2>2. CASE v \in Collections(Flat)
    <3> DEFINE f == [e \in Flat |-> Sent1(format, e)]
    <3>1. f \in [Flat -> Flat]
      BY <1>1
    <3>2. <<v[1], [i \in DOMAIN v[2] |-> f[v[2][i]]]>> \in Collections(Flat)
      BY <2>2, <3>1, SentEachType
    <3>3. IsCollection(v) /\ \A i \in DOMAIN v[2] : v[2][i] \in Flat
      BY <2>2, CollectionKinds
    <3>4. \A i \in DOMAIN v[2] : f[v[2][i]] = Sent1(format, v[2][i])
      BY <3>3
    <3> HIDE DEF f
    <3>5. Sent2(format, v) \in {Null, <<v[1], [i \in DOMAIN v[2] |-> f[v[2][i]]]>>}
      BY <3>3, <3>4 DEF Sent2, SentEach
    <3> QED
      BY <3>2, <3>5, Levels, AreScalars
  <2> QED
    BY <2>1, <2>2, NestedKinds
<1> QED
  BY <1>1, <1>2

LEMMA Received ==
  ASSUME NEW format \in FormatNames, NEW v \in Nested
  PROVE  /\ Encode(format, v) = None => format = "json" /\ Bytes \in Within(v)
         /\ Encode(format, v) # None => /\ Decode(format, Encode(format, v)[1]) = Sent2(format, v)
                                        /\ format = "json" => Bytes \notin Within(v)
BY NestedSent DEF Encode, Decode, HasBytes, Bytes, Some, None

(***************************************************************************)
(* The object is a value after every operation.                            *)
(***************************************************************************)

LEMMA Appended ==
  ASSUME NEW l \in Languages, NEW a \in Args(l), NEW list \in Seq(Canonical)
  PROVE  AppendIn(l, list, a) \in Seq(Canonical)
<1>1. ASSUME NEW v \in Canonical, Given(l, a, v)
      PROVE  AppendIn(l, list, a) \in Seq(Canonical)
  <2>1. AppendIn(l, list, a) = Append(list, v)
    BY <1>1, AppendOperation
  <2> QED
    BY <1>1, <2>1, AppendType
<1>2. CASE Harmless(l, a)
  BY <1>2, NotAppended
<1> QED
  BY <1>1, <1>2, ArgCases

LEMMA SetAtType ==
  ASSUME NEW l \in Languages, NEW a \in Args(l), NEW list \in Seq(Canonical), NEW i \in Int
  PROVE  SetAtIn(l, list, i, a) \in Seq(Canonical)
<1>1. IndexIn(l, i) \in Int
  BY BindingsAssumption DEF IndexIn, Wrap
<1>2. ASSUME NEW v \in Canonical, Given(l, a, v)
      PROVE  SetAtIn(l, list, i, a) \in Seq(Canonical)
  <2>1. SetAtIn(l, list, i, a) = ListSet(list, IndexIn(l, i), v)
    BY <1>2, SetAtOperation
  <2> QED
    BY <1>1, <1>2, <2>1, ListSetType
<1>3. CASE Harmless(l, a)
  BY <1>3, NotSetAt
<1> QED
  BY <1>2, <1>3, ArgCases

LEMMA SetKeyType ==
  ASSUME NEW l \in Languages, NEW a \in Args(l), NEW map \in MapsTo(Canonical), NEW key \in Keys
  PROVE  SetKeyEnds(l, map, key, a) \/ SetKeyIn(l, map, key, a) \in MapsTo(Canonical)
<1>1. ASSUME NEW v \in Canonical, Given(l, a, v)
      PROVE  SetKeyIn(l, map, key, a) \in MapsTo(Canonical)
  <2>1. SetKeyIn(l, map, key, a) = MapSet(map, key, v)
    BY <1>1, SetKeyOperation
  <2> QED
    BY <1>1, <2>1, MapSetType
<1>2. CASE Harmless(l, a)
  BY <1>2, NotSetKey
<1> QED
  BY <1>1, <1>2, ArgCases

\* What can be had from a list or map.
LEMMA Taken ==
  ASSUME NEW v \in Nested, NEW l \in Languages, v[1] = "List", NEW i \in Int, FindIn(l, v[2], i) # None
  PROVE  FindIn(l, v[2], i)[1] \in Parts(v)
<1>1. FindIn(l, v[2], i) = ListFind(v[2], IndexIn(l, i))
  BY FindOperation
<1>2. IndexIn(l, i) \in Int
  BY BindingsAssumption DEF IndexIn, Wrap
<1>3. v[2] \in Seq(Flat) /\ Parts(v) = {v[2][j] : j \in DOMAIN v[2]}
  BY NestedKinds DEF Parts, IsCollection
<1>4. \E j \in DOMAIN v[2] : ListFind(v[2], IndexIn(l, i))[1] = v[2][j]
  BY <1>1, <1>2, <1>3, ListFindType
<1> QED
  BY <1>1, <1>3, <1>4

LEMMA TakenKey ==
  ASSUME NEW v \in Nested, NEW l \in Languages, v[1] = "Map", NEW k, FindKeyIn(l, v[2], k) # None
  PROVE  FindKeyIn(l, v[2], k)[1] \in Parts(v)
<1>1. FindKeyIn(l, v[2], k) = MapFind(v[2], k)
  BY FindKeyOperation
<1>2. k \in DOMAIN v[2] /\ MapFind(v[2], k)[1] = v[2][k]
  BY <1>1 DEF MapFind, Some
<1> QED
  BY <1>1, <1>2 DEF Parts, IsCollection

LEMMA NestIn ==
  ASSUME NEW v \in Flat, NEW l \in Languages, NEW k
  PROVE  LET self == <<"Value", v>>
         IN  /\ AppendIn(l, None, self) = <<v>>
             /\ SetKeyIn(l, None, k, self) = [x \in {k} |-> v]
             /\ PythonListFrom(<<self>>)[1] = <<v>>
             /\ k \in Keys => PythonMapFrom([x \in {k} |-> self])[1] = [x \in {k} |-> v]
<1> DEFINE self == <<"Value", v>>
<1>1. Given(l, self, v)
  BY DEF Given
<1>2. AppendIn(l, None, self) = <<v>>
  <2>1. AppendIn(l, None, self) = Append(<<>>, v)
    BY <1>1, AppendOperation DEF None
  <2> QED
    BY <2>1
<1>3. SetKeyIn(l, None, k, self) = [x \in {k} |-> v]
  <2>1. SetKeyIn(l, None, k, self) = MapSet(None, k, v)
    BY <1>1, SetKeyOperation
  <2>2. DOMAIN None = {}
    BY DEF None
  <2> QED
    BY <2>1, <2>2 DEF MapSet
<1>4. PythonToVariant(self) = <<self>> /\ PythonToVariant(self) # None /\ ValueOf(self) = v
  BY DEF PythonToVariant, Some, None, ValueOf
<1>5. PythonListFrom(<<self>>)[1] = <<v>>
  <2> DEFINE variants == [i \in DOMAIN <<self>> |-> PythonToVariant(<<self>>[i])]
  <2>1. DOMAIN <<self>> = {1} /\ <<self>>[1] = self
    OBVIOUS
  <2>2. \A i \in DOMAIN <<self>> : variants[i] = <<self>>
    BY <1>4, <2>1
  <2>3. PythonListFrom(<<self>>) = Some([i \in DOMAIN <<self>> |-> ValueOf(variants[i][1])])
    BY <1>4, <2>2 DEF PythonListFrom
  <2>4. [i \in DOMAIN <<self>> |-> ValueOf(variants[i][1])] = [i \in {1} |-> v]
    BY <1>4, <2>1, <2>2
  <2>5. [i \in {1} |-> v] = <<v>>
    OBVIOUS
  <2> QED
    BY <2>3, <2>4, <2>5 DEF Some
<1>6. ASSUME k \in Keys
      PROVE  PythonMapFrom([x \in {k} |-> self])[1] = [x \in {k} |-> v]
  <2> DEFINE map == [x \in {k} |-> self]
             variants == [x \in DOMAIN map |-> PythonToVariant(map[x])]
  <2>1. DOMAIN map = {k} /\ \A x \in {k} : variants[x] = <<self>>
    BY <1>4
  <2>2. PythonMapFrom(map) = Some([x \in DOMAIN map |-> ValueOf(variants[x][1])])
    BY <1>4, <1>6, <2>1 DEF PythonMapFrom
  <2> QED
    BY <1>4, <2>1, <2>2 DEF Some
<1> QED
  BY <1>2, <1>3, <1>5, <1>6

LEMMA NestedIn ==
  ASSUME NEW v \in Flat
  PROVE  /\ <<"List", <<v>>>> \in Nested
         /\ \A k \in Keys : <<"Map", [x \in {k} |-> v]>> \in Nested
         /\ Parts(<<"List", <<v>>>>) = {v}
         /\ \A k \in Keys : Parts(<<"Map", [x \in {k} |-> v]>>) = {v}
<1>1. <<v>> \in Seq(Flat) /\ DOMAIN <<v>> = {1} /\ <<v>>[1] = v
  OBVIOUS
<1>2. \A k \in Keys : [x \in {k} |-> v] \in MapsTo(Flat)
  <2> SUFFICES ASSUME NEW k \in Keys PROVE [x \in {k} |-> v] \in MapsTo(Flat)
    OBVIOUS
  <2>1. [x \in {k} |-> v] \in [{k} -> Flat] /\ {k} \in SUBSET Keys
    OBVIOUS
  <2> QED
    BY <2>1 DEF MapsTo
<1> QED
  BY <1>1, <1>2, MakeCollection, Levels DEF Parts, IsCollection

\* Nesting and taking, whichever language does it.
LEMMA NestSteps ==
  ASSUME ObjectInv, Nest
  PROVE  /\ object \in Flat /\ meant' = meant
         /\ \/ object' = <<"List", <<object>>>>
            \/ \E k \in Keys : object' = <<"Map", [x \in {k} |-> object]>>
<1>1. object \in Flat
  BY FlatKinds DEF Nest, ObjectInv
<1>2. "C++" \in Languages
  BY DEF Languages
<1>3. CASE \E l \in Languages : Becomes(<<"List", AppendIn(l, None, <<"Value", object>>)>>, meant)
  BY <1>1, <1>3, NestIn DEF Becomes
<1>4. CASE \E l \in Languages, k \in Keys : Becomes(<<"Map", SetKeyIn(l, None, k, <<"Value", object>>)>>, meant)
  BY <1>1, <1>4, NestIn DEF Becomes
<1>5. CASE Becomes(<<"List", PythonListFrom(<< <<"Value", object>> >>)[1]>>, meant)
  BY <1>1, <1>2, <1>5, NestIn DEF Becomes
<1>6. CASE \E k \in Keys : Becomes(<<"Map", PythonMapFrom([x \in {k} |-> <<"Value", object>>])[1]>>, meant)
  BY <1>1, <1>2, <1>6, NestIn DEF Becomes
<1> QED
  BY <1>1, <1>3, <1>4, <1>5, <1>6 DEF Nest

LEMMA TakeSteps ==
  ASSUME ObjectInv, Take
  PROVE  /\ object' \in Parts(object)
         /\ meant' = IF Cardinality(DOMAIN object[2]) = 1 THEN meant ELSE Idle
<1>1. object \in Nested
  BY DEF ObjectInv
<1>2. ASSUME object[1] = "List", NEW l \in Languages, NEW i \in Indexes, FindIn(l, object[2], i) # None
      PROVE  FindIn(l, object[2], i)[1] \in Parts(object)
  BY <1>1, <1>2, Taken, ValuesAssumption
<1>3. ASSUME object[1] = "Map", NEW l \in Languages, NEW k \in Keys, FindKeyIn(l, object[2], k) # None
      PROVE  FindKeyIn(l, object[2], k)[1] \in Parts(object)
  BY <1>1, <1>3, TakenKey
<1> QED
  BY <1>2, <1>3 DEF Take, Becomes

LEMMA ObjectStep ==
  ASSUME ObjectInv, [Next]_vars
  PROVE  ObjectInv'
<1>1. Null \in Nested /\ <<"String", <<"empty">>>> \in Nested /\ Parts(Null) = {}
  <2>1. <<"empty">> \in Strings
    BY DEF Strings
  <2> QED
    BY <2>1, AreScalars, Levels, ScalarsHoldNothing
<1>2. CASE Store
  <2>1. PICK l \in Languages : \E a \in Args(l) : object' = SetIn(l, object, a)
    BY <1>2 DEF Store, Becomes
  <2>2. PICK a \in Args(l) : object' = SetIn(l, object, a)
    BY <2>1
  <2>3. ASSUME NEW v \in Canonical, Given(l, a, v)
        PROVE  ObjectInv'
    BY <2>2, <2>3, StoreOperation, Levels DEF ObjectInv
  <2>4. CASE Harmless(l, a)
    <3>1. SetIn(l, object, a) \in {object, <<"String", <<"empty">>>>}
      BY <2>4, NotSet
    <3> QED
      BY <1>1, <2>2, <3>1 DEF ObjectInv
  <2> QED
    BY <2>3, <2>4, ArgCases
<1>3. CASE New
  BY <1>3, EmptyData, MakeCollection, Levels DEF New, Becomes, ObjectInv
<1>4. CASE Nest
  <2>1. object' = <<"List", <<object>>>> \/ \E k \in Keys : object' = <<"Map", [x \in {k} |-> object]>>
    BY <1>4, NestSteps
  <2> QED
    BY <1>4, <2>1, NestSteps, NestedIn DEF ObjectInv
<1>5. CASE AppendOne
  <2>1. object[2] \in Seq(Canonical)
    BY <1>5, FlatKinds DEF AppendOne, ObjectInv
  <2>2. PICK l \in Languages : \E a \in Args(l) : object' = <<"List", AppendIn(l, object[2], a)>>
    BY <1>5 DEF AppendOne, Becomes
  <2>3. \A a \in Args(l) : AppendIn(l, object[2], a) \in Seq(Canonical)
    BY <2>1, Appended
  <2> QED
    BY <2>2, <2>3, MakeCollection, Levels DEF ObjectInv
<1>6. CASE SetOne
  <2>1. object[2] \in Seq(Canonical)
    BY <1>6, FlatKinds DEF SetOne, ObjectInv
  <2>2. PICK l \in Languages, i \in Indexes :
          \E a \in Args(l) : object' = <<"List", SetAtIn(l, object[2], i, a)>>
    BY <1>6 DEF SetOne, Becomes
  <2>3. \A a \in Args(l) : SetAtIn(l, object[2], i, a) \in Seq(Canonical)
    BY <2>1, SetAtType, ValuesAssumption
  <2> QED
    BY <2>2, <2>3, MakeCollection, Levels DEF ObjectInv
<1>7. CASE Resize
  <2>1. object[2] \in Seq(Canonical)
    BY <1>7, FlatKinds DEF Resize, ObjectInv
  <2>2. PICK l \in Languages, size \in 0 .. MaxLen : object' = <<"List", ResizeIn(l, object[2], size)>>
    BY <1>7 DEF Resize, Becomes
  <2>3. ResizeIn(l, object[2], size) \in Seq(Canonical)
    BY <2>1, <2>2, ResizeOperation, ListResizeType, AreScalars, ValuesAssumption
  <2> QED
    BY <2>2, <2>3, MakeCollection, Levels DEF ObjectInv
<1>8. CASE SetKey
  <2>1. object[2] \in MapsTo(Canonical)
    BY <1>8, FlatKinds DEF SetKey, ObjectInv
  <2>2. PICK l \in Languages, k \in Keys : \E a \in Args(l) :
          \/ object' = object
          \/ ~SetKeyEnds(l, object[2], k, a) /\ object' = <<"Map", SetKeyIn(l, object[2], k, a)>>
    BY <1>8 DEF SetKey, Becomes, End
  <2>3. \A a \in Args(l) : \/ SetKeyEnds(l, object[2], k, a)
                           \/ SetKeyIn(l, object[2], k, a) \in MapsTo(Canonical)
    BY <2>1, SetKeyType
  <2> QED
    BY <2>2, <2>3, MakeCollection, Levels DEF ObjectInv
<1>9. CASE EraseKey
  <2>1. object[2] \in MapsTo(Flat)
    BY <1>9, NestedKinds DEF EraseKey, ObjectInv
  <2>2. PICK l \in Languages \ {"Go"}, k \in Keys : object' = <<"Map", EraseIn(l, object[2], k)>>
    BY <1>9 DEF EraseKey, Becomes
  <2>3. EraseIn(l, object[2], k) \in MapsTo(Flat)
    BY <2>1, <2>2, EraseOperation, MapEraseType
  <2> QED
    BY <2>2, <2>3, MakeCollection, Levels DEF ObjectInv
<1>10. CASE Take
  <2>1. object' \in Parts(object)
    BY <1>10, TakeSteps
  <2>2. IsCollection(object)
    BY <1>10 DEF Take, IsCollection
  <2> QED
    BY <2>1, <2>2, NestedKinds, CollectionKinds, Levels DEF ObjectInv
<1>11. CASE Transfer
  <2>1. PICK format \in FormatNames : /\ Encode(format, object) # None
                                      /\ object' = Decode(format, Encode(format, object)[1])
    BY <1>11 DEF Transfer, Becomes
  <2> QED
    BY <2>1, Received, SentTypes DEF ObjectInv
<1>12. CASE UnpackSome \/ Look \/ BeginWalk \/ StepWalk \/ UNCHANGED vars
  BY <1>12 DEF UnpackSome, Look, BeginWalk, StepWalk, vars, ObjectInv
<1> QED
  BY <1>2, <1>3, <1>4, <1>5, <1>6, <1>7, <1>8, <1>9, <1>10, <1>11, <1>12 DEF Next

LEMMA CanonicalWithin ==
  ASSUME NEW v \in Nested, NEW w \in Within(v), w[1] = "UInt"
  PROVE  w[2] > MaxInt
<1>1. w \notin Collections(Canonical) /\ w \notin Collections(Flat)
  BY CollectionKinds
<1>2. Parts(v) \subseteq Flat
  BY NestedKinds, CollectionKinds, ScalarsHoldNothing
<1>3. \A p \in Flat : Parts(p) \subseteq Canonical
  BY CollectionKinds, ScalarsHoldNothing DEF Flat
<1>4. w \in Canonical
  BY <1>1, <1>2, <1>3 DEF Within, Nested, Flat
<1> QED
  BY <1>4 DEF Canonical

(***************************************************************************)
(* Iterators.                                                              *)
(***************************************************************************)

LEMMA NextOperation ==
  ASSUME NEW l \in Languages, NEW v, v[1] \in {"List", "Map"}, NEW it
  PROVE  NextIn(l, v, it) = IF HasNext(v, it) THEN <<Some(Current(v, it)), Increment(v, it)>>
                            ELSE <<None, it>>
BY DEF Languages, NextIn, CListNext, CMapNext, GoListNext, GoMapNext, RustListNext, RustMapNext,
       PythonListNext, PythonMapNext

LEMMA WalkBegins ==
  ASSUME ObjectInv, BeginWalk
  PROVE  WalkInv'
<1>1. object' = object /\ object[1] \in {"List", "Map"}
  BY DEF BeginWalk
<1>2. PICK l \in Languages : walk' = [lang |-> l, it |-> Begin(object), seen |-> None, over |-> FALSE]
  BY DEF BeginWalk
<1>3. walk'.lang = l /\ walk'.it = Begin(object) /\ walk'.seen = <<>> /\ walk'.over = FALSE
      /\ walk' = [lang |-> walk'.lang, it |-> walk'.it, seen |-> walk'.seen, over |-> walk'.over]
  BY <1>2 DEF None
<1>4. CASE object[1] = "List"
  <2>1. object[2] \in Seq(Flat)
    BY <1>4, NestedKinds DEF ObjectInv
  <2>2. walk'.it = [at |-> Len(walk'.seen)] /\ Len(walk'.seen) = 0
    BY <1>3, <1>4 DEF Begin
  <2>3. walk'.seen = [i \in 1 .. Len(walk'.seen) |-> <<i - 1, object'[2][i]>>]
    BY <1>3
  <2>4. WalkedList'
    BY <1>1, <1>3, <2>1, <2>2, <2>3 DEF WalkedList
  <2> QED
    BY <1>1, <1>3, <1>4, <2>4 DEF WalkInv
<1>5. CASE object[1] = "Map"
  <2>1. walk'.it = [left |-> DOMAIN object[2]]
    BY <1>3, <1>5 DEF Begin
  <2>2. /\ object'[2] = object[2] /\ walk'.it.left = DOMAIN object[2]
        /\ DOMAIN object'[2] \ walk'.it.left = {}
    BY <1>1, <2>1
  <2>3. walk'.seen = <<>> /\ Len(walk'.seen) = 0 /\ DOMAIN walk'.seen = {}
    BY <1>3
  <2>4. Len(walk'.seen) = Cardinality(DOMAIN object'[2] \ walk'.it.left)
    BY <2>2, <2>3, FS_EmptySet
  <2>5. walk'.seen \in Seq({<<k, object'[2][k]>> : k \in DOMAIN object'[2] \ walk'.it.left})
    BY <2>3
  <2>6. WalkedMap'
    BY <1>3, <2>1, <2>2, <2>3, <2>4, <2>5 DEF WalkedMap
  <2> QED
    BY <1>1, <1>3, <1>5, <2>6 DEF WalkInv
<1> QED
  BY <1>1, <1>4, <1>5

LEMMA WalkSteps ==
  ASSUME ObjectInv, WalkInv, StepWalk
  PROVE  WalkInv'
<1>1. walk # Idle /\ object' = object
  BY DEF StepWalk
<1>2. /\ walk.lang \in Languages /\ walk.over \in BOOLEAN
      /\ walk = [lang |-> walk.lang, it |-> walk.it, seen |-> walk.seen, over |-> walk.over]
      /\ object[1] \in {"List", "Map"}
  BY <1>1 DEF WalkInv
<1> DEFINE next == NextIn(walk.lang, object, walk.it)
<1>3. next = IF HasNext(object, walk.it)
             THEN <<Some(Current(object, walk.it)), Increment(object, walk.it)>> ELSE <<None, walk.it>>
  BY <1>2, NextOperation
<1>4. walk' = IF walk.over THEN Idle
              ELSE IF next[1] = None THEN [walk EXCEPT !.over = TRUE]
              ELSE [walk EXCEPT !.it = next[2], !.seen = Append(@, next[1][1])]
  BY DEF StepWalk
<1> HIDE DEF next
<1>5. CASE walk.over
  BY <1>4, <1>5 DEF WalkInv
<1>6. CASE ~walk.over /\ ~HasNext(object, walk.it)
  <2>1. walk' = [lang |-> walk.lang, it |-> walk.it, seen |-> walk.seen, over |-> TRUE]
    BY <1>2, <1>3, <1>4, <1>6
  <2>2. walk'.lang = walk.lang /\ walk'.it = walk.it /\ walk'.seen = walk.seen /\ walk'.over = TRUE
    BY <2>1
  <2>3. CASE object[1] = "List" /\ WalkedList
    <3>1. WalkedList'
      BY <1>1, <1>6, <2>2, <2>3 DEF WalkedList, HasNext
    <3> QED
      BY <1>1, <1>2, <2>1, <2>2, <2>3, <3>1 DEF WalkInv
  <2>4. CASE object[1] = "Map" /\ WalkedMap
    <3>1. WalkedMap'
      BY <1>1, <1>6, <2>2, <2>4 DEF WalkedMap, HasNext
    <3> QED
      BY <1>1, <1>2, <2>1, <2>2, <2>4, <3>1 DEF WalkInv
  <2> QED
    BY <1>1, <2>3, <2>4 DEF WalkInv
<1>7. CASE ~walk.over /\ HasNext(object, walk.it)
  <2>1. next[1] # None /\ next[1][1] = Current(object, walk.it) /\ next[2] = Increment(object, walk.it)
    BY <1>3, <1>7 DEF Some, None
  <2>2. walk' = [lang |-> walk.lang, it |-> Increment(object, walk.it),
                 seen |-> Append(walk.seen, Current(object, walk.it)), over |-> walk.over]
    BY <1>2, <1>4, <1>7, <2>1
  <2>3. /\ walk'.lang = walk.lang /\ walk'.it = Increment(object, walk.it)
        /\ walk'.seen = Append(walk.seen, Current(object, walk.it)) /\ walk'.over = walk.over
    BY <2>2
  <2>4. CASE object[1] = "List" /\ WalkedList
    <3> DEFINE data == object[2]
               n    == Len(walk.seen)
    <3>1. data \in Seq(Flat)
      BY <2>4, NestedKinds DEF ObjectInv
    <3>2. /\ walk.it = [at |-> n] /\ walk.it.at = n /\ n \in 0 .. Len(data)
          /\ walk.seen = [i \in 1 .. n |-> <<i - 1, data[i]>>]
      BY <2>4 DEF WalkedList
    <3>3. n < Len(data) /\ n \in Nat /\ Len(data) \in Nat
      BY <1>7, <2>4, <3>1, <3>2 DEF HasNext
    <3>4. Current(object, walk.it) = <<n, data[n + 1]>> /\ Increment(object, walk.it) = [at |-> n + 1]
      BY <1>7, <2>4, <3>2 DEF Current, Increment
    <3> HIDE DEF data, n
    <3> DEFINE S == {<<i - 1, data[i]>> : i \in 1 .. n}
    <3>5. walk.seen \in [1 .. n -> S] /\ walk.seen \in Seq(S) /\ Len(walk.seen) = n
      <4>1. \A i \in 1 .. n : <<i - 1, data[i]>> \in S
        OBVIOUS
      <4> HIDE DEF S
      <4>2. walk.seen \in [1 .. n -> S]
        BY <3>2, <4>1
      <4> QED
        BY <3>3, <4>2
    <3> HIDE DEF S
    <3>6. walk'.seen = [i \in 1 .. n + 1 |-> <<i - 1, data[i]>>]
      <4>1. walk'.seen = Append(walk.seen, <<n, data[n + 1]>>)
        BY <2>3, <3>4
      <4>2. walk'.seen = [i \in 1 .. n + 1 |-> IF i <= n THEN walk.seen[i] ELSE <<n, data[n + 1]>>]
        BY <3>3, <3>5, <4>1
      <4>3. \A i \in 1 .. n : walk.seen[i] = <<i - 1, data[i]>>
        BY <3>2
      <4>4. \A i \in 1 .. n + 1 : ~(i <= n) => i = n + 1 /\ i - 1 = n
        BY <3>3
      <4>5. \A i \in 1 .. n + 1 : i <= n => i \in 1 .. n
        BY <3>3
      <4> QED
        BY <4>2, <4>3, <4>4, <4>5
    <3>7. Len(walk'.seen) = n + 1 /\ n + 1 \in 0 .. Len(data)
      BY <3>3, <3>6
    <3>8. WalkedList'
      BY <1>1, <1>7, <2>3, <3>4, <3>6, <3>7 DEF WalkedList, data
    <3> QED
      BY <1>1, <1>2, <2>2, <2>3, <2>4, <3>8 DEF WalkInv
  <2>5. CASE object[1] = "Map" /\ WalkedMap
    <3> DEFINE data == object[2]
               left == walk.it.left
               done == DOMAIN data \ left
               key  == CHOOSE k \in left : TRUE
    <3>1. /\ walk.it = [left |-> left] /\ left \subseteq DOMAIN data
          /\ walk.seen \in Seq({<<k, data[k]>> : k \in done})
          /\ Len(walk.seen) = Cardinality(done)
          /\ \A i, j \in DOMAIN walk.seen : walk.seen[i][1] = walk.seen[j][1] => i = j
      BY <2>5 DEF WalkedMap
    <3>2. left # {} /\ key \in left
      BY <1>7, <2>5 DEF HasNext
    <3>3. Current(object, walk.it) = <<key, data[key]>>
          /\ Increment(object, walk.it) = [left |-> left \ {key}]
      BY <1>7, <2>5 DEF Current, Increment
    <3>4. IsFiniteSet(done)
      <4>1. data \in MapsTo(Flat)
        BY <2>5, NestedKinds DEF ObjectInv
      <4> QED
        BY <4>1, MapShape, FS_Subset
    <3> HIDE DEF key
    <3>5. walk'.it = [left |-> left \ {key}] /\ walk'.it.left = left \ {key}
      BY <2>3, <3>3
    <3>6. DOMAIN data \ walk'.it.left = done \cup {key} /\ key \notin done
      BY <3>1, <3>2, <3>5
    <3>7. Cardinality(done \cup {key}) = Cardinality(done) + 1 /\ Cardinality(done) \in Nat
      BY <3>4, <3>6, FS_AddElement, FS_CardinalityType
    <3> DEFINE new == {<<k, data[k]>> : k \in done \cup {key}}
    <3> HIDE DEF data, left, done
    <3>8. walk.seen \in Seq(new) /\ <<key, data[key]>> \in new
      BY <3>1
    <3>9. /\ walk'.seen = Append(walk.seen, <<key, data[key]>>)
          /\ walk'.seen \in Seq(new) /\ Len(walk'.seen) = Len(walk.seen) + 1
          /\ \A i \in 1 .. Len(walk.seen) : walk'.seen[i] = walk.seen[i]
          /\ walk'.seen[Len(walk.seen) + 1] = <<key, data[key]>>
          /\ DOMAIN walk'.seen = 1 .. Len(walk.seen) + 1
      <4>1. walk'.seen = Append(walk.seen, <<key, data[key]>>)
        BY <2>3, <3>3
      <4> HIDE DEF new
      <4> QED
        BY <3>8, <4>1, AppendProperties
    <3>10. \A i \in DOMAIN walk.seen : walk.seen[i][1] \in done /\ walk.seen[i][1] # key
      <4>1. \A i \in DOMAIN walk.seen : walk.seen[i] \in {<<k, data[k]>> : k \in done}
        BY <3>1, ElementOfSeq
      <4> QED
        BY <3>6, <4>1
    <3>11. \A i, j \in DOMAIN walk'.seen : walk'.seen[i][1] = walk'.seen[j][1] => i = j
      <4>1. DOMAIN walk.seen = 1 .. Len(walk.seen) /\ Len(walk.seen) \in Nat
        BY <3>8
      <4>2. walk'.seen[Len(walk.seen) + 1][1] = key
        BY <3>9
      <4> QED
        BY <3>1, <3>9, <3>10, <4>1, <4>2
    <3>12. WalkedMap'
      <4>1. object'[2] = data /\ walk'.it = [left |-> walk'.it.left] /\ walk'.it.left \subseteq DOMAIN data
        BY <1>1, <3>1, <3>5 DEF data
      <4>2. DOMAIN data \ walk'.it.left = done \cup {key}
        BY <3>6
      <4>3. Len(walk'.seen) = Cardinality(done \cup {key})
        BY <3>1, <3>7, <3>9
      <4>4. walk'.over = FALSE
        BY <1>2, <1>7, <2>3
      <4>5. DOMAIN object'[2] \ walk'.it.left = done \cup {key}
        BY <4>1, <4>2
      <4>6. {<<k, object'[2][k]>> : k \in DOMAIN object'[2] \ walk'.it.left} = new
        BY <4>1, <4>5
      <4> HIDE DEF new
      <4> QED
        BY <3>9, <3>11, <4>1, <4>3, <4>4, <4>5, <4>6 DEF WalkedMap
    <3> QED
      BY <1>1, <1>2, <2>2, <2>3, <2>5, <3>12 DEF WalkInv
  <2> QED
    BY <1>1, <2>4, <2>5 DEF WalkInv
<1> QED
  BY <1>2, <1>5, <1>6, <1>7

LEMMA WalkStep ==
  ASSUME ObjectInv, WalkInv, [Next]_vars
  PROVE  WalkInv'
<1>1. ASSUME walk' = walk, object' = object
      PROVE  WalkInv'
  BY <1>1 DEF WalkInv, WalkedList, WalkedMap
<1>2. ASSUME walk = Idle, walk' = Idle
      PROVE  WalkInv'
  BY <1>2 DEF WalkInv
<1>3. \A v, from : Becomes(v, from) => walk = Idle /\ walk' = Idle
  BY DEF Becomes, Free
<1>4. Store \/ New \/ Nest \/ AppendOne \/ SetOne \/ Resize => walk = Idle /\ walk' = Idle
  BY <1>3 DEF Store, New, Nest, AppendOne, SetOne, Resize
<1>5. SetKey \/ EraseKey \/ Take \/ Transfer => walk = Idle /\ walk' = Idle
  BY <1>3 DEF SetKey, End, Free, EraseKey, Take, Transfer
<1>6. UnpackSome \/ Look \/ UNCHANGED vars => walk' = walk /\ object' = object
  BY DEF UnpackSome, Look, vars
<1> QED
  BY <1>1, <1>2, <1>4, <1>5, <1>6, WalkBegins, WalkSteps DEF Next

(***************************************************************************)
(* What was meant.                                                         *)
(***************************************************************************)

LEMMA SentStays ==
  ASSUME NEW a, IsMeaning(a), NEW v \in Canonical, IsOf(a, v),
         NEW format \in FormatNames, ~Loses(format, a)
  PROVE  IsOf(a, Sent(format, v)) /\ Sent(format, v) \in Canonical
<1> DEFINE s == Stored(a)
<1>1. Sent(format, v) \in Canonical
  BY SentScalars
<1>2. s \in Canonical /\ (s = a \/ ~IsSpecial(s)) /\ (s = Bytes => s = a)
  BY DEF IsMeaning, IsNumber, Bytes
<1>3. v # s => v[1] # "Float" /\ ~IsSpecial(v)
  BY DEF IsOf, IsSpecial
<1>4. CASE v = Null
  BY <1>1, <1>4 DEF Sent, IsSpecial, Null
<1>5. CASE format = "json"
  <2>1. ~IsSpecial(v)
    BY <1>2, <1>3, <1>5 DEF Loses
  <2> QED
    BY <1>1, <1>5, <2>1 DEF Sent
<1>6. CASE format = "msgpack" /\ v[1] # "Float"
  BY <1>1, <1>6 DEF Sent
<1>7. CASE format = "msgpack" /\ v[1] = "Float"
  <2>1. v = s /\ v = <<"Float", v[2]>> /\ v[2] \in Floats
    BY <1>3, <1>7, ScalarKinds DEF Null
  <2>2. Sent(format, v) = ValueFromNode(PackDouble(v[2]))
    BY <1>7 DEF Sent
  <2> HIDE DEF s
  <2>3. \/ Sent(format, v) = v
        \/ \E n \in Int : ToFloat(2 * n) = v[2] /\ Sent(format, v) \in {<<"Int", n>>, <<"UInt", n>>}
    BY <2>1, <2>2, FloatsPacked
  <2> QED
    BY <1>1, <1>7, <2>1, <2>3 DEF IsOf, s
<1>8. CASE format = "yaml" /\ v # Null
  <2>1. Sent(format, v) = <<"String", Text(v)>>
    BY <1>8 DEF Sent
  <2>2. ~IsSpecial(s) /\ s # Bytes
    BY <1>2, <1>8 DEF Loses, Bytes
  <2>3. CASE v = s
    BY <1>1, <1>8, <2>1, <2>2, <2>3 DEF IsOf
  <2>4. CASE s \notin {Null, Bytes} /\ v = <<"String", Text(s)>>
    <3>1. Text(s) # <<"bytes">>
      BY <1>2, <2>4, Texts1
    <3>2. Text(v) = Text(s)
      BY <2>4, <3>1 DEF Text
    <3> QED
      BY <1>1, <2>1, <2>2, <2>4, <3>2 DEF IsOf
  <2>5. ASSUME NEW n \in Int, s[1] = "Float", ToFloat(2 * n) = s[2],
               v \in {<<"Int", n>>, <<"UInt", n>>, <<"String", <<"integer", n>>>>}
        PROVE  IsOf(a, Sent(format, v))
    <3>1. Text(v) = <<"integer", n>>
      BY <2>5 DEF Text
    <3> QED
      BY <2>1, <2>5, <3>1 DEF IsOf
  <2> QED
    BY <1>1, <2>3, <2>4, <2>5 DEF IsOf
<1> QED
  BY <1>4, <1>5, <1>6, <1>7, <1>8, FormatCases

LEMMA SentAlone ==
  ASSUME NEW format \in FormatNames, NEW v, NEW p \in Parts(v), Parts(v) = {p}
  PROVE  Parts(Sent1(format, v)) = {Sent(format, p)} /\ Parts(Sent2(format, v)) = {Sent1(format, p)}
<1>1. IsCollection(v) /\ ~IsEmpty(v) /\ \A i \in DOMAIN v[2] : v[2][i] = p
  BY DEF Parts, IsEmpty
<1>2. PICK i \in DOMAIN v[2] : TRUE
  BY <1>1 DEF IsEmpty
<1>3. Sent1(format, v) = <<v[1], [j \in DOMAIN v[2] |-> Sent(format, p)]>>
  BY <1>1 DEF Sent1, SentEach
<1>4. Sent2(format, v) = <<v[1], [j \in DOMAIN v[2] |-> Sent1(format, p)]>>
  BY <1>1 DEF Sent2, SentEach
<1>5. ASSUME NEW w, NEW s, w = <<v[1], [j \in DOMAIN v[2] |-> s]>>
      PROVE  Parts(w) = {s}
  <2>1. IsCollection(w) /\ DOMAIN w[2] = DOMAIN v[2] /\ \A j \in DOMAIN v[2] : w[2][j] = s
    BY <1>1, <1>5 DEF IsCollection
  <2> QED
    BY <1>2, <2>1 DEF Parts
<1> QED
  BY <1>3, <1>4, <1>5

LEMMA MeantCarried ==
  /\ MeantInv <=> (meant # Idle => IsMeaning(meant) /\ \E leaf : Carries(object, meant, leaf))
  /\ MeantInv' <=> (meant' # Idle => IsMeaning(meant') /\ \E leaf : Carries(object', meant', leaf))
<1>1. \A v, a, leaf : Carries(v, a, leaf) => leaf \in Within(v)
  BY DEF Carries, Within
<1> QED
  BY <1>1 DEF MeantInv

LEMMA MeantTransfer ==
  ASSUME ObjectInv, NEW a, IsMeaning(a), NEW leaf, Carries(object, a, leaf),
         NEW format \in FormatNames, ~Loses(format, a)
  PROVE  Carries(Sent2(format, object), a, Sent(format, leaf))
<1>1. IsOf(a, Sent(format, leaf)) /\ Sent(format, leaf) \in Canonical
  BY SentStays DEF Carries
<1>2. CASE object = leaf
  BY <1>1, <1>2, SentScalars DEF Carries
<1>3. CASE Parts(object) = {leaf}
  <2>1. leaf \in Parts(object) /\ Parts(Sent2(format, object)) = {Sent1(format, leaf)}
    BY <1>3, SentAlone
  <2>2. Sent1(format, leaf) = Sent(format, leaf)
    BY SentScalars DEF Carries
  <2> QED
    BY <1>1, <2>1, <2>2 DEF Carries
<1>4. ASSUME NEW p \in Parts(object), Parts(object) = {p}, Parts(p) = {leaf}
      PROVE  Carries(Sent2(format, object), a, Sent(format, leaf))
  <2>1. /\ leaf \in Parts(p) /\ Parts(Sent2(format, object)) = {Sent1(format, p)}
        /\ Parts(Sent1(format, p)) = {Sent(format, leaf)}
    BY <1>4, SentAlone
  <2> QED
    BY <1>1, <2>1 DEF Carries
<1> QED
  BY <1>2, <1>3, <1>4 DEF Carries

LEMMA MeantStep ==
  ASSUME ObjectInv, MeantInv, [Next]_vars
  PROVE  MeantInv'
<1>1. meant' = Idle => MeantInv'
  BY DEF MeantInv
<1>2. UNCHANGED <<object, meant>> => MeantInv'
  BY MeantCarried
<1>3. CASE Store
  <2> DEFINE Empty == <<"String", <<"empty">>>>
             From(a) == CASE IsStored(a)        -> a
                          [] a[1] = "NilString" -> Empty
                          [] OTHER              -> Idle
  <2>1. PICK l \in Languages : \E a \in Args(l) : object' = SetIn(l, object, a) /\ meant' = From(a)
    BY <1>3 DEF Store, Becomes
  <2>2. PICK a \in Args(l) : object' = SetIn(l, object, a) /\ meant' = From(a)
    BY <2>1
  <2>3. CASE IsStored(a)
    <3>1. IsMeaning(a) /\ Given(l, a, Stored(a)) /\ meant' = a
      BY <2>2, <2>3, StoredScalar DEF Given, Stores, IsStored
    <3>2. object' = Stored(a)
      BY <2>2, <3>1, StoreOperation
    <3>3. Carries(object', meant', Stored(a))
      BY <3>1, <3>2 DEF Carries, IsOf, IsMeaning
    <3> QED
      BY <3>1, <3>3, MeantCarried
  <2>4. CASE a[1] = "NilString"
    <3>1. ~IsStored(a) /\ Harmless(l, a) /\ meant' = Empty
      BY <2>2, <2>4, ArgCases DEF IsStored
    <3>2. object' = Empty
      BY <2>2, <2>4, <3>1, NotSet
    <3>3. Stored(Empty) = Empty /\ Empty \in Canonical
      BY AreScalars DEF Stored, ValueOf, Strings
    <3>4. IsMeaning(Empty)
      BY <3>3 DEF IsMeaning
    <3>5. Carries(object', meant', Empty)
      BY <3>1, <3>2, <3>3 DEF Carries, IsOf
    <3> QED
      BY <3>1, <3>4, <3>5, MeantCarried
  <2>5. CASE ~IsStored(a) /\ a[1] # "NilString"
    BY <1>1, <2>2, <2>5
  <2> QED
    BY <2>3, <2>4, <2>5
<1>4. CASE New \/ AppendOne \/ SetOne \/ Resize \/ SetKey \/ EraseKey
  <2>1. meant' = Idle \/ UNCHANGED <<object, meant>>
    BY <1>4 DEF New, AppendOne, SetOne, Resize, SetKey, End, EraseKey, Becomes
  <2> QED
    BY <1>1, <1>2, <2>1
<1>5. CASE Nest
  <2>1. object \in Flat /\ meant' = meant /\ Parts(object') = {object}
    BY <1>5, NestSteps, NestedIn
  <2>2. ASSUME NEW leaf, Carries(object, meant, leaf)
        PROVE  Carries(object', meant, leaf)
    <3>1. object = leaf \/ Parts(object) = {leaf}
      <4>1. ASSUME NEW p \in Parts(object), Parts(p) = {leaf}
            PROVE  FALSE
        <5>1. p \in Canonical
          BY <2>1, ScalarsHoldNothing, CollectionKinds DEF Flat
        <5> QED
          BY <4>1, <5>1, ScalarsHoldNothing
      <4> QED
        BY <2>2, <4>1 DEF Carries
    <3> QED
      BY <2>1, <2>2, <3>1 DEF Carries
  <2> QED
    BY <2>1, <2>2, MeantCarried
<1>6. CASE Take
  <2>1. object' \in Parts(object) /\ meant' \in {meant, Idle}
    BY <1>6, TakeSteps
  <2>2. ASSUME NEW leaf, Carries(object, meant, leaf)
        PROVE  Carries(object', meant, leaf)
    BY <2>1, <2>2, ScalarsHoldNothing DEF Carries
  <2> QED
    BY <1>1, <2>1, <2>2, MeantCarried
<1>7. CASE Transfer
  <2>1. PICK format \in FormatNames :
          /\ Encode(format, object) # None
          /\ object' = Decode(format, Encode(format, object)[1])
          /\ meant' = IF meant = Idle \/ Loses(format, meant) THEN Idle ELSE meant
    BY <1>7 DEF Transfer, Becomes
  <2>2. object' = Sent2(format, object)
    BY <2>1, Received DEF ObjectInv
  <2>3. ASSUME meant' # Idle
        PROVE  IsMeaning(meant') /\ \E leaf : Carries(object', meant', leaf)
    <3>1. meant' = meant /\ meant # Idle /\ ~Loses(format, meant)
      BY <2>1, <2>3
    <3>2. IsMeaning(meant)
      BY <3>1, MeantCarried
    <3>3. PICK leaf : Carries(object, meant, leaf)
      BY <3>1, MeantCarried
    <3>4. Carries(object', meant, Sent(format, leaf))
      BY <2>2, <3>1, <3>2, <3>3, MeantTransfer
    <3> QED
      BY <3>1, <3>2, <3>4
  <2> QED
    BY <2>3, MeantCarried
<1>8. CASE UnpackSome \/ Look \/ BeginWalk \/ StepWalk \/ UNCHANGED vars
  BY <1>2, <1>8 DEF UnpackSome, Look, BeginWalk, StepWalk, vars
<1> QED
  BY <1>3, <1>4, <1>5, <1>6, <1>7, <1>8 DEF Next

LEMMA UnpackedStep ==
  ASSUME UnpackedInv, [Next]_vars
  PROVE  UnpackedInv'
<1>1. \A v, from : Becomes(v, from) => unpacked = Nothing /\ unpacked' = unpacked
  BY DEF Becomes, Free
<1>2. Store \/ New \/ Nest \/ AppendOne \/ SetOne \/ Resize => unpacked = Nothing /\ unpacked' = unpacked
  BY <1>1 DEF Store, New, Nest, AppendOne, SetOne, Resize
<1>3. EraseKey \/ Take \/ Transfer => unpacked = Nothing /\ unpacked' = unpacked
  BY <1>1 DEF EraseKey, Take, Transfer
<1>8. CASE SetKey
  BY <1>1, <1>8 DEF SetKey, End, Nothing, UnpackedInv
<1>4. unpacked' = Nothing => UnpackedInv'
  BY DEF UnpackedInv, Nothing
<1>5. CASE UnpackSome
  BY <1>5 DEF UnpackSome, UnpackedInv
<1>6. CASE Look
  BY <1>4, <1>6 DEF Look
<1>7. CASE BeginWalk \/ StepWalk \/ UNCHANGED vars
  BY <1>7 DEF BeginWalk, StepWalk, vars, UnpackedInv
<1> QED
  BY <1>2, <1>3, <1>4, <1>5, <1>6, <1>7, <1>8 DEF Next

\* The object is made of stored scalars, what was meant is its one scalar, what was
\* unpacked and how far a walk is follow from it: so it begins, and every operation of
\* every language keeps it so.
THEOREM InductiveInvariant == Spec => []IInv
<1>1. Init => IInv
  <2> SUFFICES ASSUME Init PROVE IInv
    OBVIOUS
  <2>1. ObjectInv
    BY AreScalars, Levels DEF Init, ObjectInv
  <2>2. MeantInv
    <3>1. IsMeaning(Null) /\ Stored(Null) = Null
      BY AreScalars DEF IsMeaning, Null, Stored, ValueOf
    <3>2. Carries(object, meant, Null)
      BY <3>1, AreScalars DEF Init, Carries, IsOf
    <3> QED
      BY <3>1, <3>2, MeantCarried DEF Init
  <2> QED
    BY <2>1, <2>2 DEF Init, IInv, UnpackedInv, WalkInv
<1>2. IInv /\ [Next]_vars => IInv'
  BY ObjectStep, MeantStep, UnpackedStep, WalkStep DEF IInv
<1> QED
  BY <1>1, <1>2, PTL DEF Spec

\* Whatever the width of the integers, whichever language stored a number and whatever
\* it was sent in, a UInt is larger than every Int (Value::Value(UInt), the decoders).
THEOREM NumbersHaveOneType == Spec => []UIntIsLarge
<1>1. IInv => UIntIsLarge
  BY CanonicalWithin DEF IInv, ObjectInv, UIntIsLarge
<1> QED
  BY <1>1, InductiveInvariant, PTL

\* The iterators of lists and maps, in every language, come to each element once, and say
\* that there are no more when there are none (ListIterator, MapIterator and next).
THEOREM EachVisitedOnce == Spec => []WalkVisitsOnce
<1>1. IInv => WalkVisitsOnce
  <2> SUFFICES ASSUME IInv, walk # Idle
               PROVE  /\ \A i \in DOMAIN walk.seen :
                           /\ object[1] = "List" => walk.seen[i] = <<i - 1, object[2][i]>>
                           /\ object[1] = "Map" => walk.seen[i][2] = object[2][walk.seen[i][1]]
                           /\ \A j \in DOMAIN walk.seen : walk.seen[i][1] = walk.seen[j][1] => i = j
                      /\ walk.over => Len(walk.seen) = Cardinality(DOMAIN object[2])
    BY DEF WalkVisitsOnce
  <2>1. CASE object[1] = "List" /\ WalkedList
    <3> DEFINE data == object[2]
               n    == Len(walk.seen)
    <3>1. data \in Seq(Flat)
      BY <2>1, NestedKinds DEF IInv, ObjectInv
    <3>2. n \in Nat /\ walk.seen = [i \in 1 .. n |-> <<i - 1, data[i]>>] /\ (walk.over => n = Len(data))
      BY <2>1, <3>1 DEF WalkedList
    <3>3. Cardinality(DOMAIN data) = Len(data)
      <4>1. DOMAIN data = 1 .. Len(data) /\ Len(data) \in Nat
        BY <3>1
      <4> QED
        BY <4>1, FS_Interval
    <3> HIDE DEF data, n
    <3>4. DOMAIN walk.seen = 1 .. n /\ \A i \in 1 .. n : walk.seen[i] = <<i - 1, data[i]>>
      BY <3>2
    <3>5. \A i, j \in 1 .. n : walk.seen[i][1] = walk.seen[j][1] => i = j
      BY <3>2, <3>4
    <3> QED
      BY <2>1, <3>2, <3>3, <3>4, <3>5 DEF data, n
  <2>2. CASE object[1] = "Map" /\ WalkedMap
    <3> DEFINE data == object[2]
               done == DOMAIN data \ walk.it.left
    <3>1. /\ walk.seen \in Seq({<<k, data[k]>> : k \in done})
          /\ Len(walk.seen) = Cardinality(done)
          /\ \A i, j \in DOMAIN walk.seen : walk.seen[i][1] = walk.seen[j][1] => i = j
          /\ walk.over => done = DOMAIN data
      BY <2>2 DEF WalkedMap
    <3>2. \A i \in DOMAIN walk.seen : walk.seen[i][2] = data[walk.seen[i][1]]
      <4>1. \A i \in DOMAIN walk.seen : walk.seen[i] \in {<<k, data[k]>> : k \in done}
        BY <3>1, ElementOfSeq
      <4> QED
        BY <4>1
    <3> QED
      BY <2>2, <3>1, <3>2
  <2> QED
    BY <2>1, <2>2 DEF IInv, WalkInv
<1> QED
  BY <1>1, InductiveInvariant, PTL

(***************************************************************************)
(* Where it was stored.                                                    *)
(***************************************************************************)

LEMMA CIndexes ==
  /\ \A l \in Languages : IndexIn(l, -1) = -1
  /\ \A l \in Languages, i \in Int : IsCIndex(i) => IndexIn(l, i) = i
BY BindingsAssumption DEF IndexIn, IsCIndex, Wrap

LEMMA AppendedLast ==
  ASSUME NEW S, NEW list \in Seq(S), NEW v \in S
  PROVE  /\ Len(Append(list, v)) = Len(list) + 1 /\ SubSeq(Append(list, v), 1, Len(list)) = list
         /\ ListFind(Append(list, v), -1) = Some(v)
         /\ ListFind(Append(list, v), Len(list)) = Some(v)
<1>1. /\ Append(list, v) \in Seq(S) /\ Len(Append(list, v)) = Len(list) + 1
      /\ Append(list, v)[Len(list) + 1] = v
  BY AppendProperties
<1>2. SubSeq(Append(list, v), 1, Len(list)) = list
  OBVIOUS
<1> QED
  BY <1>1, <1>2 DEF ListFind, HasPosition, Position

LEMMA SetWhereAsked ==
  ASSUME NEW S, NEW list \in Seq(S), NEW v \in S, NEW i \in Int
  PROVE  IF At(list, i) \in DOMAIN list
         THEN /\ ListFind(ListSet(list, i, v), i) = Some(v)
              /\ \A j \in DOMAIN list : j # At(list, i) => ListSet(list, i, v)[j] = list[j]
         ELSE ListSet(list, i, v) = list /\ ListFind(ListSet(list, i, v), i) = None
<1>1. DOMAIN list = 1 .. Len(list) /\ Len(list) \in Nat
  OBVIOUS
<1>2. At(list, i) = Position(list, i) + 1 /\ Position(list, i) \in Int
  BY <1>1 DEF At, Position
<1>3. HasPosition(list, i) <=> At(list, i) \in DOMAIN list
  BY <1>1, <1>2 DEF HasPosition
<1>4. CASE HasPosition(list, i)
  <2> DEFINE at  == At(list, i)
             new == [list EXCEPT ![at] = v]
  <2>1. ListSet(list, i, v) = new
    BY <1>2, <1>4 DEF ListSet
  <2>2. new \in Seq(S) /\ Len(new) = Len(list) /\ new[at] = v
        /\ \A j \in DOMAIN list : j # at => new[j] = list[j]
    BY <1>3, <1>4, ExceptSeq
  <2> HIDE DEF new
  <2>3. HasPosition(new, i) /\ Position(new, i) + 1 = at
    BY <1>2, <1>4, <2>2 DEF HasPosition, Position
  <2> QED
    BY <1>3, <1>4, <2>1, <2>2, <2>3 DEF ListFind
<1>5. CASE ~HasPosition(list, i)
  BY <1>3, <1>5 DEF ListSet, ListFind
<1> QED
  BY <1>4, <1>5

\* List::append and set and Map::set put what an argument is stored as where they were
\* asked to and every language finds it there, whatever the length and the index; what is
\* not stored (a null pointer, Go's zero string) changes nothing or ends the program.
THEOREM StoredWhereAsked == Spec => []StoresWhereAsked
<1>1. ASSUME IInv, NEW l \in Languages, NEW a, NEW v \in Canonical, Given(l, a, v)
      PROVE  IsFound(l, a, Some(SetIn(l, object, a)))
  <2> DEFINE data == object[2]
  <2>1. SetIn(l, object, a) = v
    BY <1>1, StoreOperation
  <2>2. ASSUME object[1] = "List"
        PROVE  data \in Seq(Flat) /\ v \in Flat
    BY <1>1, <2>2, NestedKinds, Levels DEF IInv, ObjectInv
  <2>3. AppendIn(l, data, a) = Append(data, v)
    BY <1>1, AppendOperation
  <2>4. \A i : SetAtIn(l, data, i, a) = ListSet(data, IndexIn(l, i), v)
    BY <1>1, SetAtOperation
  <2>5. \A k : SetKeyIn(l, data, k, a) = MapSet(data, k, v)
    BY <1>1, SetKeyOperation
  <2> HIDE DEF data
  <2>6. ASSUME object[1] = "List"
        PROVE  LET new == AppendIn(l, data, a)
               IN  /\ Len(new) = Len(data) + 1 /\ SubSeq(new, 1, Len(data)) = data
                   /\ \A m \in Languages : FindIn(m, new, -1) = Some(v)
                   /\ IsCIndex(Len(data)) => \A m \in Languages : FindIn(m, new, Len(data)) = Some(v)
    <3>1. Len(data) \in Int
      BY <2>2, <2>6
    <3>2. \A m \in Languages : FindIn(m, Append(data, v), -1) = ListFind(Append(data, v), -1)
      BY FindOperation, CIndexes
    <3>3. IsCIndex(Len(data)) => \A m \in Languages :
            FindIn(m, Append(data, v), Len(data)) = ListFind(Append(data, v), Len(data))
      BY <3>1, FindOperation, CIndexes
    <3> QED
      BY <2>2, <2>3, <2>6, <3>2, <3>3, AppendedLast
  <2>7. ASSUME object[1] = "List", NEW i \in Indexes, IsCIndex(i)
        PROVE  LET set == SetAtIn(l, data, i, a)
               IN  IF At(data, i) \in DOMAIN data
                   THEN /\ FindIn(l, set, i) = Some(v)
                        /\ \A j \in DOMAIN data : j # At(data, i) => set[j] = data[j]
                   ELSE set = data /\ FindIn(l, set, i) = None
    <3>1. i \in Int /\ IndexIn(l, i) = i
      BY <2>7, CIndexes, ValuesAssumption
    <3>2. SetAtIn(l, data, i, a) = ListSet(data, i, v)
      BY <2>4, <3>1
    <3>3. FindIn(l, ListSet(data, i, v), i) = ListFind(ListSet(data, i, v), i)
      BY <3>1, FindOperation
    <3> QED
      BY <2>2, <2>7, <3>1, <3>2, <3>3, SetWhereAsked
  <2>8. ASSUME object[1] = "Map", NEW k \in Keys
        PROVE  LET new == SetKeyIn(l, data, k, a)
               IN  /\ \A m \in Languages : FindKeyIn(m, new, k) = Some(v)
                   /\ \A j \in Keys \ {k} : FindKeyIn(l, new, j) = FindKeyIn(l, data, j)
    <3>1. \A m \in Languages : \A map, j : FindKeyIn(m, map, j) = MapFind(map, j)
      BY FindKeyOperation
    <3>2. MapFind(MapSet(data, k, v), k) = Some(v)
      BY DEF MapFind, MapSet
    <3>3. \A j \in Keys \ {k} : MapFind(MapSet(data, k, v), j) = MapFind(data, j)
      BY DEF MapFind, MapSet
    <3> QED
      BY <2>5, <3>1, <3>2, <3>3
  <2> QED
    BY <2>1, <2>6, <2>7, <2>8 DEF IsFound, data
<1>2. ASSUME NEW l \in Languages, NEW a, Harmless(l, a)
      PROVE  IsIgnored(l, a)
  BY <1>2, NotAppended, NotSetAt, NotSetKey DEF IsIgnored
<1>3. IInv => StoresWhereAsked
  BY <1>1, <1>2, ArgCases DEF StoresWhereAsked
<1> QED
  BY <1>3, InductiveInvariant, PTL

(***************************************************************************)
(* What is read.                                                           *)
(***************************************************************************)

LEMMA GetOperation ==
  ASSUME NEW l \in Languages, NEW v, NEW type
  PROVE  /\ l # "Python" => GetIn(l, v, type) = Get(v, type)
         /\ l = "Python" => GetIn(l, v, type) = IF v[1] = type THEN Some(v[2]) ELSE None
BY DEF Languages, GetIn, CValueGet, GoValueGet, RustValueGet, PythonValueGet, ToVariant, TypeName,
   Some, None

\* An argument that is stored as itself is read as what it is.
LEMMA ReadsItself ==
  ASSUME NEW a, IsMeaning(a), Stored(a) = a, NEW type \in Types,
         a[1] \in {"Null", "Bool", "Float", "String"}, a[1] = "String" => type = "String"
  PROVE  Get(a, type) = Meant(a, type) /\ (a[1] = type => Meant(a, type) = Some(a[2]))
<1>1. a \in Canonical
  BY DEF IsMeaning
<1>2. Meant(a, type) = IF a[1] = type THEN Some(a[2]) ELSE None
  BY DEF Meant
<1>3. CASE a = Null
  BY <1>2, <1>3 DEF Get, GetNull, GetBool, GetInt, GetUInt, GetFloat, GetString, GetList, GetMap,
     Types, Null
<1>4. CASE a[1] = "Bool"
  BY <1>2, <1>4 DEF Get, GetNull, GetBool, GetInt, GetUInt, GetFloat, GetString, GetList, GetMap,
     Types
<1>5. CASE a[1] = "Float"
  BY <1>2, <1>5 DEF Get, GetNull, GetBool, GetInt, GetUInt, GetFloat, GetString, GetList, GetMap,
     Types
<1>6. CASE a[1] = "String"
  BY <1>2, <1>6 DEF Get, GetString
<1> QED
  BY <1>1, <1>2, <1>3, <1>4, <1>5, <1>6, ScalarKinds

\* A number as its type, and as every other that holds it.
LEMMA ReadsNumber ==
  ASSUME NEW a, IsNumber(a), NEW type \in Types
  PROVE  /\ Get(Stored(a), type) = Meant(a, type)
         /\ Stored(a)[1] = type => Meant(a, type) = Some(Stored(a)[2])
<1> DEFINE n == a[2]
           v == Stored(a)
<1>1. n \in Int /\ MaxInt \in Nat
  BY ValueAssumption DEF IsNumber
<1>2. Meant(a, type) = CASE type = "Int"   -> IF n \in Ints THEN Some(n) ELSE None
                         [] type = "UInt"  -> IF n \in UInts THEN Some(n) ELSE None
                         [] type = "Float" -> Some(ToFloat(2 * n))
                         [] OTHER          -> None
  BY DEF IsNumber, Meant
<1>3. CASE n \in Ints
  <2>1. v = <<"Int", n>> /\ (n \in UInts <=> n >= 0)
    BY <1>1, <1>3 DEF IsNumber, Ints, UInts, MaxUInt
  <2> HIDE DEF v, n
  <2> QED
    BY <1>1, <1>2, <1>3, <2>1
       DEF Get, GetNull, GetBool, GetInt, GetUInt, GetFloat, GetString, GetList, GetMap, Types, v
<1>4. CASE n \in UInts \ Ints
  <2>1. v = <<"UInt", n>>
    BY <1>4 DEF IsNumber
  <2> HIDE DEF v, n
  <2> QED
    BY <1>1, <1>2, <1>4, <2>1
       DEF Get, GetNull, GetBool, GetInt, GetUInt, GetFloat, GetString, GetList, GetMap, Types, v
<1>5. CASE n \notin Ints \cup UInts
  <2>1. v = <<"Float", ToFloat(2 * n)>>
    BY <1>5 DEF IsNumber
  <2> HIDE DEF v, n
  <2> QED
    BY <1>1, <1>2, <1>5, <2>1
       DEF Get, GetNull, GetBool, GetInt, GetUInt, GetFloat, GetString, GetList, GetMap, Types, v
<1> QED
  BY <1>3, <1>4, <1>5

\* A float that is written is read as the same.
LEMMA ReadsFloatText ==
  ASSUME NEW f \in FiniteFloats
  PROVE  StringToFloat(Text(<<"Float", f>>)) = Some(f)
<1>1. f \in Int /\ ToFloat(f) = f /\ f \notin SpecialFloats
  BY FloatsStay
<1>2. Text(<<"Float", f>>) = FloatText(f)
  BY DEF Text
<1>3. CASE f % 2 = 0 /\ f \div 2 \in 1 - Exponent .. Exponent - 1
  <2>1. FloatText(f) = <<"integer", f \div 2>> /\ 2 * (f \div 2) = f
    BY <1>1, <1>3 DEF FloatText
  <2> QED
    BY <1>1, <1>2, <2>1 DEF StringToFloat
<1>4. CASE ~(f % 2 = 0 /\ f \div 2 \in 1 - Exponent .. Exponent - 1)
  <2>1. FloatText(f) = <<"point", f>>
    BY <1>1, <1>4 DEF FloatText
  <2> QED
    BY <1>1, <1>2, <2>1 DEF StringToFloat
<1> QED
  BY <1>3, <1>4

\* A number that YAML made a text is read as what it was.
LEMMA ReadsNumberText ==
  ASSUME NEW a, IsMeaning(a), IsNumber(a), NEW type \in Types, Meant(a, type) # None
  PROVE  Get(<<"String", Text(Stored(a))>>, type) = Meant(a, type) /\ type # "String"
<1> DEFINE n == a[2]
           v == <<"String", Text(Stored(a))>>
<1>1. n \in Int /\ MaxInt \in Nat
  BY ValueAssumption DEF IsNumber
<1>2. Meant(a, type) = CASE type = "Int"   -> IF n \in Ints THEN Some(n) ELSE None
                         [] type = "UInt"  -> IF n \in UInts THEN Some(n) ELSE None
                         [] type = "Float" -> Some(ToFloat(2 * n))
                         [] OTHER          -> None
  BY DEF IsNumber, Meant
<1>3. /\ type = "Int" => n \in Ints
      /\ type = "UInt" => n \in UInts
      /\ type \in {"Int", "UInt", "Float"}
  BY <1>2
<1>4. CASE n \in Ints \cup UInts
  <2>1. Text(Stored(a)) = <<"integer", n>>
    BY <1>4 DEF IsNumber, Text
  <2>2. n \in UInts => n % (MaxUInt + 1) = n /\ n \in -MaxUInt .. MaxUInt
    BY <1>1 DEF UInts, MaxUInt
  <2> HIDE DEF n
  <2> QED
    BY <1>2, <1>3, <2>1, <2>2 DEF Get, GetInt, GetUInt, GetFloat, StringToInt, StringToUInt,
       StringToFloat
<1>5. CASE n \notin Ints \cup UInts
  <2>1. type = "Float" /\ Stored(a) = <<"Float", ToFloat(2 * n)>>
    BY <1>3, <1>5 DEF IsNumber
  <2>2. ToFloat(2 * n) \in FiniteFloats
    <3>1. Stored(a) \in Canonical /\ Stored(a)[1] = "Float" /\ Stored(a)[2] = ToFloat(2 * n)
      BY <2>1 DEF IsMeaning
    <3>2. Stored(a)[2] \notin SpecialFloats
      BY <3>1 DEF IsNumber, IsSpecial
    <3> QED
      BY <3>1, <3>2, ScalarKinds DEF Null, Floats
  <2>3. StringToFloat(Text(Stored(a))) = Some(ToFloat(2 * n))
    BY <2>1, <2>2, ReadsFloatText
  <2> HIDE DEF n
  <2> QED
    BY <1>2, <2>1, <2>3 DEF Get, GetFloat
<1> QED
  BY <1>4, <1>5

LEMMA ReadsText ==
  ASSUME NEW a, IsMeaning(a), Stored(a) = a, NEW type \in Types,
         a[1] \in {"Bool", "Float", "String"}, a # Bytes, ~IsSpecial(a), Meant(a, type) # None
  PROVE  Get(<<"String", Text(a)>>, type) = Meant(a, type) /\ type = a[1]
<1>1. a \in Canonical
  BY DEF IsMeaning
<1>2. Meant(a, type) = Some(a[2]) /\ type = a[1]
  BY DEF Meant
<1>3. CASE a[1] = "Bool"
  <2>1. a[2] \in BOOLEAN
    BY <1>1, <1>3, ScalarKinds DEF Null
  <2> QED
    BY <1>2, <1>3, <2>1 DEF Get, GetBool, Text, StringToBool
<1>4. CASE a[1] = "Float"
  <2>1. a = <<"Float", a[2]>> /\ a[2] \in FiniteFloats
    BY <1>1, <1>4, ScalarKinds DEF Null, IsSpecial, Floats
  <2>2. StringToFloat(Text(a)) = Some(a[2])
    BY <2>1, ReadsFloatText
  <2> QED
    BY <1>2, <1>4, <2>2 DEF Get, GetFloat
<1>5. CASE a[1] = "String"
  <2>1. a = <<"String", a[2]>>
    BY <1>1, <1>5, ScalarKinds DEF Null
  <2>2. a[2] # <<"bytes">>
    BY <2>1 DEF Bytes
  <2>3. Text(a) = a[2]
    BY <1>5, <2>2 DEF Text
  <2> QED
    BY <1>2, <1>5, <2>3 DEF Get, GetString
<1> QED
  BY <1>3, <1>4, <1>5

\* A float that MessagePack made an integer, and perhaps YAML its text, is read as it.
LEMMA ReadsIntegral ==
  ASSUME NEW a, IsMeaning(a), NEW n \in Int, Stored(a)[1] = "Float", ToFloat(2 * n) = Stored(a)[2],
         NEW v \in {<<"Int", n>>, <<"UInt", n>>, <<"String", <<"integer", n>>>>},
         NEW type \in ReadTypes(a, v)
  PROVE  Get(v, type) = Meant(a, type) /\ v[1] # type
<1>1. IsFloating(a) /\ a[1] # "String" /\ v[1] \in {"Int", "UInt", "String"}
  BY DEF IsMeaning, IsNumber, IsFloating
<1>2. type \in Types /\ Meant(a, type) # None
  BY <1>1 DEF ReadTypes
<1>3. type = "Float" /\ Meant(a, type) = Some(ToFloat(2 * n))
  <2>1. CASE IsNumber(a)
    <3>1. a[2] \notin Ints \cup UInts /\ a[1] = "PyInt" /\ Stored(a)[2] = ToFloat(2 * a[2])
      BY <2>1 DEF IsNumber
    <3> QED
      BY <1>2, <3>1 DEF Meant
  <2>2. CASE a[1] \in {"Null", "Bool", "Float", "String"} /\ Stored(a) = a
    BY <1>2, <2>2 DEF Meant
  <2> QED
    BY <2>1, <2>2 DEF IsMeaning
<1>4. GetFloat(v) = Some(ToFloat(2 * n))
  BY DEF GetFloat, StringToFloat
<1> QED
  BY <1>1, <1>3, <1>4 DEF Get

LEMMA LeafReadsBack ==
  ASSUME NEW a, IsMeaning(a), NEW v, IsOf(a, v)
  PROVE  ReadsBack(a, v)
<1>1. SUFFICES ASSUME NEW type \in ReadTypes(a, v)
               PROVE  /\ Get(v, type) = Meant(a, type)
                      /\ v[1] = type => Meant(a, type) = Some(v[2])
  BY GetOperation DEF ReadsBack, Languages
<1>2. /\ IsNumber(a) \/ (a[1] \in {"Null", "Bool", "Float", "String"} /\ Stored(a) = a)
      /\ IsNumber(a) => a[1] # "String" /\ Stored(a)[1] # "String"
  BY DEF IsMeaning, IsNumber
<1>3. /\ a[1] = "String" => type = "String"
      /\ a[1] # "String" => type \in Types
      /\ a[1] # "String" /\ v[1] = "String" => Meant(a, type) # None
  BY DEF ReadTypes
<1>4. type \in Types
  BY <1>3 DEF Types
<1>5. CASE v = Stored(a)
  BY <1>2, <1>3, <1>4, <1>5, ReadsItself, ReadsNumber
<1>6. CASE /\ Stored(a) \notin {Null, Bytes} /\ ~IsSpecial(Stored(a))
           /\ v = <<"String", Text(Stored(a))>>
  <2>1. v[1] = "String" /\ v[2] = Text(Stored(a))
    BY <1>6
  <2>2. CASE IsNumber(a)
    BY <1>2, <1>3, <1>4, <1>6, <2>1, <2>2, ReadsNumberText
  <2>3. CASE a[1] \in {"Null", "Bool", "Float", "String"} /\ Stored(a) = a
    <3>1. a[1] # "Null"
      BY <1>6, <2>3, ScalarKinds DEF IsMeaning
    <3>2. Meant(a, type) # None
      BY <1>3, <2>1, <2>3 DEF Meant, Some, None
    <3>3. Get(v, type) = Meant(a, type) /\ type = a[1]
      BY <1>4, <1>6, <2>3, <3>1, <3>2, ReadsText
    <3>4. type = "String" => Meant(a, type) = Some(v[2])
      BY <1>6, <3>3, <2>1, <2>3 DEF Get, GetString
    <3> QED
      BY <2>1, <3>3, <3>4
  <2> QED
    BY <1>2, <2>2, <2>3
<1>7. CASE /\ Stored(a)[1] = "Float"
           /\ \E n \in Int : /\ ToFloat(2 * n) = Stored(a)[2]
                            /\ v \in {<<"Int", n>>, <<"UInt", n>>, <<"String", <<"integer", n>>>>}
  BY <1>7, ReadsIntegral
<1> QED
  BY <1>5, <1>6, <1>7 DEF IsOf

\* Every getter of every language makes of a stored argument what was meant by it, after
\* any nesting and taking out and any number of messages in formats that do not lose it
\* (Loses), as far as its type still says: the getters, Value::Value and the formats agree.
THEOREM ReadAsMeant == Spec => []StoresReadBack
<1>1. IInv => StoresReadBack
  <2> DEFINE Inner(v) == IF Parts(v) = {} THEN v ELSE CHOOSE p \in Parts(v) : TRUE
  <2> SUFFICES ASSUME IInv, meant # Idle
               PROVE  ReadsBack(meant, Inner(Inner(object)))
    BY DEF StoresReadBack
  <2>1. IsMeaning(meant)
    BY MeantCarried DEF IInv
  <2>2. PICK leaf : Carries(object, meant, leaf)
    BY MeantCarried DEF IInv
  <2>3. Parts(leaf) = {} /\ IsOf(meant, leaf)
    BY <2>2, ScalarsHoldNothing DEF Carries
  <2>4. \A v, p : Parts(v) = {p} => Inner(v) = p
    OBVIOUS
  <2>5. Inner(leaf) = leaf
    BY <2>3
  <2> HIDE DEF Inner
  <2>6. Inner(Inner(object)) = leaf
    BY <2>2, <2>4, <2>5 DEF Carries
  <2> QED
    BY <2>1, <2>3, <2>6, LeafReadsBack
<1> QED
  BY <1>1, InductiveInvariant, PTL

(***************************************************************************)
(* What is unpacked.                                                       *)
(***************************************************************************)
\* The item of a list or map as a type, or nothing, or the end of the program.
Had(v, item, type) == CValueGet(RustFind(v, item), type)

LEMMA HadKinds ==
  ASSUME NEW v, NEW item, NEW type \in Types
  PROVE  LET had == Had(v, item, type)
         IN  \/ had = None /\ Len(had) # 1
             \/ had = Terminates /\ Len(had) # 1
             \/ had = Some(had[1]) /\ Len(had) = 1 /\ had \notin {None, Terminates} /\ RustFind(v, item) # None
<1> DEFINE x == RustFind(v, item)[1]
<1>1. Had(v, item, type) = IF RustFind(v, item) = None THEN None ELSE Get(x, type)
  BY DEF Had, CValueGet
<1>2. \E y : Get(x, type) \in {None, Terminates, Some(y)}
  <2>1. type \in {"Null", "String", "List", "Map"} => \E y : Get(x, type) \in {None, Some(y)}
    BY DEF Get, GetNull, GetString, GetList, GetMap
  <2>2. type = "Bool" => \E y : Get(x, type) \in {None, Some(y)}
    BY DEF Get, GetBool, StringToBool
  <2>3. type = "Int" => \E y : Get(x, type) \in {None, Terminates, Some(y)}
    BY DEF Get, GetInt, StringToInt
  <2>4. type = "UInt" => \E y : Get(x, type) \in {None, Some(y)}
    BY DEF Get, GetUInt, StringToUInt
  <2>5. type = "Float" => \E y : Get(x, type) \in {None, Some(y)}
    BY DEF Get, GetFloat, StringToFloat
  <2> QED
    BY <2>1, <2>2, <2>3, <2>4, <2>5 DEF Types
<1> QED
  BY <1>1, <1>2 DEF None, Some, Terminates

\* What unpacking gave: everything, or what could be had and nothing else.
IsHad(v, items, types, given, i) ==
  RustFind(v, items[i]) # None /\ Some(given[i]) = Had(v, items[i], types[i])

Whole(v, items, types, o) ==
  \/ o.status \in {"error", "ends"} /\ o.vars = [i \in DOMAIN types |-> Untouched]
  \/ /\ o.status = "ok" /\ DOMAIN o.vars = DOMAIN types
     /\ \A i \in DOMAIN types : IsHad(v, items, types, o.vars, i)

Partial(v, items, types, o) ==
  /\ o.status \in {"ok", "error", "ends"} /\ DOMAIN o.vars = DOMAIN types
  /\ \A i \in DOMAIN types : o.vars[i] = Untouched \/ IsHad(v, items, types, o.vars, i)

LEMMA UnpackWhole ==
  ASSUME NEW v, v[1] = "List", NEW types \in Seq(Types), NEW items \in Items(v, types),
         NEW o \in Unpack(v[2], types, [i \in DOMAIN types |-> Untouched])
  PROVE  Whole(v, items, types, o) /\ (o.status = "ok" => Len(types) = Len(v[2]))
<1> DEFINE old  == [i \in DOMAIN types |-> Untouched]
           got  == [i \in DOMAIN types |-> GetIndexArg(v[2], i - 1, types[i])]
           bad  == Len(types) # Len(v[2]) \/ \E i \in DOMAIN types : got[i] = None
           ends == Len(types) = Len(v[2]) /\ \E i \in DOMAIN types : got[i] = Terminates
<1>1. \A i \in DOMAIN types : items[i] = i - 1 /\ types[i] \in Types
  BY DEF Items
<1>2. \A i \in DOMAIN types : got[i] = Had(v, items[i], types[i])
  <2> SUFFICES ASSUME NEW i \in DOMAIN types PROVE got[i] = Had(v, items[i], types[i])
    OBVIOUS
  <2>1. RustFind(v, items[i]) = ListFind(v[2], i - 1)
    BY <1>1 DEF RustFind, RustListFind, CListFind, Some, None
  <2> QED
    BY <2>1 DEF Had, CValueGet, GetIndexArg
<1> HIDE DEF got
<1>3. o \in IF ~bad /\ ~ends THEN {Unpacked([i \in DOMAIN types |-> got[i][1]])}
            ELSE (IF ends THEN {Ended(old)} ELSE {}) \cup (IF bad THEN {Refused(old)} ELSE {})
  BY DEF Unpack, got
<1>4. CASE bad \/ ends
  BY <1>3, <1>4 DEF Ended, Refused, Whole
<1>5. CASE ~bad /\ ~ends
  <2>1. o.status = "ok" /\ o.vars = [i \in DOMAIN types |-> got[i][1]] /\ Len(types) = Len(v[2])
    BY <1>3, <1>5 DEF Unpacked
  <2>2. \A i \in DOMAIN types : Had(v, items[i], types[i]) \notin {None, Terminates}
    BY <1>2, <1>5
  <2>3. \A i \in DOMAIN types : IsHad(v, items, types, o.vars, i)
    <3> SUFFICES ASSUME NEW i \in DOMAIN types PROVE IsHad(v, items, types, o.vars, i)
      OBVIOUS
    <3>1. o.vars[i] = Had(v, items[i], types[i])[1]
      BY <1>2, <2>1
    <3> QED
      BY <1>1, <2>2, <3>1, HadKinds DEF IsHad
  <2> QED
    BY <2>1, <2>3 DEF Whole
<1> QED
  BY <1>4, <1>5

LEMMA RustUnpackWhole ==
  ASSUME NEW v, v[1] \in {"List", "Map"}, NEW types \in Seq(Types), NEW items \in Items(v, types)
  PROVE  Whole(v, items, types, RustUnpack(v, items, types, [i \in DOMAIN types |-> Untouched]))
<1> DEFINE old  == [i \in DOMAIN types |-> Untouched]
           o    == RustUnpack(v, items, types, old)
           H(i) == LET found == RustFind(v, items[i])
                   IN  IF found = None THEN None ELSE RustValueGet(found[1], types[i])
           got  == [i \in DOMAIN items |-> H(i)]
           fail == {i \in DOMAIN items : Len(got[i]) # 1}
<1>1. DOMAIN items = DOMAIN types /\ \A i \in DOMAIN types : types[i] \in Types
  BY DEF Items
<1>2. \A i \in DOMAIN types : H(i) = Had(v, items[i], types[i])
  BY DEF Had, CValueGet, RustValueGet, Some, None
<1>3. \A i \in DOMAIN types : got[i] = Had(v, items[i], types[i])
  BY <1>1, <1>2
<1>4. \/ fail = {} /\ o = Unpacked([i \in DOMAIN items |-> got[i][1]])
      \/ o \in {Ended(old), Refused(old)}
  BY DEF RustUnpack
<1> HIDE DEF got, o, H
<1>5. CASE o \in {Ended(old), Refused(old)}
  BY <1>5 DEF Ended, Refused, Whole, o
<1>6. CASE fail = {} /\ o = Unpacked([i \in DOMAIN items |-> got[i][1]])
  <2>1. o.status = "ok" /\ o.vars = [i \in DOMAIN types |-> got[i][1]]
    BY <1>1, <1>6 DEF Unpacked
  <2>2. \A i \in DOMAIN types : Len(Had(v, items[i], types[i])) = 1
    BY <1>1, <1>3, <1>6
  <2>3. \A i \in DOMAIN types : IsHad(v, items, types, o.vars, i)
    <3> SUFFICES ASSUME NEW i \in DOMAIN types PROVE IsHad(v, items, types, o.vars, i)
      OBVIOUS
    <3>1. o.vars[i] = Had(v, items[i], types[i])[1]
      BY <1>3, <2>1
    <3> QED
      BY <1>1, <2>2, <3>1, HadKinds DEF IsHad
  <2> QED
    BY <2>1, <2>3 DEF Whole, o
<1> QED
  BY <1>4, <1>5, <1>6

LEMMA MapGetPartial ==
  ASSUME NEW v, v[1] = "Map", NEW types \in Seq(Types), NEW items \in Items(v, types)
  PROVE  LET o == MapGet(v[2], items, types, [i \in DOMAIN types |-> Untouched])
         IN  /\ Partial(v, items, types, o)
             /\ o.status = "ok" => \A i \in DOMAIN types : IsHad(v, items, types, o.vars, i)
<1> DEFINE old     == [i \in DOMAIN types |-> Untouched]
           o       == MapGet(v[2], items, types, old)
           G(i)    == LET found == MapFind(v[2], items[i])
                      IN  IF found = None THEN None ELSE Get(found[1], types[i])
           got     == [i \in DOMAIN items |-> G(i)]
           Good(i) == \A j \in 1 .. i : got[j] \notin {None, Terminates}
           now     == [i \in DOMAIN old |-> IF Good(i) THEN got[i][1] ELSE old[i]]
           fail    == {i \in DOMAIN items : ~Good(i)}
<1>1. DOMAIN items = DOMAIN types /\ \A i \in DOMAIN types : types[i] \in Types
  BY DEF Items
<1>2. DOMAIN types = 1 .. Len(types) /\ Len(types) \in Nat
  OBVIOUS
<1>3. \A i \in DOMAIN types : G(i) = Had(v, items[i], types[i])
  BY DEF Had, CValueGet, RustFind, RustMapFind, CMapFind, Some, None
<1>4. \A i \in DOMAIN types : got[i] = Had(v, items[i], types[i])
  BY <1>1, <1>3
<1>5. \/ fail = {} /\ o = Unpacked(now)
      \/ o \in {Ended(now), Refused(now)}
  BY DEF MapGet
<1> HIDE DEF got, o, G
<1>6. o.vars = now /\ o.status \in {"ok", "error", "ends"} /\ (o.status = "ok" => fail = {})
  BY <1>5 DEF Unpacked, Ended, Refused
<1>7. \A i \in DOMAIN types : Good(i) => IsHad(v, items, types, o.vars, i)
  <2> SUFFICES ASSUME NEW i \in DOMAIN types, Good(i) PROVE IsHad(v, items, types, o.vars, i)
    OBVIOUS
  <2>1. i \in 1 .. i
    BY <1>2
  <2>2. Had(v, items[i], types[i]) \notin {None, Terminates}
    BY <1>4, <2>1
  <2>3. o.vars[i] = Had(v, items[i], types[i])[1]
    BY <1>4, <1>6
  <2> QED
    BY <1>1, <2>2, <2>3, HadKinds DEF IsHad
<1>8. \A i \in DOMAIN types : ~Good(i) => o.vars[i] = Untouched
  BY <1>6
<1>9. DOMAIN o.vars = DOMAIN types
  BY <1>6
<1> HIDE DEF Good
<1>10. Partial(v, items, types, o)
  BY <1>6, <1>7, <1>8, <1>9 DEF Partial
<1>11. o.status = "ok" => \A i \in DOMAIN types : IsHad(v, items, types, o.vars, i)
  BY <1>1, <1>6, <1>7
<1> QED
  BY <1>10, <1>11 DEF o

\* Go assigns what it is not told to leave alone.
LEMMA GoAssigned ==
  ASSUME NEW v, NEW item, NEW type \in Types, RustFind(v, item) # None
  PROVE  LET now == GoAssign(RustFind(v, item)[1], type, Untouched)
         IN  now = Untouched \/ Some(now) = Had(v, item, type)
<1>1. GoType(type) = type /\ type \notin {"Value", "Int32", "UInt32"}
  BY DEF GoType, Types
<1>2. GoValueGet(RustFind(v, item)[1], type) = Had(v, item, type)
  BY DEF GoValueGet, Had, CValueGet, Some, None
<1>3. GoAssign(RustFind(v, item)[1], type, Untouched)
        = IF Len(Had(v, item, type)) # 1 THEN Untouched ELSE Had(v, item, type)[1]
  BY <1>1, <1>2 DEF GoAssign
<1> QED
  BY <1>3, HadKinds

LEMMA GoUnpackPartial ==
  ASSUME NEW v, v[1] = "List", NEW S, v[2] \in Seq(S), NEW types \in Seq(Types \cup {"Int32", "UInt32", "Other"}),
         NEW items \in Items(v, types)
  PROVE  LET o == GoUnpack(v[2], types, [i \in DOMAIN types |-> Untouched])
         IN  /\ (\A i \in DOMAIN types : types[i] \notin {"Int32", "UInt32"} /\ IsCIndex(i - 1))
                  => Partial(v, items, types, o)
             /\ o.status = "ok" => Len(types) = Len(v[2])
             /\ o.status \in {"ok", "error", "ends"}
<1> DEFINE old     == [i \in DOMAIN types |-> Untouched]
           o       == GoUnpack(v[2], types, old)
           list    == v[2]
           Good(i) == \A j \in 1 .. i : types[j] # "Other"
           Now(i)  == GoAssign(GoListFind(list, i - 1)[1], types[i], old[i])
           now     == [i \in DOMAIN old |-> IF Good(i) THEN Now(i) ELSE old[i]]
<1>1. /\ \/ o \in {Refused(old), Ended(old)}
         \/ Len(types) = Len(list) /\ o \in {Unpacked(now), Refused(now)}
      /\ Len(types) # Len(list) => o = Refused(old)
  BY DEF GoUnpack, CListSize, Some, None
<1>2. (o.status = "ok" => Len(types) = Len(list)) /\ o.status \in {"ok", "error", "ends"}
  BY <1>1 DEF Unpacked, Refused, Ended
<1> HIDE DEF o
<1>3. ASSUME \A i \in DOMAIN types : types[i] \notin {"Int32", "UInt32"} /\ IsCIndex(i - 1)
      PROVE  Partial(v, items, types, o)
  <2>1. CASE o \in {Refused(old), Ended(old)}
    BY <2>1 DEF Refused, Ended, Partial
  <2>2. CASE Len(types) = Len(list) /\ o \in {Unpacked(now), Refused(now)}
    <3>1. o.status \in {"ok", "error", "ends"} /\ o.vars = now
      BY <2>2 DEF Unpacked, Refused
    <3>2. DOMAIN types = 1 .. Len(list) /\ Len(list) \in Nat /\ \A i \in DOMAIN types : items[i] = i - 1
      BY <2>2 DEF Items
    <3>3. ASSUME NEW i \in DOMAIN types, Good(i)
          PROVE  now[i] = Untouched \/ IsHad(v, items, types, now, i)
      <4>1. types[i] \in Types
        <5>1. i \in 1 .. i
          BY <3>2
        <5> QED
          BY <1>3, <3>3, <5>1
      <4>2. GoListFind(list, i - 1) = RustFind(v, items[i])
        <5>1. Wrap(i - 1, MaxIndex) = i - 1
          BY <1>3 DEF IsCIndex
        <5> QED
          BY <3>2, <5>1 DEF GoListFind, RustFind, RustListFind
      <4>3. RustFind(v, items[i]) # None
        <5>1. HasPosition(list, i - 1)
          BY <3>2 DEF HasPosition, Position
        <5> QED
          BY <3>2, <5>1 DEF RustFind, RustListFind, CListFind, ListFind, Some, None
      <4>4. now[i] = GoAssign(RustFind(v, items[i])[1], types[i], Untouched)
        BY <3>3, <4>2
      <4> HIDE DEF now
      <4> QED
        BY <4>1, <4>3, <4>4, GoAssigned DEF IsHad
    <3>4. \A i \in DOMAIN types : ~Good(i) => now[i] = Untouched
      OBVIOUS
    <3>5. DOMAIN now = DOMAIN types
      OBVIOUS
    <3> HIDE DEF now, Good
    <3>6. ASSUME NEW i \in DOMAIN types
          PROVE  o.vars[i] = Untouched \/ IsHad(v, items, types, o.vars, i)
      BY <3>1, <3>3, <3>4
    <3> QED
      BY <3>1, <3>5, <3>6 DEF Partial
  <2> QED
    BY <1>1, <2>1, <2>2
<1> QED
  BY <1>2, <1>3 DEF o

LEMMA GoMapGetPartial ==
  ASSUME NEW v, v[1] = "Map", NEW types \in Seq(Types \cup {"Other"}), Len(types) = 1,
         NEW items \in Items(v, types)
  PROVE  LET o == GoMapGet(v[2], Some(items[1]), types[1], Untouched)
         IN  Partial(v, items, types, [o EXCEPT !.vars = <<o.vars>>])
<1> DEFINE o == GoMapGet(v[2], Some(items[1]), types[1], Untouched)
           p == [o EXCEPT !.vars = <<o.vars>>]
<1>1. DOMAIN types = {1} /\ types[1] \in Types \cup {"Other"}
  OBVIOUS
<1>2. GoMapFind(v[2], Some(items[1])) = RustFind(v, items[1])
  BY DEF GoMapFind, RustFind, RustMapFind
<1>3. \/ o \in {Refused(Untouched), Ended(Untouched)}
      \/ /\ RustFind(v, items[1]) # None /\ types[1] # "Other"
         /\ o = Unpacked(GoAssign(RustFind(v, items[1])[1], types[1], Untouched))
  BY <1>1, <1>2 DEF GoMapGet, Types
<1> HIDE DEF o
<1>4. /\ p.status = o.status /\ p.vars = <<o.vars>>
      /\ o.status \in {"ok", "error", "ends"} /\ DOMAIN p.vars = {1} /\ p.vars[1] = o.vars
  BY <1>3 DEF Refused, Ended, Unpacked
<1>5. o.vars = Untouched \/ IsHad(v, items, types, p.vars, 1)
  <2>1. CASE o \in {Refused(Untouched), Ended(Untouched)}
    BY <2>1 DEF Refused, Ended
  <2>2. CASE /\ RustFind(v, items[1]) # None /\ types[1] # "Other"
             /\ o = Unpacked(GoAssign(RustFind(v, items[1])[1], types[1], Untouched))
    <3>1. o.vars = GoAssign(RustFind(v, items[1])[1], types[1], Untouched)
      BY <2>2 DEF Unpacked
    <3> QED
      BY <1>1, <1>4, <2>2, <3>1, GoAssigned DEF IsHad
  <2> QED
    BY <1>3, <2>1, <2>2
<1> HIDE DEF p
<1>6. Partial(v, items, types, p)
  BY <1>1, <1>4, <1>5 DEF Partial
<1> QED
  BY <1>6 DEF o, p

LEMMA Unpackings ==
  ASSUME ObjectInv, NEW types \in Wishes, NEW l \in Unpackers(types), NEW items \in Items(object, types),
         object[1] = "List" \/ (object[1] = "Map" /\ (l = "Go" => Len(types) = 1)),
         NEW o \in UnpackIn(l, object, items, types, [i \in DOMAIN types |-> Untouched])
  PROVE  /\ (\A i \in DOMAIN types : types[i] \notin {"Int32", "UInt32"} /\ IsCIndex(i - 1))
              => Partial(object, items, types, o)
         /\ l = "Rust" \/ (l = "C++" /\ object[1] = "List") => Whole(object, items, types, o)
         /\ l # "Go" /\ o.status = "ok" =>
              DOMAIN o.vars = DOMAIN types /\ \A i \in DOMAIN types : IsHad(object, items, types, o.vars, i)
         /\ l # "Rust" /\ o.status = "ok" /\ object[1] = "List" => Len(types) = Len(object[2])
         /\ o.status \in {"ok", "error", "ends"}
<1>1. l \in {"C++", "Go", "Rust"} /\ types \in Seq(Types \cup {"Int32", "UInt32", "Other"})
  BY ValuesAssumption DEF Unpackers
<1>2. l # "Go" => types \in Seq(Types)
  <2> SUFFICES ASSUME l # "Go" PROVE types \in Seq(Types)
    OBVIOUS
  <2>1. \A i \in DOMAIN types : types[i] \in Types
    BY <1>1 DEF Unpackers
  <2>2. DOMAIN types = 1 .. Len(types) /\ Len(types) \in Nat /\ types = [i \in 1 .. Len(types) |-> types[i]]
    BY <1>1
  <2>3. types \in [1 .. Len(types) -> Types]
    BY <2>1, <2>2
  <2> QED
    BY <2>2, <2>3
<1>3. Whole(object, items, types, o) => Partial(object, items, types, o)
  BY DEF Whole, Partial
<1>4. Whole(object, items, types, o) => o.status \in {"ok", "error", "ends"}
  BY DEF Whole
<1>5. Whole(object, items, types, o) /\ o.status = "ok" =>
        DOMAIN o.vars = DOMAIN types /\ \A i \in DOMAIN types : IsHad(object, items, types, o.vars, i)
  BY DEF Whole
<1>6. CASE l = "Rust"
  <2>1. o = RustUnpack(object, items, types, [i \in DOMAIN types |-> Untouched])
    BY <1>6 DEF UnpackIn
  <2> QED
    BY <1>2, <1>3, <1>4, <1>5, <1>6, <2>1, RustUnpackWhole
<1>7. CASE l = "C++" /\ object[1] = "List"
  <2>1. o \in Unpack(object[2], types, [i \in DOMAIN types |-> Untouched])
    BY <1>7 DEF UnpackIn
  <2>2. Whole(object, items, types, o) /\ (o.status = "ok" => Len(types) = Len(object[2]))
    BY <1>2, <1>7, <2>1, UnpackWhole
  <2> QED
    BY <1>3, <1>4, <1>5, <1>7, <2>2
<1>8. CASE l = "C++" /\ object[1] = "Map"
  <2>1. o = MapGet(object[2], items, types, [i \in DOMAIN types |-> Untouched])
    BY <1>8 DEF UnpackIn
  <2>2. /\ Partial(object, items, types, o)
        /\ o.status = "ok" => \A i \in DOMAIN types : IsHad(object, items, types, o.vars, i)
    BY <1>2, <1>8, <2>1, MapGetPartial
  <2> QED
    BY <1>8, <2>2 DEF Partial
<1>9. CASE l = "Go" /\ object[1] = "List"
  <2>1. o = GoUnpack(object[2], types, [i \in DOMAIN types |-> Untouched])
    BY <1>9 DEF UnpackIn
  <2>2. object[2] \in Seq(Flat)
    BY <1>9, NestedKinds DEF ObjectInv
  <2> QED
    BY <1>1, <1>9, <2>1, <2>2, GoUnpackPartial
<1>10. CASE l = "Go" /\ object[1] = "Map"
  <2> DEFINE g == GoMapGet(object[2], Some(items[1]), types[1], Untouched)
  <2>1. o = [g EXCEPT !.vars = <<g.vars>>]
    <3>1. 1 \in DOMAIN types
      BY <1>1, <1>10
    <3> QED
      BY <1>10, <3>1 DEF UnpackIn
  <2>2. ASSUME \A i \in DOMAIN types : types[i] \notin {"Int32", "UInt32"}
        PROVE  Partial(object, items, types, o)
    <3>1. types \in Seq(Types \cup {"Other"})
      <4>1. \A i \in DOMAIN types : types[i] \in Types \cup {"Other"}
        BY <1>1, <2>2
      <4>2. DOMAIN types = 1 .. Len(types) /\ Len(types) \in Nat /\ types = [i \in 1 .. Len(types) |-> types[i]]
        BY <1>1
      <4>3. types \in [1 .. Len(types) -> Types \cup {"Other"}]
        BY <4>1, <4>2
      <4> QED
        BY <4>2, <4>3
    <3> QED
      BY <1>10, <2>1, <3>1, GoMapGetPartial
  <2>3. g.status \in {"ok", "error", "ends"} /\ g = [status |-> g.status, vars |-> g.vars]
    BY DEF GoMapGet, Unpacked, Refused, Ended
  <2> HIDE DEF g
  <2>4. o.status = g.status
    BY <2>1, <2>3
  <2> QED
    BY <1>10, <2>2, <2>3, <2>4
<1> QED
  BY <1>1, <1>6, <1>7, <1>8, <1>9, <1>10

\* A value's data is data of its type, and Rust's to_variant sees the type it has.
THEOREM Typing == Spec => []TypeOK
<1>1. IInv => TypeOK
  <2> SUFFICES ASSUME IInv PROVE TypeOK
    OBVIOUS
  <2>1. object \in Nested
    BY DEF IInv, ObjectInv
  <2>2. \A v \in Canonical : v \in Scalars
    BY DEF Canonical
  <2>3. RustVariant(object) = object
    <3>1. CASE object \in Canonical
      BY <3>1, ScalarKinds DEF RustVariant, CValueGetType, TypeName, ToVariant, RustValueGet,
         CValueGet, Some, None,
           Null, Get, GetBool, GetInt, GetUInt, GetFloat, GetString
    <3>2. CASE object \in Collections(Flat)
      <4>1. object = <<object[1], object[2]>> /\ object[1] \in {"List", "Map"}
        BY <3>2, CollectionKinds
      <4> QED
        BY <4>1 DEF RustVariant, CValueGetType, TypeName, ToVariant, RustValueGet, CValueGet, Some,
           None,
             Get, GetList, GetMap
    <3> QED
      BY <2>1, <3>1, <3>2, NestedKinds
  <2>4. unpacked.status \in {"none", "ok", "error", "ends"}
    <3>1. CASE unpacked = Nothing
      BY <3>1 DEF Nothing
    <3>3. CASE unpacked.status = "ends"
      BY <3>3
    <3>2. CASE unpacked # Nothing /\ unpacked.status # "ends"
      <4>1. PICK types \in Wishes : \E l \in Unpackers(types), items \in Items(object, types) :
              /\ object[1] = "List" \/ (object[1] = "Map" /\ (l = "Go" => Len(types) = 1))
              /\ \E o \in UnpackIn(l, object, items, types, [i \in DOMAIN types |-> Untouched]) :
                   unpacked.status = o.status
        BY <3>2 DEF IInv, UnpackedInv
      <4> QED
        BY <4>1, Unpackings DEF IInv
    <3> QED
      BY <3>1, <3>2, <3>3
  <2>5. walk # Idle => walk.lang \in Languages /\ walk.over \in BOOLEAN
    BY DEF IInv, WalkInv
  <2>6. ASSUME NEW S, NEW v \in Collections(S)
        PROVE  /\ \/ v[1] = "List" /\ v[2] \in Seq(Parts(v))
                  \/ v[1] = "Map" /\ DOMAIN v[2] \subseteq Keys /\ v[2] \in [DOMAIN v[2] -> Parts(v)]
               /\ Parts(v) \subseteq S
    <3>1. Parts(v) = {v[2][i] : i \in DOMAIN v[2]} /\ Parts(v) \subseteq S /\ v[1] \in {"List", "Map"}
      BY CollectionKinds
    <3>2. \A i \in DOMAIN v[2] : v[2][i] \in Parts(v)
      BY <3>1
    <3>3. CASE v[1] = "List"
      <4>1. v[2] \in Seq(S)
        BY <3>3, CollectionKinds
      <4>2. DOMAIN v[2] = 1 .. Len(v[2]) /\ Len(v[2]) \in Nat /\ v[2] = [i \in 1 .. Len(v[2]) |-> v[2][i]]
        BY <4>1
      <4>3. v[2] \in [1 .. Len(v[2]) -> Parts(v)]
        BY <3>2, <4>2
      <4>4. v[2] \in Seq(Parts(v))
        <5> DEFINE P == Parts(v)
        <5> HIDE DEF P
        <5>1. v[2] \in [1 .. Len(v[2]) -> P]
          BY <4>3 DEF P
        <5>2. v[2] \in Seq(P)
          BY <4>2, <5>1
        <5> QED
          BY <5>2 DEF P
      <4> QED
        BY <3>1, <3>3, <4>4
    <3>4. CASE v[1] = "Map"
      <4>1. DOMAIN v[2] \subseteq Keys /\ v[2] \in [DOMAIN v[2] -> S]
        BY <3>4, CollectionKinds, MapShape
      <4> QED
        BY <3>1, <3>2, <3>4, <4>1
    <3> QED
      BY <3>1, <3>3, <3>4
  <2>7. \A v \in Flat : v \in Canonical \/ v \in Collections(Canonical)
    BY DEF Flat
  <2>8. object \in Canonical \/ object \in Collections(Flat)
    BY <2>1 DEF Nested
  <2> QED
    BY <2>2, <2>3, <2>4, <2>5, <2>6, <2>7, <2>8 DEF TypeOK, IsContainer
<1> QED
  BY <1>1, InductiveInvariant, PTL

\* List::unpack and Rust's unpack! assign all of the caller's variables or none; Map::get
\* and Go's Unpack assign nothing that the value is not.
THEOREM UnpackedWhole == Spec => []UnpackAllOrNothing
<1>1. IInv => UnpackAllOrNothing
  <2> SUFFICES ASSUME IInv PROVE UnpackAllOrNothing
    OBVIOUS
  <2>1. CASE unpacked = Nothing
    <3>1. unpacked.status = "none" /\ unpacked.vars = <<>> /\ DOMAIN unpacked.vars = {}
      BY <2>1 DEF Nothing, None
    <3> QED
      BY <3>1 DEF UnpackAllOrNothing
  <2>3. CASE unpacked = [lang |-> Idle, items |-> None, types |-> None, status |-> "ends", vars |-> None]
    <3>1. unpacked.vars = <<>> /\ DOMAIN unpacked.vars = {} /\ unpacked.status = "ends"
      BY <2>3 DEF None
    <3> QED
      BY <3>1 DEF UnpackAllOrNothing
  <2>2. CASE /\ unpacked # Nothing
             /\ unpacked # [lang |-> Idle, items |-> None, types |-> None, status |-> "ends", vars |-> None]
    <3>1. PICK types \in Wishes : \E l \in Unpackers(types), items \in Items(object, types) :
            /\ object[1] = "List" \/ (object[1] = "Map" /\ (l = "Go" => Len(types) = 1))
            /\ \E o \in UnpackIn(l, object, items, types, [i \in DOMAIN types |-> Untouched]) :
                 unpacked = [lang |-> l, items |-> items, types |-> types,
                             status |-> o.status, vars |-> o.vars]
      BY <2>2 DEF IInv, UnpackedInv
    <3>2. PICK l \in Unpackers(types), items \in Items(object, types) :
            /\ object[1] = "List" \/ (object[1] = "Map" /\ (l = "Go" => Len(types) = 1))
            /\ \E o \in UnpackIn(l, object, items, types, [i \in DOMAIN types |-> Untouched]) :
                 unpacked = [lang |-> l, items |-> items, types |-> types,
                             status |-> o.status, vars |-> o.vars]
      BY <3>1
    <3>3. PICK o \in UnpackIn(l, object, items, types, [i \in DOMAIN types |-> Untouched]) :
            unpacked = [lang |-> l, items |-> items, types |-> types,
                        status |-> o.status, vars |-> o.vars]
      BY <3>2
    <3>4. /\ unpacked.lang = l /\ unpacked.items = items /\ unpacked.types = types
          /\ unpacked.status = o.status /\ unpacked.vars = o.vars
      BY <3>3
    <3>5. /\ (\A i \in DOMAIN types : types[i] \notin {"Int32", "UInt32"} /\ IsCIndex(i - 1))
               => Partial(object, items, types, o)
          /\ l = "Rust" \/ (l = "C++" /\ object[1] = "List") => Whole(object, items, types, o)
          /\ l # "Go" /\ o.status = "ok" =>
               DOMAIN o.vars = DOMAIN types /\ \A i \in DOMAIN types : IsHad(object, items, types, o.vars, i)
          /\ l # "Rust" /\ o.status = "ok" /\ object[1] = "List" => Len(types) = Len(object[2])
      BY <3>2, Unpackings DEF IInv
    <3> HIDE <2>2, <3>1, <3>2, <3>3
    <3>6. Whole(object, items, types, o) /\ o.status # "ok" => \A i \in DOMAIN o.vars : o.vars[i] = Untouched
      BY DEF Whole
    <3>7. Partial(object, items, types, o) =>
            DOMAIN o.vars = DOMAIN types
            /\ \A i \in DOMAIN types : o.vars[i] = Untouched \/ IsHad(object, items, types, o.vars, i)
      BY DEF Partial
    <3> QED
      BY <3>4, <3>5, <3>6, <3>7 DEF UnpackAllOrNothing, IsHad, Had
  <2> QED
    BY <2>1, <2>2, <2>3
<1> QED
  BY <1>1, InductiveInvariant, PTL

(***************************************************************************)
(* What a message keeps.                                                   *)
(***************************************************************************)
\* Whatever a scalar can be had as, the text that YAML makes of it can be had as.
LEMMA TextMeansTheSame ==
  ASSUME NEW v \in Canonical, v \notin {Null, Bytes}, ~IsSpecial(v),
         NEW type \in Types, Get(v, type) \notin {None, Terminates}
  PROVE  Get(<<"String", Text(v)>>, type) = Get(v, type)
<1>1. MaxInt \in Nat
  BY ValueAssumption
<1>2. CASE v = <<"Bool", v[2]>> /\ v[2] \in BOOLEAN
  <2>1. type = "Bool" /\ Get(v, type) = Some(v[2])
    BY <1>2 DEF Get, GetNull, GetBool, GetInt, GetUInt, GetFloat, GetString, GetList, GetMap, Types
  <2> QED
    BY <1>2, <2>1 DEF Get, GetBool, Text, StringToBool
<1>3. CASE v = <<"Int", v[2]>> /\ v[2] \in Ints
  <2>1. \/ type = "Int" /\ Get(v, type) = Some(v[2])
        \/ type = "UInt" /\ v[2] >= 0 /\ Get(v, type) = Some(v[2])
        \/ type = "Float" /\ Get(v, type) = Some(ToFloat(2 * v[2]))
    BY <1>3 DEF Get, GetNull, GetBool, GetInt, GetUInt, GetFloat, GetString, GetList, GetMap, Types
  <2>2. Text(v) = <<"integer", v[2]>>
    BY <1>3 DEF Text
  <2>3. v[2] >= 0 => v[2] % (MaxUInt + 1) = v[2] /\ v[2] \in -MaxUInt .. MaxUInt
    BY <1>1, <1>3 DEF Ints, MaxUInt
  <2> QED
    BY <1>3, <2>1, <2>2, <2>3 DEF Get, GetInt, GetUInt, GetFloat, StringToInt, StringToUInt,
       StringToFloat
<1>4. CASE v = <<"UInt", v[2]>> /\ v[2] \in UInts
  <2>1. \/ type = "UInt" /\ Get(v, type) = Some(v[2])
        \/ type = "Float" /\ Get(v, type) = Some(ToFloat(2 * v[2]))
    BY <1>4 DEF Get, GetNull, GetBool, GetInt, GetUInt, GetFloat, GetString, GetList, GetMap, Types
  <2>2. Text(v) = <<"integer", v[2]>>
    BY <1>4 DEF Text
  <2>3. v[2] % (MaxUInt + 1) = v[2] /\ v[2] \in -MaxUInt .. MaxUInt
    BY <1>1, <1>4 DEF UInts, MaxUInt
  <2> QED
    BY <2>1, <2>2, <2>3 DEF Get, GetUInt, GetFloat, StringToUInt, StringToFloat
<1>5. CASE v = <<"Float", v[2]>> /\ v[2] \in Floats
  <2>1. type = "Float" /\ Get(v, type) = Some(v[2])
    BY <1>5 DEF Get, GetNull, GetBool, GetInt, GetUInt, GetFloat, GetString, GetList, GetMap, Types
  <2>2. StringToFloat(Text(v)) = Some(v[2])
    <3>1. v[2] \in FiniteFloats
      BY <1>5 DEF IsSpecial, Floats
    <3> QED
      BY <1>5, <3>1, ReadsFloatText
  <2> QED
    BY <2>1, <2>2 DEF Get, GetFloat
<1>6. CASE v = <<"String", v[2]>> /\ v[2] \in Strings
  <2>1. v[2] # <<"bytes">>
    BY <1>6 DEF Bytes
  <2>2. <<"String", Text(v)>> = v
    BY <1>6, <2>1 DEF Text
  <2> QED
    BY <2>2
<1> QED
  BY <1>2, <1>3, <1>4, <1>5, <1>6, ScalarKinds

LEMMA SameLeaf ==
  ASSUME NEW format \in FormatNames, NEW v \in Canonical
  PROVE  /\ Same0(format, v, Sent(format, v))
         /\ Same1(format, v, Sent(format, v))
         /\ Same2(format, v, Sent(format, v))
<1> DEFINE w == Sent(format, v)
           Reads == \A type \in Types : Get(v, type) \in {None, Terminates} \/ Get(w, type) = Get(v, type)
<1>1. v[1] \notin {"List", "Map"}
  BY ScalarsHoldNothing DEF IsCollection
<1>2. format = "json" => w = IF IsSpecial(v) THEN Null ELSE v
  BY DEF Sent
<1>3. format = "yaml" => Loses(format, v) \/ Reads
  BY TextMeansTheSame DEF Sent, Loses, Bytes
<1>4. format = "msgpack" => w = v \/ (v[1] = "Float" /\ GetFloat(w) = Some(v[2]))
  <2>1. CASE format = "msgpack" /\ v[1] = "Float"
    <3>1. v = <<"Float", v[2]>> /\ v[2] \in Floats
      BY <2>1, ScalarKinds DEF Null
    <3>2. w = ValueFromNode(PackDouble(v[2]))
      BY <2>1 DEF Sent
    <3> HIDE DEF w
    <3>3. w = v \/ \E n \in Int : ToFloat(2 * n) = v[2] /\ w \in {<<"Int", n>>, <<"UInt", n>>}
      BY <3>1, <3>2, FloatsPacked
    <3> QED
      BY <2>1, <3>3 DEF GetFloat
  <2> QED
    BY <2>1 DEF Sent
<1> HIDE DEF w, Reads
<1>5. ASSUME NEW elements
      PROVE  SameMeaning(format, v, w, elements)
  BY <1>1, <1>2, <1>3, <1>4, FormatCases DEF SameMeaning, Reads
<1> QED
  BY <1>5 DEF Same0, Same1, Same2, w

LEMMA NothingThere ==
  ASSUME NEW S, NEW v \in Collections(S), IsEmpty(v)
  PROVE  v[2] = None
<1>1. CASE v[1] = "List"
  BY <1>1, CollectionKinds DEF IsEmpty, None
<1>2. CASE v[1] = "Map"
  <2>1. v[2] \in [{} -> S]
    BY <1>2, CollectionKinds, MapShape DEF IsEmpty
  <2> QED
    BY <2>1 DEF None
<1> QED
  BY <1>1, <1>2, CollectionKinds

LEMMA SameCollection ==
  ASSUME NEW format \in FormatNames, NEW v \in Collections(Flat)
  PROVE  /\ (\A i \in DOMAIN v[2] : Same0(format, v[2][i], Sent(format, v[2][i])))
              => Same1(format, v, Sent1(format, v))
         /\ (\A i \in DOMAIN v[2] : Same1(format, v[2][i], Sent1(format, v[2][i])))
              => Same2(format, v, Sent2(format, v))
<1>1. IsCollection(v) /\ v[1] \in {"List", "Map"}
  BY CollectionKinds
<1>2. CASE Dropped(format, v)
  <2>1. Sent1(format, v) = Null /\ Sent2(format, v) = Null
    BY <1>1, <1>2 DEF Dropped, Sent1, Sent2, SentEach
  <2>2. v[2] = None /\ (format = "json" => v[1] = "Map") /\ format # "msgpack"
    BY <1>2, NothingThere DEF Dropped
  <2> QED
    BY <1>1, <2>1, <2>2 DEF Same1, Same2, SameMeaning
<1>3. CASE ~Dropped(format, v)
  <2>1. Sent1(format, v) = <<v[1], [i \in DOMAIN v[2] |-> Sent(format, v[2][i])]>>
    BY <1>1, <1>3 DEF Dropped, Sent1, SentEach
  <2>2. Sent2(format, v) = <<v[1], [i \in DOMAIN v[2] |-> Sent1(format, v[2][i])]>>
    BY <1>1, <1>3 DEF Dropped, Sent2, SentEach
  <2>3. Sent1(format, v) # Null /\ Sent2(format, v) # Null
    BY <1>1, <2>1, <2>2 DEF Null
  <2>4. ASSUME \A i \in DOMAIN v[2] : Same0(format, v[2][i], Sent(format, v[2][i]))
        PROVE  Same1(format, v, Sent1(format, v))
    <3> DEFINE w == Sent1(format, v)
    <3>1. /\ w # Null /\ w[1] = v[1] /\ DOMAIN w[2] = DOMAIN v[2]
          /\ \A i \in DOMAIN v[2] : w[2][i] = Sent(format, v[2][i])
      BY <2>1, <2>3
    <3> HIDE DEF w
    <3> QED
      BY <1>1, <2>4, <3>1 DEF Same1, SameMeaning, w
  <2>5. ASSUME \A i \in DOMAIN v[2] : Same1(format, v[2][i], Sent1(format, v[2][i]))
        PROVE  Same2(format, v, Sent2(format, v))
    <3> DEFINE w == Sent2(format, v)
    <3>1. /\ w # Null /\ w[1] = v[1] /\ DOMAIN w[2] = DOMAIN v[2]
          /\ \A i \in DOMAIN v[2] : w[2][i] = Sent1(format, v[2][i])
      BY <2>2, <2>3
    <3> HIDE DEF w
    <3> QED
      BY <1>1, <2>5, <3>1 DEF Same2, SameMeaning, w
  <2> QED
    BY <2>4, <2>5
<1> QED
  BY <1>2, <1>3

LEMMA SentMeansTheSame ==
  ASSUME NEW format \in FormatNames
  PROVE  /\ \A v \in Flat : Same1(format, v, Sent1(format, v))
         /\ \A v \in Nested : Same2(format, v, Sent2(format, v))
<1>1. ASSUME NEW v \in Flat
      PROVE  Same1(format, v, Sent1(format, v))
  <2>1. CASE v \in Canonical
    BY <2>1, SameLeaf, SentScalars
  <2>2. CASE v \in Collections(Canonical)
    <3>1. v \in Collections(Flat) /\ \A i \in DOMAIN v[2] : v[2][i] \in Canonical
      BY <2>2, CollectionKinds, ScalarsHoldNothing, Levels DEF Nested
    <3> QED
      BY <3>1, SameLeaf, SameCollection
  <2> QED
    BY <2>1, <2>2 DEF Flat
<1>2. ASSUME NEW v \in Nested
      PROVE  Same2(format, v, Sent2(format, v))
  <2>1. CASE v \in Canonical
    BY <2>1, SameLeaf, SentScalars
  <2>2. CASE v \in Collections(Flat)
    <3>1. \A i \in DOMAIN v[2] : v[2][i] \in Flat
      BY <2>2, CollectionKinds
    <3> QED
      BY <1>1, <2>2, <3>1, SameCollection
  <2> QED
    BY <2>1, <2>2, NestedKinds
<1> QED
  BY <1>1, <1>2

\* Encoding and decoding in each format loses nothing but what the format is known to
\* lose, at every level of a value: NaN, the infinite floats, the type of a whole float,
\* bytes and empty lists and maps, each where WireKeepsMeaning says so.
THEOREM SentAsMeant == Spec => []WireKeepsMeaning
<1>1. IInv => WireKeepsMeaning
  <2> SUFFICES ASSUME IInv, NEW format \in FormatNames
               PROVE  LET sent == Encode(format, object)
                      IN  /\ sent = None => format = "json"
                          /\ sent # None => Same2(format, object, Decode(format, sent[1]))
    BY DEF WireKeepsMeaning
  <2>1. object \in Nested
    BY DEF IInv, ObjectInv
  <2> QED
    BY <2>1, Received, SentMeansTheSame
<1> QED
  BY <1>1, InductiveInvariant, PTL

=============================================================================
