------------------------------ MODULE Formats ------------------------------
(***************************************************************************)
(* Encoding and decoding of values (src/traeger/format).  What is written  *)
(* is a tree of <<tag, data>>: for JSON and MessagePack the tag of a node, *)
(* for YAML "scalar" with its text, or a collection.  The libraries        *)
(* nlohmann::json, msgpack and yaml-cpp are external and read the tree     *)
(* they wrote, with what they are known to change: JSON and MessagePack    *)
(* have one notation for the integers from 0 on; MessagePack and YAML      *)
(* write a whole float like an integer; JSON has no float that is NaN or   *)
(* infinite, and YAML has a text for it that is no number to this code.    *)
(***************************************************************************)
EXTENDS Value

CONSTANTS Exponent,    (* YAML writes floats from here on with an exponent: 10^17  *)
          Saturates    (* whether the build makes the last integer of 2^64         *)

ASSUME FormatsAssumption == Exponent \in Nat /\ Saturates \in BOOLEAN

FormatNames == {"json", "yaml", "msgpack"}

\* An integer written by JSON or MessagePack is read back as unsigned unless it is
\* negative.
Number(n) == IF n < 0 THEN <<"integer", n>> ELSE <<"unsigned", n>>

\* Mutant: all integers are written as signed ones.
Scalar_Signed(v) == IF v[1] \in {"Int", "UInt"} THEN Number(ToInt(v[2])) ELSE v

Scalar(v) == IF v[1] \in {"Int", "UInt"} THEN Number(v[2]) ELSE v

(***************************************************************************)
(* One node, written and read; `elements' is what the elements of a list   *)
(* or map have become.                                                     *)
(***************************************************************************)
IsEmpty(v) == DOMAIN v[2] = {}

\* The json object of an empty map was never given a type: it is null, and a float
\* that is NaN or infinite is written as null.
JsonFrom(v, elements) ==
  IF (v[1] = "Map" /\ IsEmpty(v)) \/ IsSpecial(v) THEN Null
  ELSE IF IsCollection(v) THEN <<v[1], elements>>
  ELSE Scalar(v)

ValueFromJson(node, elements) ==
  CASE IsCollection(node)    -> <<node[1], elements>>
    [] node[1] = "unsigned"  -> FromUInt(node[2])
    [] node[1] = "integer"   -> <<"Int", node[2]>>
    [] OTHER                 -> node

\* The text of a float: that of an integer if it is whole and not too large, and
\* ".nan", ".inf" or "-.inf" if it is no number.
FloatText(h) ==
  IF h \in SpecialFloats THEN <<"word">>
  ELSE IF h % 2 = 0 /\ h \div 2 \in 1 - Exponent .. Exponent - 1 THEN <<"integer", h \div 2>>
  ELSE <<"point", h>>

\* The text of a scalar is all that is written of it, and bytes that are not UTF-8
\* are replaced.
Text(v) ==
  CASE v[1] = "Bool"            -> IF v[2] THEN <<"true">> ELSE <<"false">>
    [] v[1] \in {"Int", "UInt"} -> <<"integer", v[2]>>
    [] v[1] = "Float"           -> FloatText(v[2])
    [] v[1] = "String"          -> IF v[2] = <<"bytes">> THEN <<"word">> ELSE v[2]

\* A node that no element was ever put in is null.
YamlFrom(v, elements) ==
  CASE v[1] = "Null"                   -> Null
    [] IsCollection(v) /\ IsEmpty(v)   -> Null
    [] IsCollection(v) /\ ~IsEmpty(v)  -> <<v[1], elements>>
    [] OTHER                           -> <<"scalar", Text(v)>>

ValueFromYaml(node, elements) ==
  CASE IsCollection(node)  -> <<node[1], elements>>
    [] node[1] = "scalar"  -> <<"String", node[2]>>
    [] OTHER               -> Null

\* A float that equals an integer of 64 bits, signed or not, is written as that.  The
\* first float beyond them is compared after a conversion that C++ does not define.
PackDouble(h) ==
  IF h \in SpecialFloats THEN <<"Float", h>>
  ELSE IF h % 2 = 0 /\ h \div 2 \in Ints \cup UInts THEN Number(h \div 2)
  ELSE IF Saturates /\ h = ToFloat(2 * MaxUInt) THEN Number(MaxUInt)
  ELSE <<"Float", h>>

Pack(v, elements) ==
  IF IsCollection(v) THEN <<v[1], elements>>
  ELSE IF v[1] = "Float" THEN PackDouble(v[2]) ELSE Scalar(v)

ValueFromMsgpack(node, elements) ==
  CASE IsCollection(node)   -> <<node[1], elements>>
    [] node[1] = "unsigned" -> FromUInt(node[2])
    [] node[1] = "integer"  -> <<"Int", node[2]>>
    [] OTHER                -> node

\* A string that is not UTF-8, at which nlohmann::json throws.
HasBytes(v) == <<"String", <<"bytes">>>> \in Within(v)

(***************************************************************************)
(* A value of scalars, of lists and maps of scalars, and of lists and maps *)
(* of all these: the values of Values nest no deeper.                      *)
(***************************************************************************)
WriteNode(format, v, elements) ==
  CASE format = "json"    -> JsonFrom(v, elements)
    [] format = "yaml"    -> YamlFrom(v, elements)
    [] format = "msgpack" -> Pack(v, elements)

ReadNode(format, node, elements) ==
  CASE format = "json"    -> ValueFromJson(node, elements)
    [] format = "yaml"    -> ValueFromYaml(node, elements)
    [] format = "msgpack" -> ValueFromMsgpack(node, elements)

Write0(format, v) == WriteNode(format, v, v[2])
Write1(format, v) == WriteNode(format, v, [i \in DOMAIN v[2] |-> Write0(format, v[2][i])])
Write2(format, v) == WriteNode(format, v, [i \in DOMAIN v[2] |-> Write1(format, v[2][i])])

Read0(format, node) == ReadNode(format, node, node[2])
Read1(format, node) == ReadNode(format, node, [i \in DOMAIN node[2] |-> Read0(format, node[2][i])])
Read2(format, node) == ReadNode(format, node, [i \in DOMAIN node[2] |-> Read1(format, node[2][i])])

\* Format::encode: the exceptions of the encoder are an error.
Encode(format, v) ==
  IF format = "json" /\ HasBytes(v) THEN None ELSE Some(Write2(format, v))

\* Format::decode of what encode wrote.
Decode(format, node) == Read2(format, node)
=============================================================================
