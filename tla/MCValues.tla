------------------------------ MODULE MCValues ------------------------------
EXTENDS Values

\* Integers of 3 bits and floats of 2 significant bits: the ends of every range, one
\* beyond it (for Python's ints), and halfway between two floats.
SomeNumbers == {-5, -4, -1, 1, 3, 5, 7, 9}

\* A float that is no integer, one that is, the first beyond them, and one that YAML
\* writes with an exponent.
SomeHalves == {-3, 4, 12, 16, NaN, NegInf}

SomeTexts == {<<"true">>, <<"word">>, <<"bytes">>, <<"point", 1>>, <<"integer", -1>>,
              <<"integer", 9>>}

SomeFillers == {<<"UInt", 5>>, <<"PyInt", 5>>, <<"String", <<"integer", -1>>>>, <<"Bool", TRUE>>,
                <<"NilString", None>>, <<"NullPointer", None>>, <<"NullList", None>>, <<"Other", None>>}

SomeIndexes == {-3, -2, -1, 0, 1, 2, 8}

SomeWishes == {<<"Int">>, <<"UInt32">>, <<"Int", "UInt">>, <<"Float", "String">>, <<"Bool", "Int">>,
               <<"Int32", "UInt32">>, <<"UInt", "Other">>, <<"List", "Map">>}
=============================================================================
