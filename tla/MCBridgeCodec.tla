---------------------------- MODULE MCBridgeCodec ----------------------------
(***************************************************************************)
(* Values for BridgeCodec: one of every kind, everywhere two levels of     *)
(* lists and maps can put it, sizes around the limits of the size prefix,  *)
(* and parts that are not carried.                                         *)
(***************************************************************************)
EXTENDS BridgeCodec

Filled(n) == [i \in 1 .. n |-> (7 * i) % 251]
Text(n) == [k |-> "string", v |-> Filled(n)]
Array(type, elems) == [k |-> "array", type |-> type, v |-> elems]

Numbers == {Number("bool", 1), Number("bool", 0), Number("int32", 5),
            Number("int64", 70000), Number("double", 3)}

Arrays == {Array("bool", <<Number("bool", 1), Number("bool", 0)>>),
           Array("int32", <<Number("int32", 1), Number("int32", 2)>>),
           Array("int64", <<Number("int32", 1), Number("int64", 2)>>),
           Array("double", <<Number("double", 4), Number("double", 5)>>),
           Array("double", <<>>),
           Array("string", <<Text(2), Text(0)>>)}

Atoms == Numbers \cup Arrays \cup
         {Null, Text(1), [k |-> "bytes", v |-> Filled(3)], [k |-> "unknown"]}

Lists(S) == {[k |-> "list", v |-> s] : s \in UNION {[1 .. n -> S] : n \in 0 .. 2}}
Maps(S) == {[k |-> "map", v |-> <<<<key, x>>>>] : key \in {Text(1), Text(4)}, x \in S}

\* A list or a map after something that moves it off its alignment.
Nested == {[k |-> "list", v |-> <<a, x>>] :
             a \in {Null, Text(2), Number("int32", 1)},
             x \in Maps(Atoms) \cup
                   {[k |-> "list", v |-> <<y, z>>] : y \in Atoms, z \in Numbers}}

Limits == {Text(n) : n \in {253, 254, 255, 300, 65535, 65536}} \cup
          {[k |-> "list", v |-> <<Text(n), Number("double", 1)>>] : n \in 250 .. 258}

\* Numbers that are not what their list is for.
Misfits == {Array("int32", <<Number("int32", 1), Number("double", 2)>>)}

MCValues == Atoms \cup Lists(Atoms) \cup Maps(Atoms) \cup Nested \cup Limits \cup Misfits
=============================================================================
