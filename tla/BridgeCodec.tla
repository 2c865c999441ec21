----------------------------- MODULE BridgeCodec -----------------------------
(***************************************************************************)
(* The binary codec of the bridges (capability/bridge/codec): how          *)
(* BridgeStreamWriter lays a value out in bytes and how BridgeStreamReader *)
(* reads it back.                                                          *)
(*                                                                         *)
(* A value is a record with a kind k: "null", a "number" with the          *)
(* representation of its NSNumber, a "string" and "bytes" (of byte values),*)
(* a BridgeArray ("array", with its arrayType), an NSArray ("list"), an    *)
(* NSDictionary ("map", its pairs in the order they are enumerated) and    *)
(* "unknown", an object of any other class.                                *)
(***************************************************************************)
EXTENDS Integers, SequencesExt

Null == [k |-> "null"]
Number(rep, v) == [k |-> "number", rep |-> rep, v |-> v]
Garbage == [k |-> "garbage"]     \* what is read past the end of the data

Tag(name) ==
  CHOOSE i \in 0 .. 14 :
    name = <<"NULL", "TRUE", "FALSE", "INT32", "INT64", "DOUBLE", "STRING", "LIST_UINT8",
             "LIST_BOOL", "LIST_INT32", "LIST_INT64", "LIST_DOUBLE", "LIST_STRING",
             "MAP", "COMPOSITE_LIST">>[i + 1]

\* v in n bytes, least significant first.  Numbers stay below 2^31 here, so the
\* bytes after the fourth are zero.
LittleEndian(v, n) == [i \in 1 .. n |-> IF i > 4 THEN 0 ELSE (v \div 256 ^ (i - 1)) % 256]

\* Distinct byte patterns for a double, which is not looked into.
DoubleBytes(v) == [i \in 1 .. 8 |-> (v + 16 * i) % 256]

-----------------------------------------------------------------------------
(***************************************************************************)
(* Writing.  b is the data written so far.                                 *)
(***************************************************************************)
WriteSizeShort(b, n) ==       \* mutant: 254 still taken for a one-byte size
  CASE n <= 254   -> Append(b, n)
    [] n > 254 /\ n <= 65535 -> Append(b, 254) \o LittleEndian(n, 2)
    [] OTHER      -> Append(b, 255) \o LittleEndian(n, 4)

WriteSize(b, n) ==
  CASE n < 254    -> Append(b, n)
    [] n >= 254 /\ n <= 65535 -> Append(b, 254) \o LittleEndian(n, 2)
    [] OTHER      -> Append(b, 255) \o LittleEndian(n, 4)

WriteAlignment(b, alignment) ==
  b \o [i \in 1 .. (alignment - (Len(b) % alignment)) % alignment |-> 0]

WriteUTF8(b, s) == WriteSize(b, Len(s)) \o s

Ok(b) == [ok |-> TRUE, data |-> b]
Failed(b) == [ok |-> FALSE, data |-> b]

\* BridgeCodecUtilWriteNumber: the tag and the bytes of an NSNumber.
WriteNumber(b, x) ==
  CASE x.rep = "bool"   -> Ok(Append(b, IF x.v = 1 THEN Tag("TRUE") ELSE Tag("FALSE")))
    [] x.rep = "double" -> Ok(WriteAlignment(Append(b, Tag("DOUBLE")), 8) \o DoubleBytes(x.v))
    [] x.rep = "int32"  -> Ok(Append(b, Tag("INT32")) \o LittleEndian(x.v, 4))
    [] x.rep = "int64"  -> Ok(Append(b, Tag("INT64")) \o LittleEndian(x.v, 8))

\* BridgeCodecUtilWriteNumberWithSize: an element, without a tag.  A number with a
\* fraction does not fit an integer.
WriteElement(b, x, size) ==
  CASE x.rep = "bool"                -> WriteNumber(b, x)
    [] x.rep = "double" /\ size = 8  -> Ok(b \o DoubleBytes(x.v))
    [] x.rep = "double" /\ size = 4  -> Failed(b)
    [] OTHER                         -> Ok(b \o LittleEndian(x.v, size))

ElementSize(type) == IF type = "int32" THEN 4 ELSE 8

ListTag(type) ==
  Tag(CASE type = "bool" -> "LIST_BOOL" [] type = "int32" -> "LIST_INT32"
        [] type = "int64" -> "LIST_INT64" [] type = "double" -> "LIST_DOUBLE"
        [] type = "string" -> "LIST_STRING")

\* Elements are written until one fails.
WriteAll(b, elems, Write(_, _)) ==
  FoldLeft(LAMBDA w, x : IF w.ok THEN Write(w.data, x) ELSE w, Ok(b), elems)

\* A BridgeArray: numbers are aligned to their size, booleans and strings are not.
WriteArray(b, x) ==
  LET head == WriteSize(Append(b, ListTag(x.type)), Len(x.v)) IN
  CASE x.type = "bool" -> WriteAll(head, x.v, WriteNumber)
    [] x.type = "string" -> WriteAll(head, x.v, LAMBDA d, s : Ok(WriteUTF8(d, s.v)))
    [] OTHER -> WriteAll(WriteAlignment(head, ElementSize(x.type)), x.v,
                         LAMBDA d, y : WriteElement(d, y, ElementSize(x.type)))

\* writeValue.  Inside a list or a map an object of no known class is skipped, and
\* so is the outcome of writing each part.
RECURSIVE WriteValue(_, _)
WriteValue(b, x) ==
  LET Part(d, y) == IF y.k = "unknown" THEN d ELSE WriteValue(d, y).data IN
  CASE x.k = "null"   -> Ok(Append(b, Tag("NULL")))
    [] x.k = "number" -> WriteNumber(b, x)
    [] x.k = "string" -> Ok(WriteUTF8(Append(b, Tag("STRING")), x.v))
    [] x.k = "bytes"  -> Ok(WriteSize(Append(b, Tag("LIST_UINT8")), Len(x.v)) \o x.v)
    [] x.k = "array"  -> WriteArray(b, x)
    [] x.k = "list"   ->
         Ok(FoldLeft(Part, WriteSize(Append(b, Tag("COMPOSITE_LIST")), Len(x.v)), x.v))
    [] x.k = "map"    ->
         Ok(FoldLeft(LAMBDA d, pair : Part(Part(d, pair[1]), pair[2]),
                     WriteSize(Append(b, Tag("MAP")), Len(x.v)), x.v))
    [] x.k = "unknown" -> Failed(b)

-----------------------------------------------------------------------------
(***************************************************************************)
(* Reading.  pos is the number of bytes read so far; a read returns the    *)
(* new position and the value.                                             *)
(***************************************************************************)
At(pos, val) == [pos |-> pos, val |-> val]

Bytes(d, pos, n) ==
  At(pos + n, IF pos + n <= Len(d) THEN SubSeq(d, pos + 1, pos + n) ELSE <<>>)

Unsigned(bytes) == FoldRight(LAMBDA x, acc : x + 256 * acc, bytes, 0)

ReadSize(d, pos) ==
  LET first == Bytes(d, pos, 1)
      byte == IF first.val = <<>> THEN 0 ELSE first.val[1]
      n == IF byte = 254 THEN 2 ELSE 4
  IN  IF byte < 254 THEN At(pos + 1, byte)
      ELSE At(pos + 1 + n, Unsigned(Bytes(d, pos + 1, n).val))

ReadAlignment(pos, alignment) == pos + ((alignment - (pos % alignment)) % alignment)

ReadNumber(d, pos, rep) ==
  LET n == IF rep = "int32" THEN 4 ELSE 8
      p == IF rep = "double" THEN ReadAlignment(pos, 8) ELSE pos
      raw == Bytes(d, p, n)
      known == {v \in 0 .. 15 : DoubleBytes(v) = raw.val}
  IN  At(raw.pos,
         CASE raw.val = <<>> -> Garbage
           [] rep # "double" -> Number(rep, Unsigned(SubSeq(raw.val, 1, 4)))
           [] known = {}     -> Garbage
           [] OTHER          -> Number(rep, CHOOSE v \in known : TRUE))

ReadSized(d, pos, kind) ==
  LET size == ReadSize(d, pos)
      raw == Bytes(d, size.pos, size.val)
  IN  At(raw.pos, [k |-> kind, v |-> raw.val])

\* n values, one after the other.
ReadSeveral(n, pos, Read(_)) ==
  FoldLeft(LAMBDA r, i : LET x == Read(r.pos) IN At(x.pos, Append(r.val, x.val)),
           At(pos, <<>>), [i \in 1 .. n |-> i])

\* GetReadNumberListValue, ReadListBool and ReadListString.  The booleans come back
\* as numbers of one byte.
ReadList(d, pos, type) ==
  LET size == ReadSize(d, pos)
      start == IF type \in {"bool", "string"} THEN size.pos
               ELSE ReadAlignment(size.pos, ElementSize(type))
      ReadOne(p) ==
        CASE type = "bool" ->
               At(p + 1, Number("int8", IF Bytes(d, p, 1).val = <<Tag("TRUE")>> THEN 1 ELSE 0))
          [] type = "string" -> ReadSized(d, p, "string")
          [] OTHER -> ReadNumber(d, p, type)
      all == ReadSeveral(size.val, start, ReadOne)
  IN  At(all.pos, [k |-> "list", v |-> all.val])

RECURSIVE ReadValue(_, _)
ReadValue(d, pos) ==
  LET tag == IF pos < Len(d) THEN d[pos + 1] ELSE -1
      p == pos + 1
      size == ReadSize(d, p)
      Next(q) == ReadValue(d, q)
      Pair(q) == LET key == Next(q)
                     val == Next(key.pos)
                 IN  At(val.pos, <<key.val, val.val>>)
      Several(kind, Read(_)) ==
        LET all == ReadSeveral(size.val, size.pos, Read) IN At(all.pos, [k |-> kind, v |-> all.val])
  IN  CASE tag = Tag("NULL")           -> At(p, Null)
        [] tag = Tag("TRUE")           -> At(p, Number("bool", 1))
        [] tag = Tag("FALSE")          -> At(p, Number("bool", 0))
        [] tag = Tag("INT32")          -> ReadNumber(d, p, "int32")
        [] tag = Tag("INT64")          -> ReadNumber(d, p, "int64")
        [] tag = Tag("DOUBLE")         -> ReadNumber(d, p, "double")
        [] tag = Tag("STRING")         -> ReadSized(d, p, "string")
        [] tag = Tag("LIST_UINT8")     -> ReadSized(d, p, "bytes")
        [] tag = Tag("LIST_BOOL")      -> ReadList(d, p, "bool")
        [] tag = Tag("LIST_INT32")     -> ReadList(d, p, "int32")
        [] tag = Tag("LIST_INT64")     -> ReadList(d, p, "int64")
        [] tag = Tag("LIST_DOUBLE")    -> ReadList(d, p, "double")
        [] tag = Tag("LIST_STRING")    -> ReadList(d, p, "string")
        [] tag = Tag("MAP")            -> Several("map", Pair)
        [] tag = Tag("COMPOSITE_LIST") -> Several("list", Next)
        [] OTHER                       -> At(p, Garbage)

-----------------------------------------------------------------------------
\* encode: of BridgeBinaryCodec.  What it failed to write is not returned.
Encode(x) == LET w == WriteValue(<<>>, x) IN IF w.ok THEN w ELSE Failed(<<>>)

\* decode: of BridgeBinaryCodec; no data is nil.
Decode(data) == IF data = <<>> THEN At(0, Null) ELSE ReadValue(data, 0)

-----------------------------------------------------------------------------
\* What the reader makes of a value: a BridgeArray becomes an NSArray of the numbers
\* of its type, and the booleans of one become numbers of one byte.
RECURSIVE AsRead(_)
AsRead(x) ==
  CASE x.k = "array" ->
         [k |-> "list",
          v |-> [i \in DOMAIN x.v |->
                   CASE x.type = "bool" -> Number("int8", x.v[i].v)
                     [] x.type = "string" -> x.v[i]
                     [] OTHER -> Number(x.type, x.v[i].v)]]
    [] x.k = "list" -> [k |-> "list", v |-> [i \in DOMAIN x.v |-> AsRead(x.v[i])]]
    [] x.k = "map" ->
         [k |-> "map", v |-> [i \in DOMAIN x.v |-> <<AsRead(x.v[i][1]), AsRead(x.v[i][2])>>]]
    [] OTHER -> x

\* Values the codec promises to carry: no part is of an unknown class, and the
\* elements of a BridgeArray are what BridgeArray.h asks for.
RECURSIVE Carried(_)
Carried(x) ==
  CASE x.k = "unknown" -> FALSE
    [] x.k = "array" ->
         \A i \in DOMAIN x.v :
           CASE x.type = "string" -> x.v[i].k = "string"
             [] x.type = "int64" -> x.v[i].rep \in {"int32", "int64"}
             [] OTHER -> x.v[i].rep = x.type
    [] x.k = "list" -> \A i \in DOMAIN x.v : Carried(x.v[i])
    [] x.k = "map" -> \A i \in DOMAIN x.v : Carried(x.v[i][1]) /\ Carried(x.v[i][2])
    [] OTHER -> TRUE

\* Reader and writer agree on every size prefix, on the padding before every double
\* and every list of numbers, wherever it falls in the data, and on the nesting: a
\* value that is carried is read back, and nothing is left over.
RoundTrip(x) ==
  Carried(x) => LET encoded == Encode(x) IN
                /\ encoded.ok
                /\ Decode(encoded.data) = At(Len(encoded.data), AsRead(x))
=============================================================================
