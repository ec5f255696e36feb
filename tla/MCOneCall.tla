------------------------------ MODULE MCOneCall ------------------------------
(* An instance of OneCall.                                                  *)
(*                                                                          *)
(* Catalog: the three ways a dataverse is shown as catalog and schema,      *)
(* objects that differ from each other in one component or in the case of a *)
(* name, and foreign keys with and without the column name of the key they  *)
(* refer to.                                                                *)
(* Translation: operands of each kind, types CONVERT knows, literals with   *)
(* and without milliseconds.                                                *)
(* Strings: all of up to five characters over those that connection strings *)
(* and lists tell apart, and strings of up to two fields.                   *)
(* Documents: numbers with and without fraction and power, all escapes, up *)
(* to two of each in strings, arrays and objects, and two parameters.       *)
(* UnicodeConversion: characters of one and of three bytes, one that begins *)
(* like the signature, and the signature anywhere in a text.                *)
(* Conversion: all texts of up to four characters as numbers, integers of   *)
(* up to 9 bits; years around the exceptions of the calendar; days of 8     *)
(* seconds of 10 milliseconds, 21 of them before and after 1970, of which   *)
(* the ticks of the clock reach 10.                                         *)
EXTENDS OneCall

ThreeNames == {"a", "A", "ab"}
MCLike == [v \in ThreeNames \cup {"%", "%%", "a%", "", "b", "view"} |->
             CASE v \in {"%", "%%"} -> ThreeNames \cup {"b", "VIEW", "view"}
               [] v = "a%"          -> {"a", "ab"}
               [] OTHER             -> {v}] @@ [t \in {"VIEW", "TABLE"} |-> {t}]
MCLower == [v \in ThreeNames \cup {"%", "%%", "a%", "", "b"} |-> IF v = "A" THEN "a" ELSE v]

MCSession ==
    [ metadataId : BOOLEAN, odbc2 : BOOLEAN, entity : BOOLEAN, twoPart : BOOLEAN,
      cat1 : {"a"}, cat2 : {"b"} ]

\* A dataverse a.b in a database a, and one of a single part.
Object1 == [database |-> "a", dataverse |-> "a", part1 |-> "a", part2 |-> "b", name |-> "a", column |-> "a"]
MCObject == { Object1, [Object1 EXCEPT !.name = "A"], [Object1 EXCEPT !.column = "ab"],
              [Object1 EXCEPT !.database = "ab", !.part2 = "Null"],
              [Object1 EXCEPT !.dataverse = "ab", !.part1 = "ab"] }
MCForeignKey == [fk : MCObject, ref : MCObject]

MCIdentifier == {"a", "F", "SQL_BIGINT", "SQL_VARCHAR", "SQL_TYPE_DATE"}
MCLiteral    == {"'t.000'", "'t'"}
MCWithoutFraction == [d \in MCLiteral |-> "'t'"]
MCOperand      == {"a", "1", "'t'", "?"}
MCAnyText       == SeqOf({"x", "=", ";", "{", "}", Space}, 5) \cup SeqOf({"x", ",", "'", Space}, 5)
MCFieldValue      == { v \in SeqOf({"x", "=", ";", "}", Space, "{"}, 2) : Len(v) < 2 \/ v[1] # v[2] }
MCFieldKey        == { << "a" >>, << "A" >>, << "a", "=" >>, << "a", Space, "a" >>, CS!DSN, << "dsn" >>, CS!FILEDSN, CS!DRIVER }
MCUpper == [c \in {"x", "=", ";", "{", "}", Space, ",", "'", "DSN", "FILEDSN", "DRIVER", "UID", "PWD", "A"} |-> c]
           @@ ("a" :> "A") @@ ("dsn" :> "DSN")

MCDigits == {<< >>, << 48 >>, << 49 >>, << 50, 48 >>, << 48, 53 >>, << 57, 48, 49 >>}
\* Characters as they are, of one byte and of three, and escapes.
MCPiece ==
    { [text |-> p[1], means |-> p[2]] :
        p \in { << << 97 >>, << 97 >> >>, << << 226, 130, 172 >>, << 226, 130, 172 >> >>,
               << << 92, 34 >>, << 34 >> >>, << << 92, 92 >>, << 92 >> >>, << << 92, 47 >>, << 47 >> >>,
               << << 92, 98 >>, << 8 >> >>, << << 92, 102 >>, << 12 >> >>, << << 92, 110 >>, << 10 >> >>,
               << << 92, 114 >>, << 13 >> >>, << << 92, 116 >>, << 9 >> >>,
               << << 92, 117, 48, 48, 52, 49 >>, << 65 >> >>,
               << << 92, 117, 48, 48, 69, 57 >>, << 195, 169 >> >>,
               << << 92, 117, 50, 48, 97, 99 >>, << 226, 130, 172 >> >> } }
MCPowerOfTen == {-3, -1, 0, 1, 2}
MCColumnKey == {<< 97 >>, << 65 >>, << 98 >>}
MCPlainText == SeqOf({97, 34, 92}, 2)
MCTimeValue == {<< 48 >>, << 45, 53 >>}

MCNumberText == SeqOf({"+", "-", ".", "0", "7", "9", "x"}, 4) \cup {<< "true" >>, << "false" >>}
MCBits  == [ int8 |-> 3, int16 |-> 4, int32 |-> 6, int64 |-> 9,
             uint8 |-> 3, uint16 |-> 4, uint32 |-> 6, uint64 |-> 9 ]
MCMs    == -1700 .. 1700
MCDay   == UNION { ToDays(<< y, 3, 1 >>) - 3 .. ToDays(<< y, 3, 1 >>) + 2 :
                     y \in {-4, 0, 1, 4, 100, 1600, 1900, 1970, 1999, 2000, 2024, 9999, 10000} } \cup -40 .. 40
MCYear  == {1, 4, 100, 399, 400, 401} \cup 1580 .. 1620 \cup 1890 .. 2110
MCZone  == {-4, 0, 4}
MCScale == -1 .. 2

MCTexts == SeqOf({"a", "q", "f"}, 4)
MCBytes == [a |-> << "a" >>, q |-> << "ef", "bb", "80" >>, f |-> << "ef", "bb", "bf" >>]
=============================================================================
