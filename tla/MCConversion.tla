---------------------------- MODULE MCConversion ----------------------------
(* A small interface: structs that nest a struct and a union, vectors of   *)
(* scalars, structs and strings, and enums with and without a scalar type. *)
EXTENDS Conversion

NoSpec == [name |-> "", type |-> "", scalar_type |-> "", enum_type |-> "", predefined_type |-> "",
           vector_value |-> << >>, struct_value |-> << >>, union_value |-> << >>,
           sub_struct |-> << >>, sub_union |-> << >>]
ScalarSpec(n, t) == [NoSpec EXCEPT !.name = n, !.type = "scalar", !.scalar_type = t]
EnumSpec(n, t) == [NoSpec EXCEPT !.name = n, !.type = "enum", !.enum_type = t]
StringSpec(n) == [NoSpec EXCEPT !.name = n, !.type = "string"]
VectorSpec(n, e) == [NoSpec EXCEPT !.name = n, !.type = "vector", !.vector_value = <<e>>]

Point == [NoSpec EXCEPT !.name = "Point", !.type = "struct",
            !.struct_value = <<ScalarSpec("x", "int32_t"), EnumSpec("mode", "uint8_t")>>]
Choice == [NoSpec EXCEPT !.name = "Choice", !.type = "union",
             !.union_value = <<ScalarSpec("u", "uint32_t"), StringSpec("s")>>]
ConfigSpec == [NoSpec EXCEPT !.name = "Config", !.type = "struct",
             !.struct_value = <<[NoSpec EXCEPT !.name = "at", !.type = "struct", !.predefined_type = "Point"],
                                [NoSpec EXCEPT !.name = "how", !.type = "union", !.predefined_type = "Choice"],
                                StringSpec("label")>>,
             !.sub_struct = <<Point, Choice>>]
Frame == [NoSpec EXCEPT !.name = "Frame", !.type = "struct",
            !.struct_value = <<[NoSpec EXCEPT !.name = "at", !.type = "struct", !.predefined_type = "Point"],
                               VectorSpec("sizes", ScalarSpec("", "int32_t"))>>,
            !.sub_struct = <<Point>>]

Ints == {[int |-> "0"], [int |-> "7"]}
Lists(S) == {[list |-> l] : l \in UNION {[1..n -> S] : n \in 0..2}}
(* Dictionaries with these members, complete or without one of them. *)
Points == {[dict |-> ("x" :> i @@ "mode" :> j)] : i, j \in Ints} \cup {[dict |-> ("x" :> i)] : i \in Ints}
ChoiceDicts == {[dict |-> ("u" :> i)] : i \in Ints} \cup {[dict |-> ("s" :> [str |-> "a"])], [dict |-> << >>]}

RECURSIVE ConstValues(_)
ConstValues(spec) ==
  CASE spec.type \in {"scalar", "enum"} -> Ints
    [] spec.type = "string" -> {[str |-> "a"], [str |-> ""]}
    [] spec.type = "vector" -> Lists(ConstValues(spec.vector_value[1]))
    [] spec.name = "Point" -> Points
    [] spec.name = "Choice" -> ChoiceDicts
    [] spec.name = "Frame" -> {[dict |-> ("at" :> p @@ "sizes" :> l)] : p \in Points, l \in Lists(Ints)}
    [] spec.name = "Config" ->
         {[dict |-> ("at" :> p @@ "how" :> c @@ "label" :> [str |-> "a"])] : p \in Points, c \in ChoiceDicts}
         \cup {[dict |-> ("at" :> p @@ "label" :> [str |-> "a"])] : p \in Points}

ConstApis == <<[name |-> <<"open">>, arg |-> <<ConfigSpec, VectorSpec("l", Point)>>],
               [name |-> <<"set">>, arg |-> <<EnumSpec("m", ""), VectorSpec("names", StringSpec(""))>>]>>
ConstAttributes == <<[name |-> <<"::", "Audio", "Mode">>, is_const |-> FALSE, spec |-> EnumSpec("", "int32_t")],
                     [name |-> <<"Size">>, is_const |-> TRUE, spec |-> ScalarSpec("", "int32_t")],
                     [name |-> <<"::", "Mode">>, is_const |-> FALSE, spec |-> Point],
                     [name |-> <<"::", "Config">>, is_const |-> FALSE, spec |-> ConfigSpec]>>
ConstAsked == {<<"open">>, <<"set">>, <<"Mode">>, <<"Audio", "Mode">>, <<"Size">>, <<"Config">>, <<"Other">>}
ConstSent == {ScalarSpec("r", "int32_t"), EnumSpec("e", "uint8_t"), StringSpec("s"), Point, Frame,
              VectorSpec("l", Point), VectorSpec("n", StringSpec(""))}
=============================================================================
