------------------------------ MODULE Conversion ------------------------------
(***************************************************************************)
(* How a call on a native entity's mirror turns its name and arguments     *)
(* into a message and the driver's messages into Python values:            *)
(* NativeEntityMirror.__getattr__, py2pb, pb2py and                        *)
(* GetPythonDataOfVariableSpecMsg.                                         *)
(*                                                                         *)
(* A Python value is [int |-> s], [str |-> s], [list |-> values] or        *)
(* [dict |-> function from names]; scalars are strings.  A message and a   *)
(* specification are records with the fields of                            *)
(* VariableSpecificationMessage that the conversions touch.  A name is a   *)
(* sequence of parts, so that endswith is "has the suffix".                *)
(***************************************************************************)
EXTENDS Integers, Sequences, SequencesExt, FiniteSets, TLC

CONSTANTS
  Apis,         \* interface.api: sequence of [name, arg]
  Attributes,   \* attribute, then interface.attribute: sequence of [name, is_const, spec]
  Values(_),    \* Python values a test may pass for a specification
  Asked,        \* names that tests look up on the mirror
  Sent          \* specifications of the values that the driver sends

VARIABLES
  conv          \* what the last operation did

convVars == <<conv>>

Blank == [name |-> "", type |-> "none", scalar_type |-> "", scalar_value |-> << >>,
          string_value |-> "", vector_value |-> << >>, struct_value |-> << >>,
          union_value |-> << >>]
PyNone == [none |-> "None"]
Raised == [none |-> "raised"]
-----------------------------------------------------------------------------
(* py2pb                                                                   *)

(* A message that takes the specification's name if it has one. *)
Named(message, spec, type) ==
  [message EXCEPT !.name = IF spec.name # "" THEN spec.name ELSE @, !.type = type]

PyValue2PbEnum(message, spec, v) ==
  [Named(message, spec, "enum") EXCEPT !.scalar_value =
     (IF spec.enum_type # "" THEN spec.enum_type ELSE "int32_t") :> v.int]

PyValue2PbScalar(message, spec, v) ==
  [Named(message, spec, "scalar") EXCEPT !.scalar_type = spec.scalar_type,
                                         !.scalar_value = spec.scalar_type :> v.int]

PyString2PbString(message, spec, v) == [Named(message, spec, "string") EXCEPT !.string_value = v.str]

(* FindSubStructType and FindSubUnionType: the first with that name. *)
FindSubType(subs, name) == SelectSeq(subs, LAMBDA s : s.name = name)

RECURSIVE PyToPb(_, _, _)

Element(spec, v) == PyToPb([Blank EXCEPT !.name = spec.name], spec, v)

(* A vector whose elements are all one message, which holds the last value. *)
VectorOfOneMessage(message, spec, v) ==
  [Named(message, spec, "vector") EXCEPT !.vector_value =
     [i \in DOMAIN v.list |-> Element(spec.vector_value[1], v.list[Len(v.list)])]]

PyList2PbVector(message, spec, v) ==
  [Named(message, spec, "vector") EXCEPT !.vector_value =
     [i \in DOMAIN v.list |-> Element(spec.vector_value[1], v.list[i])]]

(* The message of one member: a nested struct or union is built by the specification *)
(* found under its predefined_type, and without one the loop is left.                *)
MemberFails(attr, subs) ==
  \/ attr.type \in {"struct", "union"} /\ FindSubType(subs, attr.predefined_type) = << >>
  \/ attr.type \notin {"enum", "scalar", "string", "vector", "struct", "union"}
Member(attr, subs, v) ==
  IF attr.type \in {"struct", "union"}
    THEN PyToPb(Blank, [FindSubType(subs, attr.predefined_type)[1] EXCEPT !.type = attr.type], v)
    ELSE PyToPb(Blank, attr, v)

(* PyDict2PbStruct: members in the order of the specification, up to the first that  *)
(* is not provided or has no known type.  Its result (None, or the message) is used  *)
(* by no caller, so the message keeps what was filled in.                            *)
PyDict2PbStruct(message, spec, v) ==
  LET attrs == spec.struct_value
      stops == {i \in DOMAIN attrs :
                  attrs[i].name \notin DOMAIN v.dict \/ MemberFails(attrs[i], spec.sub_struct)}
      good  == IF stops = {} THEN Len(attrs) ELSE (CHOOSE i \in stops : \A j \in stops : i <= j) - 1
      left  == stops # {} /\ attrs[good + 1].name \in DOMAIN v.dict    \* added, then not filled
  IN [Named(message, spec, "struct") EXCEPT !.struct_value =
        [i \in 1..good |-> Member(attrs[i], spec.sub_struct, v.dict[attrs[i].name])]
        \o IF left THEN <<Blank>> ELSE << >>]

(* PyDict2PbUnion: the member that is provided, and an empty message for each of the *)
(* others; a dictionary with several keys changes nothing.                           *)
PyDict2PbUnion(message, spec, v) ==
  LET attrs == spec.union_value
      bad == {i \in DOMAIN attrs : attrs[i].name \in DOMAIN v.dict /\ MemberFails(attrs[i], spec.sub_union)}
      last == IF bad = {} THEN Len(attrs) ELSE CHOOSE i \in bad : \A j \in bad : i <= j
  IN IF Cardinality(DOMAIN v.dict) > 1 THEN message
     ELSE [Named(message, spec, "union") EXCEPT !.union_value =
             [i \in 1..last |-> IF attrs[i].name \in DOMAIN v.dict /\ i \notin bad
                                  THEN Member(attrs[i], spec.sub_union, v.dict[attrs[i].name])
                                  ELSE Blank]]

PyToPb(message, spec, v) ==
  CASE spec.type = "struct" -> PyDict2PbStruct(message, spec, v)
    [] spec.type = "union"  -> PyDict2PbUnion(message, spec, v)
    [] spec.type = "enum"   -> PyValue2PbEnum(message, spec, v)
    [] spec.type = "scalar" -> PyValue2PbScalar(message, spec, v)
    [] spec.type = "string" -> PyString2PbString(message, spec, v)
    [] spec.type = "vector" -> PyList2PbVector(message, spec, v)

(* py2pb.Convert: the result is a message even where a dictionary did not fit. *)
Convert(spec, v) == Element(spec, v)
-----------------------------------------------------------------------------
(* Messages that the driver sends.                                         *)

(* getattr(scalar_value, t): an unset field is 0. *)
Scalar(msg, t) == [int |-> IF t \in DOMAIN msg.scalar_value THEN msg.scalar_value[t] ELSE "0"]

RECURSIVE GetPythonDataOfVariableSpecMsg(_)
RECURSIVE PbToPy(_)

Attribute(i) == <<"attribute1", "attribute2", "attribute3">>[i]
NamedMembers(members) ==
  [n \in {IF members[i].name # "" THEN members[i].name ELSE Attribute(i) : i \in DOMAIN members} |->
     LET i == CHOOSE i \in DOMAIN members :
                n = IF members[i].name # "" THEN members[i].name ELSE Attribute(i)
     IN GetPythonDataOfVariableSpecMsg(members[i])]

(* VtsTcpClient's conversion of the results of a call. *)
GetPythonDataOfVariableSpecMsg(msg) ==
  CASE msg.type = "scalar" -> IF msg.scalar_type # "" THEN Scalar(msg, msg.scalar_type) ELSE Raised
    [] msg.type = "enum"   -> Scalar(msg, IF msg.scalar_type # "" THEN msg.scalar_type ELSE "int32_t")
    [] msg.type = "string" -> [str |-> msg.string_value]
    [] msg.type = "struct" -> [dict |-> NamedMembers(msg.struct_value)]
    [] msg.type = "union"  -> [dict |-> NamedMembers(msg.union_value)]
    [] msg.type = "vector" -> [list |-> [i \in DOMAIN msg.vector_value |->
                                           GetPythonDataOfVariableSpecMsg(msg.vector_value[i])]]
    [] OTHER -> Raised

(* PbVector2PyList: elements that are not scalars or structs make it None. *)
PbVector2PyList(msg) ==
  IF \A i \in DOMAIN msg.vector_value : msg.vector_value[i].type \in {"scalar", "struct"}
    THEN [list |-> [i \in DOMAIN msg.vector_value |-> PbToPy(msg.vector_value[i])]]
    ELSE PyNone

(* PbStruct2PyDict: a member of another type raises (there is no TYPE_Array). *)
PbStruct2PyDict(msg) ==
  IF \A i \in DOMAIN msg.struct_value :
       msg.struct_value[i].type \in {"enum", "scalar", "string", "vector", "struct"}
    THEN [dict |-> [n \in {msg.struct_value[i].name : i \in DOMAIN msg.struct_value} |->
            PbToPy(msg.struct_value[CHOOSE i \in DOMAIN msg.struct_value :
                                      msg.struct_value[i].name = n])]]
    ELSE Raised

(* pb2py.Convert, for the arguments of a callback. *)
PbToPy(msg) ==
  CASE msg.type \in {"scalar", "enum"} ->
         IF msg.scalar_type # "" THEN Scalar(msg, msg.scalar_type) ELSE Raised
    [] msg.type = "vector" -> PbVector2PyList(msg)
    [] msg.type = "struct" -> PbStruct2PyDict(msg)
    [] msg.type = "string" -> [str |-> msg.string_value]
    [] OTHER -> PyNone
-----------------------------------------------------------------------------
(* Names.                                                                  *)
First(s, Test(_)) == LET t == SelectSeq(s, Test) IN IF t = << >> THEN << >> ELSE <<t[1]>>

GetApi(name) == First(Apis, LAMBDA a : a.name = name)
GetAttribute(name) ==
  First(Attributes, LAMBDA a : ~a.is_const /\ (a.name = name \/ IsSuffix(<<"::">> \o name, a.name)))
GetConstType(name) ==
  First(Attributes, LAMBDA a : \/ a.is_const /\ a.name = name
                               \/ a.spec.type = "enum" /\ IsSuffix(name, a.name))

(* The arguments of a remote call are paired with the API's; None leaves the         *)
(* specification in its place, and so does a missing argument.                       *)
Arguments(api, args) ==
  [i \in DOMAIN api.arg |->
     IF i \in DOMAIN args /\ args[i] # PyNone THEN Convert(api.arg[i], args[i])
     ELSE [Blank EXCEPT !.name = api.arg[i].name]]

ConversionInit == conv = [op |-> "new"]

(* __getattr__(name): an API, else a constant or an enum, else an attribute. *)
Lookup(name) ==
  /\ conv.op = "new"
  /\ IF GetApi(name) # << >> THEN conv' = [op |-> "api", asked |-> name, of |-> name]
     ELSE IF GetConstType(name) # << >>
       THEN conv' = [op |-> "const", asked |-> name, of |-> GetConstType(name)[1].name]
     ELSE IF GetAttribute(name) # << >>
       THEN conv' = [op |-> "message", asked |-> name, of |-> GetAttribute(name)[1].name]
     ELSE conv' = [op |-> "unknown", asked |-> name, of |-> << >>]

(* RemoteCall with the arguments of the test. *)
RemoteCall ==
  /\ conv.op = "api"
  /\ LET api == GetApi(conv.asked)[1]
         given == UNION {[1..n -> UNION {Values(api.arg[i]) : i \in DOMAIN api.arg} \cup {PyNone}] :
                           n \in 0..Len(api.arg)}
     IN \E args \in given :
          /\ \A i \in DOMAIN args : args[i] \in Values(api.arg[i]) \cup {PyNone}
          /\ conv' = [op |-> "call", api |-> api, args |-> args, sent |-> Arguments(api, args)]

(* What a driver sends for a value: the members' names and the scalar types are set. *)
RECURSIVE DriverMessage(_, _)
DriverMessage(spec, v) ==
  CASE spec.type = "scalar" -> PyValue2PbScalar(Blank, spec, v)
    [] spec.type = "enum" -> [PyValue2PbEnum(Blank, spec, v) EXCEPT !.scalar_type = spec.enum_type]
    [] spec.type = "string" -> PyString2PbString(Blank, spec, v)
    [] spec.type = "vector" ->
         [Named(Blank, spec, "vector") EXCEPT !.vector_value =
            [i \in DOMAIN v.list |-> DriverMessage(spec.vector_value[1], v.list[i])]]
    [] spec.type = "struct" ->
         [Named(Blank, spec, "struct") EXCEPT !.struct_value =
            [i \in DOMAIN spec.struct_value |->
               LET a == spec.struct_value[i]
                   s == IF a.type = "struct"
                          THEN [FindSubType(spec.sub_struct, a.predefined_type)[1] EXCEPT !.name = a.name]
                          ELSE a
               IN DriverMessage(s, v.dict[a.name])]]

-----------------------------------------------------------------------------
(* Whether a dictionary has the members that its type has. *)
RECURSIVE Conforms(_, _)
Conforms(spec, v) ==
  CASE spec.type = "struct" ->
         /\ DOMAIN v.dict = {spec.struct_value[i].name : i \in DOMAIN spec.struct_value}
         /\ \A i \in DOMAIN spec.struct_value :
              LET a == spec.struct_value[i] IN
                /\ ~MemberFails(a, spec.sub_struct)
                /\ Conforms(IF a.type \in {"struct", "union"}
                              THEN [FindSubType(spec.sub_struct, a.predefined_type)[1] EXCEPT !.type = a.type]
                              ELSE a, v.dict[a.name])
    [] spec.type = "union" ->
         /\ Cardinality(DOMAIN v.dict) = 1
         /\ DOMAIN v.dict \subseteq {spec.union_value[i].name : i \in DOMAIN spec.union_value}
    [] spec.type = "vector" -> \A i \in DOMAIN v.list : Conforms(spec.vector_value[1], v.list[i])
    [] OTHER -> TRUE

(* The value that a driver reads from a message by the specification. *)
RECURSIVE ReadBy(_, _)
ReadBy(spec, msg) ==
  CASE spec.type = "scalar" -> Scalar(msg, spec.scalar_type)
    [] spec.type = "enum" -> Scalar(msg, IF spec.enum_type # "" THEN spec.enum_type ELSE "int32_t")
    [] spec.type = "string" -> [str |-> msg.string_value]
    [] spec.type = "vector" -> [list |-> [i \in DOMAIN msg.vector_value |->
                                            ReadBy(spec.vector_value[1], msg.vector_value[i])]]
    [] spec.type = "struct" ->
         [dict |-> [n \in {spec.struct_value[i].name : i \in DOMAIN spec.struct_value} |->
            LET i == CHOOSE i \in DOMAIN spec.struct_value : spec.struct_value[i].name = n
                a == spec.struct_value[i]
            IN ReadBy(IF a.type \in {"struct", "union"}
                        THEN [FindSubType(spec.sub_struct, a.predefined_type)[1] EXCEPT !.type = a.type]
                        ELSE a, msg.struct_value[i])]]
    [] spec.type = "union" ->
         LET used == {i \in DOMAIN msg.union_value : msg.union_value[i].name # ""}
         IN [dict |-> [n \in {spec.union_value[i].name : i \in used} |->
               LET i == CHOOSE i \in used : spec.union_value[i].name = n
               IN ReadBy(spec.union_value[i], msg.union_value[i])]]

(* A result of a call, or an argument of a callback, comes from the driver. *)
Receive(spec, v) ==
  /\ conv.op = "new"
  /\ conv' = [op |-> "received", spec |-> spec, value |-> v,
              result |-> GetPythonDataOfVariableSpecMsg(DriverMessage(spec, v)),
              callback |-> PbToPy(DriverMessage(spec, v))]

ConversionNext ==
  \/ \E name \in Asked : Lookup(name)
  \/ RemoteCall
  \/ \E spec \in Sent : \E v \in Values(spec) : Conforms(spec, v) /\ Receive(spec, v)

ConversionSpec == ConversionInit /\ [][ConversionNext]_convVars
-----------------------------------------------------------------------------
(* The types whose values pb2py converts. *)
RECURSIVE Supported(_, _)
Supported(spec, subs) ==
  CASE spec.type = "vector" -> /\ spec.vector_value[1].type \in {"scalar", "struct"}
                               /\ Supported(spec.vector_value[1], << >>)
    [] spec.type = "struct" ->
         LET def == IF spec.struct_value = << >> THEN FindSubType(subs, spec.predefined_type)[1] ELSE spec
         IN \A i \in DOMAIN def.struct_value : Supported(def.struct_value[i], def.sub_struct)
    [] OTHER -> spec.type # "union"

(* An enum whose name ends with another name hides that name (GetConstType). *)
Hidden(name) ==
  \E i \in DOMAIN Attributes : /\ Attributes[i].spec.type = "enum"
                               /\ IsSuffix(name, Attributes[i].name)
                               /\ Attributes[i].name # name
                               /\ ~IsSuffix(<<"::">> \o name, Attributes[i].name)

(* What a test passes is what the driver reads, and what the driver sends is what    *)
(* the test gets: every argument of a remote call that fits its type arrives with    *)
(* its value (py2pb), every result has the value that was sent                       *)
(* (GetPythonDataOfVariableSpecMsg), and so has every callback argument of a         *)
(* supported type (pb2py).  A name leads to the API, constant or type of that name,  *)
(* unless an enum with a longer name hides it.                                       *)
ValuesSurvive ==
  /\ conv.op = "call" => \A i \in DOMAIN conv.args :
       conv.args[i] # PyNone /\ Conforms(conv.api.arg[i], conv.args[i])
         => ReadBy(conv.api.arg[i], conv.sent[i]) = conv.args[i]
  /\ conv.op = "received" => /\ conv.result = conv.value
                             /\ Supported(conv.spec, << >>) => conv.callback = conv.value
  /\ conv.op \in {"api", "const", "message"} /\ ~Hidden(conv.asked) =>
       conv.of = conv.asked \/ IsSuffix(<<"::">> \o conv.asked, conv.of)
=============================================================================
