----------------------------- MODULE Documents ------------------------------
(***************************************************************************)
(* The documents of core-metadata as the SDK reads, copies, compares and   *)
(* writes them (edgex-rest.c, devutil.c).  A JSON object with known fields *)
(* is a function from the names of the fields that it has; a dictionary is *)
(* the sequence of its members [name, value], in the order that parson     *)
(* keeps; an array is a sequence.  A list of the program is a sequence, a  *)
(* structure a function from its members, and NULL a failure.              *)
(***************************************************************************)
EXTENDS Null, Integers, SequencesExt

CONSTANTS
  Trap,       \* what becomes of a program that follows a null pointer
  Integer,    \* the texts that strtol and strtod take, each with the
  Real,       \* canonical text of its number; every other is refused
  Printed     \* what sprintf makes of a real number with six decimals

ASSUME NumeralsAssumption == "" \notin DOMAIN Integer \cup DOMAIN Real

----------------------------------------------------------------------------
(* Fields, arrays and dictionaries                                         *)

Field(obj, name, dflt) == IF name \in DOMAIN obj THEN obj[name] ELSE dflt

get_string(obj, name) == Field(obj, name, "")
get_number(obj, name) == Field(obj, name, 0)
get_boolean(obj, name, dflt) == Field(obj, name, dflt)
get_array(obj, name) == Field(obj, name, <<>>)
get_object(obj, name) == Field(obj, name, <<>>)

Strings(obj, names) == [n \in names |-> get_string(obj, n)]
Numbers(obj, names) == [n \in names |-> get_number(obj, n)]

array_to_strings(array) == [i \in DOMAIN array |-> array[i]]
strings_to_array(s) == [i \in DOMAIN s |-> s[i]]
edgex_strings_dup(strs) == strs

(* json_object_set_value: a member of that name is replaced in place.      *)
SetMember(dict, member) ==
  IF \E i \in DOMAIN dict : dict[i].name = member.name
  THEN [i \in DOMAIN dict |-> IF dict[i].name = member.name THEN member ELSE dict[i]]
  ELSE Append(dict, member)

nvpairs_write(list) == FoldLeft(SetMember, <<>>, list)
nvpairs_read(dict) == Reverse(dict)
edgex_nvpairs_dup(list) == list

protocols_read(dict) ==
  Reverse([i \in DOMAIN dict |-> [name |-> dict[i].name, properties |-> nvpairs_read(dict[i].value)]])

protocols_write(list) ==
  FoldLeft(SetMember, <<>>,
    [i \in DOMAIN list |-> [name |-> list[i].name, value |-> nvpairs_write(list[i].properties)]])

edgex_protocols_dup(list) ==
  Reverse([i \in DOMAIN list |->
    [name |-> list[i].name, properties |-> edgex_nvpairs_dup(list[i].properties)]])

----------------------------------------------------------------------------
(* Comparison                                                              *)

(* LIST_EQUAL_FUNCTION: as many on either side, and every member of the    *)
(* first agrees with the first one of that name in the second.             *)
ListEqual(l1, l2, Name(_), Same(_, _)) ==
  /\ Len(l1) = Len(l2)
  /\ \A i \in DOMAIN l1 : \E j \in DOMAIN l2 :
       /\ Name(l2[j]) = Name(l1[i]) /\ \A k \in 1 .. j - 1 : Name(l2[k]) # Name(l1[i])
       /\ Same(l1[i], l2[j])

NameOf(e) == e.name
pair_equal(p1, p2) == p1.value = p2.value
edgex_nvpairs_equal(l1, l2) == ListEqual(l1, l2, NameOf, pair_equal)

protocol_equal(p1, p2) == edgex_nvpairs_equal(p1.properties, p2.properties)
edgex_protocols_equal(l1, l2) == ListEqual(l1, l2, NameOf, protocol_equal)

ResourceOf(e) == e.resource
autoevent_equal(e1, e2) == e1.frequency = e2.frequency /\ e1.onChange = e2.onChange
edgex_device_autoevents_equal(l1, l2) == ListEqual(l1, l2, ResourceOf, autoevent_equal)

----------------------------------------------------------------------------
(* Profiles                                                                *)

IntTypes == {"uint8", "uint16", "uint32", "uint64", "int8", "int16", "int32", "int64"}
FloatTypes == {"float32", "float64"}
PropertyTypes == IntTypes \cup FloatTypes \cup {"bool", "string", "binary"}

TransformArgs == {"scale", "offset", "base", "mask", "shift"}

(* The argument as it is kept, "" when it is not enabled and NULL when it  *)
(* is wrong.  Only numbers can have one.                                   *)
get_transformArg(obj, name, type) ==
  LET str == get_string(obj, name)
      numerals == IF type \in IntTypes THEN Integer
                  ELSE IF type \in FloatTypes THEN Real ELSE <<>>
  IN  IF str = "" THEN "" ELSE Field(numerals, str, NULL)

(* A value without "readWrite" is both readable and writable.              *)
ReadWrite(str) ==
  [readable |-> str \in {"", "R", "RW"}, writable |-> str \in {"", "W", "RW"}]

(* NULL for a value that is wrong; the type is looked up without a look at *)
(* whether there is one.                                                   *)
propertyvalue_read(obj) ==
  LET type == get_string(obj, "type")
      args == [a \in TransformArgs |-> get_transformArg(obj, a, type)]
      right == /\ type \in PropertyTypes
               /\ \A a \in TransformArgs : args[a] # NULL
               /\ type \in FloatTypes => args["mask"] = "" /\ args["shift"] = ""
  IN  IF "type" \notin DOMAIN obj THEN Trap
      ELSE IF right
      THEN [type |-> type, args |-> args, access |-> ReadWrite(get_string(obj, "readWrite")),
            texts |-> Strings(obj, {"minimum", "maximum", "defaultValue", "lsb",
                                    "assertion", "precision", "mediaType"}),
            floatAsBinary |-> get_string(obj, "floatEncoding") # "eNotation"]
      ELSE NULL

units_read(obj) == Strings(obj, {"type", "readWrite", "defaultValue"})

profileproperty_read(obj) ==
  LET value == propertyvalue_read(get_object(obj, "value")) IN
  IF value \in {NULL, Trap} THEN value
  ELSE [value |-> value, units |-> units_read(get_object(obj, "units"))]

deviceresource_read(obj) ==
  LET properties == profileproperty_read(get_object(obj, "properties")) IN
  IF properties \in {NULL, Trap} THEN properties
  ELSE [texts |-> Strings(obj, {"name", "description", "tag"}), properties |-> properties,
        attributes |-> nvpairs_read(get_array(obj, "attributes"))]

resourceoperation_read(obj) ==
  [texts |-> Strings(obj, {"index", "operation", "object", "property", "parameter", "resource"}),
   secondary |-> array_to_strings(get_array(obj, "secondary")),
   mappings |-> nvpairs_read(get_array(obj, "mappings"))]

devicecommand_read(obj) ==
  LET operations(name) == LET array == get_array(obj, name) IN
        [i \in DOMAIN array |-> resourceoperation_read(array[i])]
  IN  [name |-> get_string(obj, "name"), set |-> operations("set"), get |-> operations("get")]

(* The first resource that cannot be read spoils the profile.              *)
deviceprofile_read(obj) ==
  LET resources == LET array == get_array(obj, "deviceResources") IN
        [i \in DOMAIN array |-> deviceresource_read(array[i])]
      commands == LET array == get_array(obj, "deviceCommands") IN
        [i \in DOMAIN array |-> devicecommand_read(array[i])]
      wrong == SelectSeq(resources, LAMBDA r : r \in {NULL, Trap})
  IN  IF wrong # <<>> THEN Head(wrong)
      ELSE [name |-> get_string(obj, "name"),
            texts |-> Strings(obj, {"id", "description", "manufacturer", "model"}),
            numbers |-> Numbers(obj, {"created", "modified", "origin"}),
            labels |-> array_to_strings(get_array(obj, "labels")),
            device_resources |-> resources, device_commands |-> commands]

deviceprofile_write_name(e) == [name |-> e.name]

(* A string that is NULL makes no field.                                   *)
set_strings(e, names) == [n \in {x \in names : e[x] # NULL} |-> e[n]]

rwstrings(access) == (IF access.readable THEN "R" ELSE "") \o (IF access.writable THEN "W" ELSE "")

(* The argument, by its number of which six decimals are written.          *)
set_arg(args, name, type) ==
  IF args[name] = "" THEN <<>>
  ELSE name :> IF type \in FloatTypes THEN Printed[args[name]] ELSE args[name]

propertyvalue_write(e) ==
  LET arg(name) == set_arg(e.args, name, e.type) IN
  [type |-> e.type, readWrite |-> rwstrings(e.access),
   floatEncoding |-> IF e.floatAsBinary THEN "base64" ELSE "eNotation"]
    @@ e.texts @@ arg("mask") @@ arg("shift") @@ arg("scale") @@ arg("offset") @@ arg("base")

(* A defective variant: a field is forgotten.                              *)
units_writeTwo(e) == set_strings(e, {"type", "defaultValue"})

units_write(e) == set_strings(e, {"type", "readWrite", "defaultValue"})

profileproperty_write(e) == [value |-> propertyvalue_write(e.value), units |-> units_write(e.units)]

deviceresource_write(e) ==
  [properties |-> profileproperty_write(e.properties), attributes |-> nvpairs_write(e.attributes)]
    @@ set_strings(e.texts, {"name", "description", "tag"})

resourceoperation_write(e) ==
  [secondary |-> strings_to_array(e.secondary), mappings |-> nvpairs_write(e.mappings)] @@ e.texts

(* Both lists are appended to the first array; the second stays empty.     *)
devicecommand_write(e) ==
  [name |-> e.name, set |-> [i \in DOMAIN (e.set \o e.get) |-> resourceoperation_write((e.set \o e.get)[i])],
   get |-> <<>>]

deviceprofile_write(e, create) ==
  (IF create THEN <<>> ELSE [id |-> e.texts.id] @@ [n \in {"created", "modified"} |-> e.numbers[n]])
    @@ [name |-> e.name, origin |-> e.numbers.origin, labels |-> strings_to_array(e.labels),
        deviceResources |-> [i \in DOMAIN e.device_resources |-> deviceresource_write(e.device_resources[i])],
        deviceCommands |-> [i \in DOMAIN e.device_commands |-> devicecommand_write(e.device_commands[i])]]
    @@ set_strings(e.texts, {"description", "manufacturer", "model"})

edgex_deviceresource_dup(list) ==
  [i \in DOMAIN list |-> [list[i] EXCEPT !.attributes = edgex_nvpairs_dup(@)]]

resourceoperation_dup(list) ==
  [i \in DOMAIN list |-> [list[i] EXCEPT !.secondary = edgex_strings_dup(@),
                                         !.mappings = edgex_nvpairs_dup(@)]]

devicecommand_dup(list) ==
  [i \in DOMAIN list |-> [list[i] EXCEPT !.set = resourceoperation_dup(@),
                                         !.get = resourceoperation_dup(@)]]

edgex_deviceprofile_dup(src) ==
  IF src = NULL THEN NULL
  ELSE [src EXCEPT !.labels = edgex_strings_dup(@),
                   !.device_resources = edgex_deviceresource_dup(@),
                   !.device_commands = devicecommand_dup(@)]

----------------------------------------------------------------------------
(* Services and their addressables                                         *)

edgex_adminstate_fromstring(str) == IF str = "LOCKED" THEN "LOCKED" ELSE "UNLOCKED"
edgex_operatingstate_fromstring(str) == IF str = "DISABLED" THEN "DISABLED" ELSE "ENABLED"

AddressableStrings ==
  {"address", "method", "name", "password", "path", "protocol", "publisher", "topic", "user"}

Stamps == {"created", "modified"}

addressable_read(obj) ==
  Strings(obj, AddressableStrings \cup {"id"}) @@ Numbers(obj, Stamps \cup {"origin", "port"})

addressable_write(e, create) ==
  (IF create THEN <<>> ELSE set_strings(e, {"id"}) @@ [n \in Stamps |-> e[n]])
    @@ set_strings(e, AddressableStrings) @@ [n \in {"origin", "port"} |-> e[n]]

edgex_addressable_dup(addr) == addr

Counters == {"lastConnected", "lastReported", "origin"}

States(obj) ==
  [adminState |-> edgex_adminstate_fromstring(get_string(obj, "adminState")),
   operatingState |-> edgex_operatingstate_fromstring(get_string(obj, "operatingState"))]

deviceservice_read(obj) ==
  [addressable |-> addressable_read(get_object(obj, "addressable")),
   labels |-> array_to_strings(get_array(obj, "labels"))]
    @@ States(obj) @@ Strings(obj, {"id", "name", "description"})
    @@ Numbers(obj, Stamps \cup Counters)

deviceservice_write(e, create) ==
  (IF create THEN <<>> ELSE set_strings(e, {"id"}) @@ [n \in Stamps |-> e[n]])
    @@ [addressable |-> addressable_write(e.addressable, FALSE),
        labels |-> strings_to_array(e.labels), adminState |-> e.adminState,
        operatingState |-> e.operatingState]
    @@ set_strings(e, {"name", "description"}) @@ [n \in Counters |-> e[n]]

deviceservice_write_name(e) == [name |-> e.name]

edgex_deviceservice_dup(e) ==
  [e EXCEPT !.labels = edgex_strings_dup(@), !.addressable = edgex_addressable_dup(@)]

----------------------------------------------------------------------------
(* Devices                                                                 *)

autoevent_read(obj) ==
  [resource |-> get_string(obj, "resource"), frequency |-> get_string(obj, "frequency"),
   onChange |-> get_boolean(obj, "onChange", FALSE)]

autoevents_write(list) ==
  [i \in DOMAIN list |-> [resource |-> list[i].resource, frequency |-> list[i].frequency,
                          onChange |-> list[i].onChange]]

(* The copies have no timers yet.                                          *)
autoevents_dup(list) == list

device_read(obj) ==
  [protocols |-> protocols_read(get_array(obj, "protocols")),
   labels |-> array_to_strings(get_array(obj, "labels")),
   autos |-> LET array == get_array(obj, "autoEvents") IN
             Reverse([i \in DOMAIN array |-> autoevent_read(array[i])]),
   profile |-> deviceprofile_read(get_object(obj, "profile")),
   service |-> deviceservice_read(get_object(obj, "service"))]
    @@ States(obj) @@ Strings(obj, {"id", "name", "description"})
    @@ Numbers(obj, Stamps \cup Counters)

edgex_devices_read(array) == [i \in DOMAIN array |-> device_read(array[i])]

(* A new device names its profile and its service, any other has them in   *)
(* full.                                                                   *)
device_write(e, create) ==
  (IF create
   THEN [profile |-> deviceprofile_write_name(e.profile), service |-> deviceservice_write_name(e.service),
         lastConnected |-> 0, lastReported |-> 0]
   ELSE [profile |-> deviceprofile_write(e.profile, FALSE), service |-> deviceservice_write(e.service, FALSE)]
          @@ set_strings(e, {"id"}) @@ [n \in Stamps \cup Counters |-> e[n]])
    @@ [protocols |-> protocols_write(e.protocols), autoevents |-> autoevents_write(e.autos),
        adminState |-> e.adminState, operatingState |-> e.operatingState,
        labels |-> strings_to_array(e.labels), origin |-> e.origin]
    @@ set_strings(e, {"name", "description"})

(* What is NULL stays as it is in metadata.                                *)
edgex_device_write_sparse(name, id, description, labels, profile_name) ==
  set_strings([name |-> name, id |-> id, description |-> description],
              {"name", "id", "description"})
    @@ (IF labels = NULL THEN <<>> ELSE [labels |-> strings_to_array(labels)])
    @@ (IF profile_name = NULL THEN <<>> ELSE [profile |-> [name |-> profile_name]])

edgex_device_dup(e) ==
  [e EXCEPT !.labels = edgex_strings_dup(@), !.protocols = edgex_protocols_dup(@),
            !.autos = autoevents_dup(@), !.service = edgex_deviceservice_dup(@),
            !.profile = edgex_deviceprofile_dup(@)]

----------------------------------------------------------------------------
(* Value descriptors, and the one for a resource that core-data is sent;   *)
(* it gets its id from the answer.                                         *)

(* The first letter of the name of a type.                                 *)
Initial ==
  [t \in PropertyTypes |->
     IF t \in {"bool", "binary"} THEN "b" ELSE IF t = "string" THEN "s"
     ELSE IF t \in FloatTypes THEN "f"
     ELSE IF t \in {"int8", "int16", "int32", "int64"} THEN "i" ELSE "u"]

DescriptorStrings ==
  {"defaultValue", "description", "formatting", "id", "max", "min", "name", "type",
   "uomLabel", "mediaType", "floatEncoding"}

valuedescriptor_read(obj) ==
  [labels |-> array_to_strings(get_array(obj, "labels"))]
    @@ Strings(obj, DescriptorStrings) @@ Numbers(obj, Stamps \cup {"origin"})

valuedescriptor_write(e) ==
  [labels |-> strings_to_array(e.labels)]
    @@ set_strings(e, DescriptorStrings) @@ [n \in Stamps \cup {"origin"} |-> e[n]]

ValueDescriptor(res, timenow) ==
  LET value == res.properties.value IN
  [name |-> res.texts.name, description |-> res.texts.description, id |-> NULL, labels |-> <<>>,
   min |-> value.texts.minimum, max |-> value.texts.maximum, type |-> Initial[value.type],
   uomLabel |-> res.properties.units.defaultValue, defaultValue |-> value.texts.defaultValue,
   formatting |-> "%s", mediaType |-> value.texts.mediaType,
   floatEncoding |-> IF value.floatAsBinary THEN "base64" ELSE "eNotation",
   origin |-> timenow, created |-> 0, modified |-> 0]

----------------------------------------------------------------------------
(* Whole texts: one that is no JSON object, for which NULL stands, is not  *)
(* read, and a list of which is no array is empty.                         *)

DocumentKind == {"deviceprofile", "deviceservice", "device", "addressable", "valuedescriptor"}

edgex_deviceprofile_read(json) == IF json = NULL THEN NULL ELSE deviceprofile_read(json)
edgex_deviceservice_read(json) == IF json = NULL THEN NULL ELSE deviceservice_read(json)
edgex_device_read(json) == IF json = NULL THEN NULL ELSE device_read(json)
edgex_addressable_read(json) == IF json = NULL THEN NULL ELSE addressable_read(json)
edgex_valuedescriptor_read(json) == IF json = NULL THEN NULL ELSE valuedescriptor_read(json)

edgex_deviceprofile_write(e, create) == deviceprofile_write(e, create)
edgex_deviceservice_write(e, create) == deviceservice_write(e, create)
edgex_device_write(e, create) == device_write(e, create)
edgex_addressable_write(e, create) == addressable_write(e, create)
edgex_valuedescriptor_write(e) == valuedescriptor_write(e)
=============================================================================
