------------------------------ MODULE Rewriting ------------------------------
(***************************************************************************)
(* A document that the SDK reads, copies and writes again, as often as one *)
(* likes, and the value descriptors that it makes of a profile: what one   *)
(* part of edgex-rest.c writes another part must be able to read.          *)
(***************************************************************************)
EXTENDS Documents

CONSTANTS
  Paper,        \* Paper[d]: the texts of documents of kind d, NULL for no JSON object
  MaxRewrites   \* bound on how often a document is written

VARIABLES
  document,     \* the kind of the document
  json,         \* its text
  kept,         \* the structure that was read from it, or NULL
  written,      \* how it was written from that: as new ("create"), "whole" or not
  rewrites      \* number of times it was written

rewritingVars == <<document, json, kept, written, rewrites>>

RewritingInit ==
  /\ document \in DocumentKind /\ json \in Paper[document]
  /\ kept = NULL /\ written = NULL /\ rewrites = 0

ReadAs(d, text) ==
  CASE d = "deviceprofile" -> edgex_deviceprofile_read(text)
    [] d = "deviceservice" -> edgex_deviceservice_read(text)
    [] d = "device" -> edgex_device_read(text)
    [] d = "addressable" -> edgex_addressable_read(text)
    [] d = "valuedescriptor" -> edgex_valuedescriptor_read(text)

WriteAs(d, e, create) ==
  CASE d = "deviceprofile" -> edgex_deviceprofile_write(e, create)
    [] d = "deviceservice" -> edgex_deviceservice_write(e, create)
    [] d = "device" -> edgex_device_write(e, create)
    [] d = "addressable" -> edgex_addressable_write(e, create)
    [] d = "valuedescriptor" -> edgex_valuedescriptor_write(e)

CopyOf(d, e) ==
  CASE d = "deviceprofile" -> edgex_deviceprofile_dup(e)
    [] d = "deviceservice" -> edgex_deviceservice_dup(e)
    [] d = "device" -> edgex_device_dup(e)
    [] d = "addressable" -> edgex_addressable_dup(e)
    [] d = "valuedescriptor" -> e

Read ==
  /\ kept = NULL \/ written # NULL
  /\ kept' = ReadAs(document, json) /\ kept' # kept
  /\ written' = NULL /\ UNCHANGED <<document, json, rewrites>>

(* The copy that the application gets is what may be written.              *)
Write ==
  /\ kept \notin {NULL, Trap} /\ written = NULL /\ rewrites < MaxRewrites
  /\ \E create \in BOOLEAN :
       /\ json' = WriteAs(document, CopyOf(document, kept), create)
       /\ written' = IF create THEN "create" ELSE "whole"
  /\ rewrites' = rewrites + 1 /\ UNCHANGED <<document, kept>>

(* generate_value_descriptors, for one resource of a profile.              *)
Describe ==
  /\ document = "deviceprofile" /\ kept \notin {NULL, Trap} /\ written = NULL
  /\ \E i \in DOMAIN kept.device_resources :
       kept' = ValueDescriptor(kept.device_resources[i], 1)
  /\ document' = "valuedescriptor"
  /\ json' = edgex_valuedescriptor_write(kept') /\ written' = "create"
  /\ UNCHANGED rewrites

RewritingNext == Read \/ Write \/ Describe

----------------------------------------------------------------------------
(* What writing and reading leaves of a structure.  Dictionaries come back *)
(* in the other order.                                                     *)

Nameless(e) == [e EXCEPT !.id = "", !.created = 0, !.modified = 0]

(* A value that can be neither read nor written is taken for one that can  *)
(* be both, and a small number for zero.                                   *)
FadedValue(value) ==
  [value EXCEPT
     !.access = IF ~@.readable /\ ~@.writable THEN [readable |-> TRUE, writable |-> TRUE] ELSE @,
     !.args = [a \in DOMAIN @ |-> IF value.type \in FloatTypes /\ @[a] # "" THEN Real[Printed[@[a]]]
                                  ELSE @[a]]]

FadedResource(r) ==
  [r EXCEPT !.attributes = Reverse(@), !.properties.value = FadedValue(@)]

FadedOperations(list) == [i \in DOMAIN list |-> [list[i] EXCEPT !.mappings = Reverse(@)]]

(* The operations that get are found among those that set.                 *)
FadedProfile(e, create) ==
  [e EXCEPT
     !.texts.id = IF create THEN "" ELSE @,
     !.numbers = IF create THEN [@ EXCEPT !.created = 0, !.modified = 0] ELSE @,
     !.device_resources = [i \in DOMAIN @ |-> FadedResource(@[i])],
     !.device_commands = [i \in DOMAIN @ |->
       [@[i] EXCEPT !.set = FadedOperations(@ \o e.device_commands[i].get), !.get = <<>>]]]

(* The copy has the protocols in the other order already.                  *)
FadedProtocols(list) == [i \in DOMAIN list |-> [list[i] EXCEPT !.properties = Reverse(@)]]

(* The field of the autoevents is not spelled as it is read.  (Metadata    *)
(* does not mind and corrects it.)                                         *)
FadedDevice(e, create) ==
  LET same == [e EXCEPT !.autos = <<>>, !.protocols = FadedProtocols(@)] IN
  IF create
  THEN [Nameless(same) EXCEPT !.lastConnected = 0, !.lastReported = 0,
          !.profile = deviceprofile_read([name |-> @.name]),
          !.service = deviceservice_read([name |-> @.name])]
  ELSE [same EXCEPT !.profile = FadedProfile(@, FALSE)]

Faded(d, e, create) ==
  CASE d = "deviceprofile" -> FadedProfile(e, create)
    [] d = "device" -> FadedDevice(e, create)
    [] d \in {"deviceservice", "addressable"} -> IF create THEN Nameless(e) ELSE e
    [] d = "valuedescriptor" -> IF e.id = NULL THEN [e EXCEPT !.id = ""] ELSE e

(* edgex-rest.c: every document that is written is read back as it was, in *)
(* every field, nested or in a list, but for what Faded says.              *)
DocumentsReadBack ==
  written # NULL => ReadAs(document, json) = Faded(document, kept, written = "create")
=============================================================================
