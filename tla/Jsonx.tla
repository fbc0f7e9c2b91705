------------------------------- MODULE Jsonx -------------------------------
(***************************************************************************)
(* The reading functions of jsonx.c.  A JSON value is [type, v], the v of   *)
(* an object its members in order, of an array its items.  json-c keeps a    *)
(* JSON null as a NULL pointer, and one member for each key.  A function     *)
(* that returns a code and sets *out is the value it sets, or NULL.          *)
(***************************************************************************)
EXTENDS Integers, SequencesExt, StrbufOps

CONSTANT Malformed  \* a text that json-c refuses

Value(type, v)    == [type |-> type, v |-> v]
Member(key, val)  == [key |-> key, val |-> val]
IsType(obj, type) == obj # NULL /\ obj.type = type

\* A text that means null comes out like one that is refused.
jsonx_parse(text) == IF text = Malformed THEN NULL ELSE text

jsonx_is_object(obj) == IsType(obj, "object")
jsonx_is_array(obj)  == IsType(obj, "array")
jsonx_is_string(obj) == IsType(obj, "string")

jsonx_obj_get(obj, key) ==
    LET at == IF jsonx_is_object(obj) THEN {k \in DOMAIN obj.v : obj.v[k].key = key} ELSE {} IN
    IF at = {} THEN NULL ELSE obj.v[CHOOSE k \in at : TRUE].val

jsonx_arr_get(obj, index) ==
    IF jsonx_is_array(obj) /\ index \in 0..(Len(obj.v) - 1) THEN obj.v[index + 1] ELSE NULL

jsonx_get_string(obj, key) ==
    LET v == jsonx_obj_get(obj, key) IN IF jsonx_is_string(v) THEN v.v ELSE NULL

jsonx_get_int(obj, key) ==
    LET v == jsonx_obj_get(obj, key) IN IF IsType(v, "int") THEN v.v ELSE NULL

jsonx_get_obj(obj, key) ==
    LET v == jsonx_obj_get(obj, key) IN IF jsonx_is_object(v) THEN v ELSE NULL

\* The member at an index from 0, which moves on; NULL behind the last.
jsonx_obj_entries(obj, index) ==
    IF jsonx_is_object(obj) /\ index \in 0..(Len(obj.v) - 1)
    THEN [member |-> obj.v[index + 1], index |-> index + 1]
    ELSE NULL
=============================================================================
