------------------------------- MODULE TypedData -------------------------------
(***************************************************************************)
(* The typed models above Google's string parameters and form inputs:      *)
(* ActionData (actions.py) and FormModel (forms.py), with the filters that *)
(* hand them to a handler.                                                 *)
(*                                                                         *)
(* A Python value is its type, the text of its canonical value and what    *)
(* str() makes of it.  A model is a function from the names of its fields  *)
(* to their type and default; Required is the default of a field that has  *)
(* none.                                                                   *)
(***************************************************************************)
EXTENDS Interactions

CONSTANTS
    Required,
    IntTexts, FloatTexts,   \* the texts that read as a number, with its canonical text
    Members                 \* the members of the Enum types of fields

\* int(str(n)) is n, and so it is with repr() and float().
ASSUME NumbersAssumption ==
    \A texts \in {IntTexts, FloatTexts} : \A t \in DOMAIN texts :
        texts[t] \in DOMAIN texts /\ texts[texts[t]] = texts[t]

\* No two members have values that read alike.  str() gives the value of a member
\* of IntEnum and StrEnum; "int mixin" is a class Level(int, Enum).
ASSUME MembersAssumption ==
    /\ DOMAIN Members = {"enum", "str enum", "int enum", "int mixin"}
    /\ \A kind \in DOMAIN Members :
        /\ \A member \in Members[kind] : member.type = kind
        /\ \A a, b \in Members[kind] : a.text = b.text => a = b
    /\ \A member \in Members["int enum"] : member.str = member.text

NoneValue == [type |-> "none", text |-> "None", str |-> "None"]

\* bool is an int and may be an Enum too: what isinstance says of a value.
IsInt(value) == value.type \in {"bool", "int", "int enum", "int mixin"}

\* Faulty: the int branch comes before the bool branch.
EncodeIntFirst(value) == IF IsInt(value) THEN value.str ELSE value.text

\* Values of another type, and floats that are not finite, raise TypeError when
\* the card is built: no click carries them.
_encode_value(value) ==
    IF IsInt(value) /\ value.type # "bool" THEN value.str ELSE value.text

Written(kind, text) == [type |-> kind, text |-> text, str |-> text]

Booleans ==
    {[type |-> "bool", text |-> "true", str |-> "True"],
     [type |-> "bool", text |-> "false", str |-> "False"]}

\* _decode_value: the values that the text stands for, none when it raises.
_decode_value(text, kind) ==
    CASE kind = "str" -> {Written("str", text)}
      [] kind = "int" -> {Written("int", IntTexts[t]) : t \in {text} \cap DOMAIN IntTexts}
      [] kind = "float" -> {Written("float", FloatTexts[t]) : t \in {text} \cap DOMAIN FloatTexts}
      [] kind = "bool" -> {value \in Booleans : value.text = text}
      [] kind \in DOMAIN Members -> {member \in Members[kind] : member.text = text}
      [] OTHER -> {}

\* to_parameters leaves an optional field out when it is None.
to_parameters(instance) ==
    [field \in {f \in DOMAIN instance : instance[f] # NoneValue} |-> _encode_value(instance[field])]

_required_field_names(model) == {field \in DOMAIN model : model[field].default = Required}

\* from_parameters raises ActionDataDecodeError.
Undecodable(model, parameters) ==
    \E field \in DOMAIN model :
        IF field \in DOMAIN parameters
        THEN _decode_value(parameters[field], model[field].type) = {}
        ELSE field \in _required_field_names(model)

\* Parameters that the model does not name are ignored.
from_parameters(model, parameters) ==
    [field \in DOMAIN model |->
        IF field \in DOMAIN parameters
        THEN CHOOSE value \in _decode_value(parameters[field], model[field].type) : TRUE
        ELSE model[field].default]

\* ActionDataFilter: the data that the handler gets, none when it is passed over.
ActionDataFilter(model, event) ==
    IF event.class # "ActionEvent" \/ Undecodable(model, event.parameters) THEN {}
    ELSE {from_parameters(model, event.parameters)}

\* The values that a field of this type can have.
Holds(kind, value) ==
    \/ kind = "str" /\ value = Written("str", value.text)
    \/ kind = "int" /\ \E t \in DOMAIN IntTexts : value = Written("int", IntTexts[t])
    \/ kind = "float" /\ \E t \in DOMAIN FloatTexts : value = Written("float", FloatTexts[t])
    \/ kind = "bool" /\ value \in Booleans
    \/ kind \in DOMAIN Members /\ value \in Members[kind]

--------------------------------------------------------------------------------
\* A form model names the kind of input of each field.

FormUndecodable(model, inputs) ==
    \E field \in DOMAIN model :
        IF field \in DOMAIN inputs
        THEN inputs[field].kind # model[field].type
        ELSE field \in _required_field_names(model)

from_form_inputs(model, inputs) ==
    [field \in DOMAIN model |->
        IF field \in DOMAIN inputs THEN inputs[field] ELSE model[field].default]

\* FormFilter takes the submits of dialogs and of App Home.
FormFilter(model, event) ==
    IF \/ event.class \notin {"ActionEvent", "FormSubmitEvent"}
       \/ FormUndecodable(model, event.form_inputs)
    THEN {}
    ELSE {from_form_inputs(model, event.form_inputs)}
===============================================================================
