----------------------------- MODULE Responses -----------------------------
(***************************************************************************)
(* Reading a buffered response (response.rs, json_parser.rs,               *)
(* validate_json.rs, api_response.rs).                                     *)
(*                                                                         *)
(* A response is whether its status is 2xx, the text of its body, its      *)
(* media type and the JSON parser it carries, if any.  A JSON text stands  *)
(* for its value.                                                          *)
(***************************************************************************)
EXTENDS Naturals, Sequences

CONSTANTS
  NotJson,      \* the texts serde_json does not parse
  Shaped,       \* the JSON texts that have the shape of the caller's T
  Valid,        \* those of Shaped that pass garde's rules
  ErrorShaped,  \* the JSON texts that have the shape of the API's error type
  Unprintable,  \* the texts that are not UTF-8 or hold control characters
  Parsers       \* custom parsers: functions from texts to JSON texts

Ok(value)  == [error |-> "none", value |-> value]
Err(error) == [error |-> error, value |-> ""]
AndThen(result, Read(_)) == IF result.error = "none" THEN Read(result.value) ELSE result

ErrorForStatus(response, result) ==
  IF response.success THEN result ELSE Err("Http")

IntoText(response)         == ErrorForStatus(response, Ok(response.text))
IntoBytesChecked(response) == ErrorForStatus(response, Ok(response.text))

(* A custom parser yields a JSON value first; the shape is checked next.   *)
ParsedBy(parser, text) == IF parser = <<>> THEN text ELSE Parsers[parser[1]][text]
Deserialize(text, parser) ==
  IF ParsedBy(parser, text) \in Shaped THEN Ok(ParsedBy(parser, text)) ELSE Err("Deserialize")

DeserializeValidated(text, parser) ==
  AndThen(Deserialize(text, parser),
          LAMBDA value : IF value \in Valid THEN Ok(value) ELSE Err("Validation"))

IntoJsonUnchecked(response) == Deserialize(response.text, response.parser)
IntoJsonAlways(response)    == IntoJsonUnchecked(response)
IntoJson(response)          == ErrorForStatus(response, IntoJsonUnchecked(response))

(* The closure takes the place of the parser that is configured.           *)
IntoJsonWith(response, closure) ==
  ErrorForStatus(response, Deserialize(response.text, <<closure>>))

IntoJsonValidatedUnchecked(response) == DeserializeValidated(response.text, response.parser)
IntoJsonValidated(response) == ErrorForStatus(response, IntoJsonValidatedUnchecked(response))

(* "text/json" is both: a text when it does not parse.                     *)
JsonTypes == {"application/json", "text/json"}
TextTypes == {"text/plain", "text/json", "application/xml"}

BodyByContentType(response) ==
  CASE response.text = "" -> "Empty"
    [] response.text # "" /\ response.type \in JsonTypes /\ response.text \notin NotJson -> "Json"
    [] response.text # "" /\ ~(response.type \in JsonTypes /\ response.text \notin NotJson) ->
         IF response.type \in TextTypes \/ (response.type = "" /\ response.text \notin Unprintable)
         THEN "Text" ELSE "Bytes"

(* The error's body is serde_json's to parse, whatever parser is set.      *)
IntoApiResult(response) ==
  IF response.success THEN IntoJson(response)
  ELSE IF response.text \in ErrorShaped THEN [error |-> "api", value |-> response.text]
       ELSE Err("Http")

=============================================================================
