---------------------------- MODULE JsonRpcUtils ----------------------------
(***************************************************************************)
(* The body of an HTTP response as JSON-RPC (jsonrpc/utils.cpp and         *)
(* validateResponse in nxos_http_client.cpp).  A body is a document: one   *)
(* response object or an array of them, or something else.  What matters   *)
(* of a response is whether it has an error, an id and a result.           *)
(***************************************************************************)
EXTENDS FiniteSetsExt, Sequences, Integers

DocForms == {"empty", "unparsable", "scalar", "object", "array"}

Response(error, id, result) == [error |-> error, id |-> id, result |-> result]

(* Whatever an error object holds, fromJson makes a JsonRpcException of it. *)
Errors  == {"none", "object", "string"}
Ids     == {"none", "null", "int", "string"}
Results == {"missing", "null", "scalar", "noBody", "body"}

(* What looking at one response comes to: "ok", a JsonRpcException         *)
(* ("rpc"), another exception ("thrown": get<int>() of null), or reading   *)
(* a missing member through a const operator[] ("undefined").              *)
validator(response) ==
    CASE response.error # "none"       -> "rpc"
      [] response.error = "none" /\ response.id = "none" -> "rpc"
      [] response.error = "none" /\ response.id = "null" -> "thrown"
      [] response.error = "none" /\ response.id \in {"int", "string"} ->
            IF response.result = "missing" THEN "undefined" ELSE "ok"

Rejected(responses) == {i \in DOMAIN responses : validator(responses[i]) # "ok"}

Outcome(verdict, responses) == [verdict |-> verdict, responses |-> responses]

(* Mutation of Validate: it looks at the first response only.              *)
ValidateFirst(responses) ==
    IF responses = <<>> \/ validator(responses[1]) = "ok"
    THEN Outcome("ok", responses)
    ELSE Outcome(validator(responses[1]), <<>>)

(* The responses in order, up to the first that is not as it should be.    *)
Validate(responses) ==
    IF Rejected(responses) = {}
    THEN Outcome("ok", responses)
    ELSE Outcome(validator(responses[Min(Rejected(responses))]), <<>>)

(* `auto parsed{json::parse(...)}' and `auto inner{parsed[0]}' wrap once   *)
(* more each with GCC, so that inner[0] is the document: an object or an   *)
(* array of responses is looked at, anything else is passed over.  Without *)
(* wrapping inner is the first response and inner[0] throws, unless the    *)
(* array is empty; a document that is no array is looked at as it is.      *)
handleResponse(doc, wraps) ==
    CASE doc.form = "unparsable" -> Outcome("rpc", <<>>)
      [] doc.form = "object"     -> Validate(doc.responses)
      [] doc.form = "scalar"     -> Outcome(IF wraps THEN "ok" ELSE "rpc", <<>>)
      [] doc.form = "array"      ->
            IF wraps \/ doc.responses = <<>>
            THEN Validate(doc.responses)
            ELSE Outcome("thrown", <<>>)

(* An empty body is a BadValue.                                            *)
validateResponse(doc, wraps) ==
    IF doc.form = "empty" THEN Outcome("thrown", <<>>) ELSE handleResponse(doc, wraps)

=============================================================================
