----------------------------- MODULE Transports -----------------------------
(***************************************************************************)
(* How requests are carried: the HTTP client, with its response codes and  *)
(* the canonical status codes they stand for (codes.cc) and one transfer   *)
(* (curl_client.cc), in which libcurl calls back with what it receives;    *)
(* and the gRPC transport (grpc.cc), with those that log and measure it.   *)
(***************************************************************************)
EXTENDS Integers, Sequences, TLC

J == INSTANCE Json

\* HTTP_CODE_UNDEFINED
Undefined == 0

\* kResponseCodes
ResponseCodes ==
  (100 .. 102) \union (200 .. 208) \union {226} \union (300 .. 305) \union {307, 308}
    \union (400 .. 418) \union (421 .. 426) \union {428, 429, 431, 451, 499} \union (500 .. 511)

HttpResponseCodeFromInt(code) == IF code \in ResponseCodes THEN code ELSE Undefined

HttpResponseCodeToCanonical(code) ==
  CASE code = 400 -> "InvalidArgument"
    [] code = 401 -> "Unauthenticated"
    [] code = 403 -> "PermissionDenied"
    [] code = 404 -> "NotFound"
    [] code = 409 -> "Aborted"
    [] code = 416 -> "OutOfRange"
    [] code = 429 -> "ResourceExhausted"
    [] code = 499 -> "Cancelled"
    [] code = 501 -> "Unimplemented"
    [] code = 503 -> "Unavailable"
    [] code = 504 -> "DeadlineExceeded"
    [] OTHER -> CASE code \in 200 .. 299 -> "Ok"
                  [] code \in 400 .. 499 -> "FailedPrecondition"
                  [] code \in 500 .. 599 -> "Internal"
                  [] OTHER -> "Unknown"

-----------------------------------------------------------------------------
(* A transfer t says what libcurl receives: its events are status lines,   *)
(* header fields, blank lines, pieces of the body and calls for progress,  *)
(* and perform is the code it ends with if nothing stops it.  A transfer   *)
(* may have a handler; it is cancelled from the event t.cancel on, refuses *)
(* the response with t.on_headers, and fails at its t.fails-th piece.      *)

NewContext == [status |-> "Ok", response |-> <<>>, body |-> <<>>, headers |-> <<>>, code |-> 0, calls |-> <<>>, perform |-> <<>>]

IsCancelled(t, i) == t.handler /\ i >= t.cancel

\* Mutant of GetResponse: every block of headers makes a response.
GetResponseAgain(t, c) ==
  [c EXCEPT !.response = <<[code |-> c.code, body |-> c.body, headers |-> c.headers]>>,
            !.status = IF t.handler THEN t.on_headers ELSE @,
            !.calls = IF t.handler THEN Append(@, [headers |-> c.code]) ELSE @]

\* The response is made once, of what has been received by then.
GetResponse(t, c) ==
  IF c.response # <<>> THEN c
  ELSE [c EXCEPT !.response = <<[code |-> c.code, body |-> c.body, headers |-> c.headers]>>,
                 !.status = IF t.handler THEN t.on_headers ELSE @,
                 !.calls = IF t.handler THEN Append(@, [headers |-> c.code]) ELSE @]

\* A callback that returns another size than it was given ends the transfer.
StopOnError(c) == IF c.status = "Ok" THEN c ELSE [c EXCEPT !.perform = <<"WRITE_ERROR">>]

\* The first value of a header stays.  A status line has no value.
HeaderCallback(t, c, i) ==
  LET line == t.events[i] IN
  CASE line.kind = "field" -> [c EXCEPT !.headers = @ @@ (line.key :> line.value)]
    [] line.kind = "status" -> [c EXCEPT !.code = line.code]
    [] line.kind = "blank" /\ t.handler /\ ~IsCancelled(t, i) -> StopOnError(GetResponse(t, c))
    [] OTHER -> c

HandleBodyData(t, c, i) ==
  LET data == t.events[i].data
      pieces == Len(SelectSeq(c.calls, LAMBDA call : "data" \in DOMAIN call))
  IN CASE ~t.handler -> [c EXCEPT !.body = Append(@, data)]
       [] IsCancelled(t, i) -> c
       [] OTHER -> [c EXCEPT !.calls = Append(@, [data |-> data]),
                             !.status = IF pieces + 1 = t.fails THEN "DataLoss" ELSE "Ok"]

BodyCallback(t, c, i) == StopOnError(HandleBodyData(t, c, i))

ProgressCallback(t, c, i) == IF IsCancelled(t, i) THEN [c EXCEPT !.perform = <<"ABORTED_BY_CALLBACK">>] ELSE c

RECURSIVE Perform(_, _, _)
\* curl_easy_perform, as far as the client sees it.
Perform(t, c, i) ==
  CASE c.perform # <<>> -> c
    [] i > Len(t.events) -> [c EXCEPT !.perform = <<t.perform>>]
    [] t.events[i].kind = "body" -> Perform(t, BodyCallback(t, c, i), i + 1)
    [] t.events[i].kind = "progress" -> Perform(t, ProgressCallback(t, c, i), i + 1)
    [] OTHER -> Perform(t, HeaderCallback(t, c, i), i + 1)

Outcome(status, c) == [status |-> status, calls |-> c.calls, response |-> c.response]
\* The code that curl_easy_perform returned is looked at after the handler's
\* status.  The status of the last call of GetResponse is not.
Finished(t, c) ==
  CASE c.status # "Ok" -> Outcome(c.status, c)
    [] c.perform = <<"ABORTED_BY_CALLBACK">> -> Outcome("Cancelled", c)
    [] c.perform = <<"OPERATION_TIMEDOUT">> -> Outcome("Unavailable", c)
    [] c.perform # <<"OK">> -> Outcome("Internal", c)
    [] IsCancelled(t, Len(t.events) + 1) -> Outcome("Cancelled", c)
    [] OTHER -> Outcome("Ok", GetResponse(t, c))

\* The request is made first: t.made is what fails of that, if anything, the
\* handle or the list of its headers.  The options of the handle are left out.
HttpMethod(t) ==
  CASE t.made = "no handle" -> Outcome("Internal", NewContext)
    [] t.made = "no headers" -> Outcome("ResourceExhausted", NewContext)
    [] OTHER -> Finished(t, Perform(t, NewContext, 1))

-----------------------------------------------------------------------------
(* struct_proto_conversion.cc.  A protobuf value is a record named for the *)
(* kind of it that is set; its numbers are doubles, here in tenths.        *)

RECURSIVE ValueToJson(_)
ValueToJson(v) ==
  LET kind == CHOOSE k \in DOMAIN v : TRUE IN
  CASE kind = "null_value" -> J!Null
    [] kind = "number_value" -> J!Float(v.number_value)
    [] kind = "string_value" -> J!Str(v.string_value)
    [] kind = "bool_value" -> J!Bool(v.bool_value)
    [] kind = "struct_value" -> J!Obj([n \in DOMAIN v.struct_value |-> ValueToJson(v.struct_value[n])])
    [] kind = "list_value" -> J!Arr([i \in DOMAIN v.list_value |-> ValueToJson(v.list_value[i])])
    [] kind = "not_set" -> J!Obj(<<>>)
StructToJson(fields) == J!Obj([n \in DOMAIN fields |-> ValueToJson(fields[n])])

RECURSIVE JsonToValue(_)
JsonToValue(j) ==
  CASE J!Tag(j) = "null" -> [null_value |-> 0]
    [] J!Tag(j) = "int" -> [number_value |-> 10 * j.int]
    [] J!Tag(j) = "float" -> [number_value |-> j.float]
    [] J!Tag(j) = "string" -> [string_value |-> j.string]
    [] J!Tag(j) = "bool" -> [bool_value |-> j.bool]
    [] J!IsObject(j) -> [struct_value |-> [n \in DOMAIN j.object |-> JsonToValue(j.object[n])]]
    [] J!IsArray(j) -> [list_value |-> [i \in DOMAIN j.array |-> JsonToValue(j.array[i])]]
    [] OTHER -> [not_set |-> 0]
\* The fields of what is no object are none.
JsonToStruct(j) == IF J!IsObject(j) THEN [n \in DOMAIN j.object |-> JsonToValue(j.object[n])] ELSE <<>>

-----------------------------------------------------------------------------
(* grpc.cc.  An endpoint is [scheme, host, port]; port is "none" where     *)
(* there is no colon, "" where nothing follows it, "word" for letters.     *)
(* unix_in_name: a plain or dns name that ends in "unix".                  *)

ValidateEndpoint(e) ==
  CASE e.scheme = "unix" -> IF e.port # "none" THEN "InvalidArgument" ELSE "Ok"
    [] e.scheme = "google" -> "Ok"
    [] OTHER -> IF e.port \in {"none", "", "word"} THEN "InvalidArgument" ELSE "Ok"

\* The name without scheme and port; the whole text where it has "unix:" in it.
EndpointToFqdn(e) ==
  CASE e.scheme = "unix" \/ (e.unix_in_name /\ e.port # "none") -> e
    [] e.scheme = "google" /\ ~e.unix_in_name -> [e EXCEPT !.scheme = ""]
    [] OTHER -> [e EXCEPT !.scheme = "", !.port = "none"]

\* connected: when the channel is, if that is waited for.
CreateGrpcRedfishTransport(e, wait, connected) ==
  IF ValidateEndpoint(e) # "Ok" THEN ValidateEndpoint(e)
  ELSE IF wait # <<>> /\ connected > wait[1] THEN "DeadlineExceeded" ELSE "Ok"

\* A call t has its operation, with its path, data, headers and timeout; and
\* says how the server answers: when, with which status and which response.
\* Data is JSON, or a blob; a body without it is <<>>, an empty text too.
Infinite == 99
Sent(request, deadline, status, took, result) ==
  [request |-> request, deadline |-> deadline, status |-> status, took |-> took, result |-> result]
NotSent(status) == Sent(<<>>, 0, status, 0, <<>>)

\* The headers are inserted one after the other: the first of a name stays.
RequestFor(t, octet_stream, headers) ==
  [url |-> t.path,
   headers |-> ("Host" :> t.fqdn) @@ headers
                 @@ (IF t.max_age = Infinite THEN <<>> ELSE "BMCWEB_HINT_MAX_AGE_SEC" :> t.max_age),
   octet_stream |-> IF octet_stream THEN t.data ELSE <<>>,
   json_str |-> IF octet_stream THEN <<>> ELSE t.data,
   json |-> IF octet_stream \/ t.data = <<>> THEN <<>>
            ELSE <<IF J!IsObject(t.data[1]) THEN JsonToStruct(t.data[1]) ELSE <<>>>>]

\* What a response has one of: a Struct, bytes, or a text, which is parsed.
BodyOf(response) ==
  CASE "json" \in DOMAIN response -> StructToJson(response.json)
    [] "octet_stream" \in DOMAIN response -> [bytes |-> response.octet_stream]
    [] "json_str" \in DOMAIN response -> response.json_str
    [] OTHER -> J!Discarded
ResultOf(response) == [code |-> response.code, headers |-> response.headers, body |-> BodyOf(response)]

\* The deadline is set to that of the transport, and then by the operation.
DoRpc(t, octet_stream, headers, timeout) ==
  LET late == t.takes > timeout
      status == IF late THEN "DeadlineExceeded" ELSE t.status
  IN  Sent(<<RequestFor(t, octet_stream, headers)>>, timeout, status, IF late THEN timeout ELSE t.takes,
           IF status = "Ok" THEN <<ResultOf(t.response)>> ELSE <<>>)

WithoutData(t) == [t EXCEPT !.data = <<>>]
Get(t) == DoRpc(WithoutData(t), FALSE, <<>>, t.default)
GetWithin(t) ==
  IF t.timeout <= 0 THEN NotSent("DeadlineExceeded")
  ELSE IF t.timeout = Infinite THEN NotSent("InvalidArgument")
  ELSE DoRpc(WithoutData(t), FALSE, <<>>, t.timeout)
PostWith(t, octet_stream, timeout, headers) == DoRpc(t, octet_stream, headers, timeout)
Post(t) == PostWith(t, FALSE, t.default, <<>>)
Patch(t) == DoRpc(t, FALSE, <<>>, t.default)
Delete(t) == DoRpc(t, FALSE, <<>>, t.default)
Put(t) == DoRpc(t, FALSE, <<>>, t.default)
GrpcRedfishTransport(t) ==
  CASE t.op = "Get" -> Get(t)
    [] t.op = "GetWithin" -> GetWithin(t)
    [] t.op = "Post" -> Post(t)
    [] t.op = "PostWith" -> PostWith(t, TRUE, t.timeout, t.headers)
    [] t.op = "Patch" -> Patch(t)
    [] t.op = "Delete" -> Delete(t)
    [] t.op = "Put" -> Put(t)

RECURSIVE OnReadDone(_, _)
\* Events come until a read fails.  One that holds a Struct is not decoded.
OnReadDone(reads, calls) ==
  IF reads = <<>> \/ ~Head(reads).ok THEN calls
  ELSE OnReadDone(Tail(reads), Append(calls, [event |-> IF "json" \in DOMAIN Head(reads).response THEN J!Discarded
                                                       ELSE BodyOf(Head(reads).response)]))
\* Nothing is read before StartStreaming; OnDone comes after everything else.
Subscribe(t) == IF ~t.started THEN <<>> ELSE Append(OnReadDone(t.reads, <<>>), [stop |-> t.status])

-----------------------------------------------------------------------------
(* interface.h, logged_transport.cc and metrical_transport.cc.  A stack is *)
(* a sequence of transports, each over the next; under the last there may  *)
(* be none at all.  The metrics of a thread are those of all its           *)
(* transports.                                                             *)

\* Post with a timeout and headers: only the gRPC transport overrides it.
RedfishTransportPost == NotSent("Unimplemented")
NullTransport(t) == IF t.op = "PostWith" THEN RedfishTransportPost ELSE NotSent("Internal")

\* ~RedfishTrace
NoMetadata == [count |-> 0, min |-> 0, max |-> 0]
Measured(m, took) ==
  IF m.count = 0 THEN [count |-> 1, min |-> took, max |-> took]
  ELSE [count |-> m.count + 1, min |-> IF took < m.min THEN took ELSE m.min, max |-> IF took > m.max THEN took ELSE m.max]
Type(t) == IF t.op = "GetWithin" THEN "Get" ELSE t.op
RedfishTrace(metrics, t, out) ==
  LET key == <<t.path, Type(t), IF out.status = "Ok" THEN "metadata" ELSE "metadata_failures">> IN
  (key :> Measured(IF key \in DOMAIN metrics THEN metrics[key] ELSE NoMetadata, out.took)) @@ metrics
ResetMetrics == <<>>

RECURSIVE Carry(_, _, _)
\* MetricalRedfishTransport and RedfishLoggedTransport over the rest of stack.
Decorated(top, t, below) ==
  [out |-> below.out,
   metrics |-> IF top = "metrical" THEN RedfishTrace(below.metrics, t, below.out) ELSE below.metrics]
Carry(stack, t, metrics) ==
  CASE Head(stack) = "grpc" -> [out |-> GrpcRedfishTransport(t), metrics |-> metrics]
    [] Head(stack) = "null" -> [out |-> NullTransport(t), metrics |-> metrics]
    [] OTHER ->
         IF t.op = "PostWith" THEN [out |-> RedfishTransportPost, metrics |-> metrics]
         ELSE IF Len(stack) = 1
         THEN [out |-> NotSent(IF t.op = "Put" THEN "Internal" ELSE "CHECK failed"), metrics |-> metrics]
         ELSE Decorated(Head(stack), t, Carry(Tail(stack), t, metrics))
=============================================================================
