----------------------------- MODULE SandboxReplay -----------------------------
(***************************************************************************)
(* The recorder of supplier traffic and its replay (packages/sandbox-      *)
(* replay: fingerprint.ts, sanitize.ts, store.ts, transport.ts).  A request *)
(* is a method, a path, named fields in its query and its body, and a      *)
(* value of each of its headers; a credential shape inside other text, the *)
(* casing of names and the layout of a body are left out, and distinct     *)
(* canonical requests hash apart.                                          *)
(***************************************************************************)
EXTENDS Naturals, Sequences, FiniteSets, Functions

CONSTANTS VolatileParams,           \* DEFAULT_VOLATILE_PARAMS and the adapter's own
          RedactedParams,           \* DEFAULT_REDACTED_PARAMS and the adapter's own
          RedactedKeys,             \* what DEFAULT_REDACTED_KEY_PATTERN or bodyKeys match
          RedactedHeaders, UnreplayableHeaders, SchemaVersion

Field(name, value) == [name |-> name, value |-> value]

\* The fields with the values of some names blanked, their presence kept.
Blanked(fields, names, mark) ==
    [i \in DOMAIN fields |->
        IF fields[i].name \in names THEN Field(fields[i].name, mark) ELSE fields[i]]
------------------------------------------------------------------------------
(* fingerprint.ts                                                          *)

\* The names of fingerprint.ts alone.
ClocksOnly == VolatileParams                                         \* mutant

\* fingerprintOptions: names of credentials are volatile in a query and a body.
VolatileNames == VolatileParams \cup RedactedParams

\* Sorted by name, and stably: each value with its place among those of its
\* name.
NormalizeUrl(query) ==
    LET normal == Blanked(query, VolatileNames, "~")
        Place(i) == Cardinality({j \in 1..i : normal[j].name = normal[i].name})
    IN  {<<normal[i].name, Place(i), normal[i].value>> : i \in DOMAIN normal}

\* The keys of JSON have no order, the elements of XML have one, and any other
\* text is hashed as it stands.
CanonicalizeBody(body) ==
    LET normal == Blanked(body.fields, VolatileNames, "~")
    IN  CASE body.form = "none" -> [keys |-> {}, text |-> <<>>]
          [] body.form = "json" -> [keys |-> {normal[i] : i \in DOMAIN normal}, text |-> <<>>]
          [] body.form = "xml"  -> [keys |-> {}, text |-> normal]
          [] body.form = "urlencoded" -> [keys |-> {}, text |-> body.fields]

FingerprintRequest(request) ==
    [method |-> request.method, path |-> request.path, query |-> NormalizeUrl(request.query),
     form |-> request.body.form, body |-> CanonicalizeBody(request.body)]
------------------------------------------------------------------------------
(* sanitize.ts                                                             *)

Redacted == "[REDACTED]"

SanitizeHeaders(headers) ==
    [name \in DOMAIN headers |-> IF name \in RedactedHeaders THEN Redacted ELSE headers[name]]

SanitizeUrl(query) == Blanked(query, RedactedParams, Redacted)

\* A form is redacted by both lists, JSON and XML by the key pattern.
SanitizeBody(body) ==
    [body EXCEPT !.fields =
        Blanked(@, IF body.form = "urlencoded" THEN RedactedKeys \cup RedactedParams ELSE RedactedKeys,
                Redacted)]

\* The one gate before recordings/.
SanitizeRecording(recording) ==
    LET request  == recording.request
        response == recording.response
    IN  [recording EXCEPT
            !.request  = [request EXCEPT !.query   = SanitizeUrl(request.query),
                                         !.headers = SanitizeHeaders(request.headers),
                                         !.body    = SanitizeBody(request.body)],
            !.response = [response EXCEPT !.headers = SanitizeHeaders(response.headers),
                                          !.body    = SanitizeBody(response.body)]]
------------------------------------------------------------------------------
(* store.ts and transport.ts                                               *)

\* writeRecordingFile: the file is named by the fingerprint and overwritten.
WriteRecordingFile(files, recording) ==
    {file \in files : file.fingerprint # recording.fingerprint} \cup {recording}

ReconstructResponse(recording) ==
    [recording.response EXCEPT
        !.headers = Restrict(@, DOMAIN @ \ UnreplayableHeaders)]

\* Only text bodies are recorded or replayed.
Text(body) == body.form \in {"none", "json", "xml", "urlencoded"}

\* Record mode once the supplier answered: the raw capture, the sanitized file,
\* and the real answer to the caller.  CI records from an injected transport.
Record(store, request, response, ci, injected) ==
    LET capture == [schemaVersion |-> SchemaVersion, fingerprint |-> FingerprintRequest(request),
                    request |-> request, response |-> response]
    IN  IF (ci /\ ~injected) \/ ~Text(request.body) THEN {}
        ELSE {[store  |-> [captures   |-> WriteRecordingFile(store.captures, capture),
                           recordings |-> WriteRecordingFile(store.recordings, SanitizeRecording(capture))],
               answer |-> ReconstructResponse(capture)]}

\* Replay mode, and readRecordingFile: the answer from recordings alone; the
\* empty set where it throws - a miss, another version, no text.
Replay(recordings, request) ==
    {ReconstructResponse(recording) :
        recording \in {file \in recordings :
            /\ Text(request.body)
            /\ file.fingerprint = FingerprintRequest(request)
            /\ file.schemaVersion = SchemaVersion}}
==============================================================================
