------------------------------ MODULE MCAlgorithms ------------------------------
(***************************************************************************)
(* The pure algorithms, each asked once for every input of small sets:     *)
(* rates, fees and prices (MCRates), signed offers and what people are told *)
(* of a fee (MCOffers), and here recorded conversations (SandboxReplay) and *)
(* the processes an environment starts (Deployments).  A fee is asked again *)
(* at every later instant.                                                 *)
(***************************************************************************)
EXTENDS MCOffers, SandboxReplay, Deployments

(***************************************************************************)
(* What a recorded conversation with a supplier replays as.  The           *)
(* conversation is an adapter's: it logs in with a credential, asks with the *)
(* token the answer held, and asks the same once more; it is recorded, and *)
(* replayed later, perhaps with a rotated credential or about another hotel. *)
(***************************************************************************)
Forms == {"json", "xml", "urlencoded"}

\* Where the credential and the token travel, and under which name.
Conversations ==
    [place : {"query", "headers", "body"}, form : Forms,
     name : {"api_key", "AuthToken", "authorization", "sid"}]

Replays ==
    [kind : {"replay"}, conversation : Conversations, rotated : BOOLEAN, otherHotel : BOOLEAN,
     schemaVersion : {SchemaVersion, SchemaVersion - 1}, ci : BOOLEAN, injected : BOOLEAN,
     drifts : BOOLEAN]

Request(conversation, path, secret, hotel, clock) ==
    LET In(place) == IF conversation.place = place THEN <<Field(conversation.name, secret)>> ELSE <<>>
    IN  [method  |-> "POST", path |-> path, query |-> <<Field("timestamp", clock)>> \o In("query"),
         headers |-> [name \in IF conversation.place = "headers" THEN {conversation.name} ELSE {} |-> secret],
         body    |-> [form |-> conversation.form,
                      fields |-> (IF conversation.form = "urlencoded" THEN <<>>
                                  ELSE <<Field("nonce", clock)>>)
                                     \o <<Field("hotel", hotel)>> \o In("body")]]

\* The lists of names know the fields of the conversation: its clocks are
\* volatile, what is asked and what is answered is not a secret, and neither is
\* the length of an answer replayed nor its cookie kept.
ListsKnowTheFields ==
    /\ {"timestamp", "nonce"} \subseteq VolatileParams
    /\ "hotel" \notin VolatileNames /\ "price" \notin RedactedKeys
    /\ "content-length" \in UnreplayableHeaders
    /\ "set-cookie" \in RedactedHeaders \ UnreplayableHeaders

ASSUME ListsAssumption == ListsKnowTheFields

\* The supplier: a token of the credential, then a price that may move.
Answer200(name, value) ==
    [status |-> 200, headers |-> [header \in {"content-length", "set-cookie"} |-> "of this answer"],
     body |-> [form |-> "json", fields |-> <<Field(name, value)>>]]

Value(response) == response.body.fields[1].value

Login(conversation, credential) == Request(conversation, "login", credential, "none", "1")
Rooms(conversation, token, hotel, clock) == Request(conversation, "rooms", token, hotel, clock)

\* The conversation recorded call by call; the rooms are asked for with the
\* token the login was answered with.
Recorded(q) ==
    LET c == q.conversation
        Call(store, request, name, value) ==
            Record(store, request, Answer200(name, value), q.ci, q.injected)
        AskTwice(store, token) ==
            UNION {Call(once.store, Rooms(c, token, "h1", "3"), "price",
                        IF q.drifts THEN "second" ELSE "first") :
                      once \in Call(store, Rooms(c, token, "h1", "2"), "price", "first")}
    IN  UNION {AskTwice(login.store, Value(login.answer)) :
                  login \in Call([captures |-> {}, recordings |-> {}], Login(c, "old"), c.name, "token")}

\* Where a credential may change and the recording still be found.
Covered(conversation) ==
    \/ conversation.place = "headers"
    \/ /\ conversation.name \in RedactedParams
       /\ conversation.place = "body" => conversation.form # "urlencoded"

\* What is left on disk of the recordings of a conversation, and the answer to
\* its login, with the credential of the day.
FilesNow(result) ==
    {[file EXCEPT !.schemaVersion = asked.schemaVersion] : file \in result.store.recordings}

LoginNow(result) ==
    Replay(FilesNow(result), Login(asked.conversation, IF asked.rotated THEN "new" ELSE "old"))

\* transport.ts:46-50 and 173-178: when a conversation is had again, whenever,
\* each call is answered as when it was recorded, the last time if it was
\* recorded twice, or not at all - never with the answer of another call, of
\* another hotel, or of another schema version.  It is answered whatever became
\* of the credential where the fingerprint does not see it - in a header, or in
\* a query, JSON or XML under a name of DEFAULT_REDACTED_PARAMS - and wherever
\* the secret is the recorded one; of others RotationKeepsRecordings tells.
ReplayTellsWhatWasRecorded ==
    asked.kind = "replay" =>
        \A result \in Recorded(asked) :
            LET c      == asked.conversation
                login  == LoginNow(result)
                hotel  == IF asked.otherHotel THEN "h2" ELSE "h1"
                rooms(token, clock) == Replay(FilesNow(result), Rooms(c, token, hotel, clock))
                last   == IF asked.drifts THEN "second" ELSE "first"
            IN  IF asked.schemaVersion # SchemaVersion THEN login = {}
                ELSE /\ Covered(c) \/ ~asked.rotated => login # {}
                     /\ \A response \in login :
                           /\ response.headers = [header \in {"set-cookie"} |-> Redacted]
                           /\ \A clock \in {"2", "3"} :
                                 LET answers == rooms(Value(response), clock)
                                 IN  /\ {Value(answer) : answer \in answers} \subseteq {last}
                                     /\ asked.otherHotel => answers = {}
                                     /\ ~asked.otherHotel /\ (Covered(c) \/ Value(response) = "token") =>
                                           answers # {}

\* The recorder redacts the credential of the conversation's login.
IsRedacted(conversation) ==
    LET login == Login(conversation, "old")
    IN  SanitizeRecording([request |-> login, response |-> Answer200("price", "first")]).request # login

\* "Credential params must be volatile for fingerprinting too: they never leak
\* into the hash input, and rotating sandbox credentials cannot orphan
\* recordings" (transport.ts:46-50): what the recorder redacts as a credential
\* may be rotated and the recording still be found.
RotationKeepsRecordings ==
    asked.kind = "replay" /\ asked.schemaVersion = SchemaVersion /\ IsRedacted(asked.conversation) =>
        \A result \in Recorded(asked) : LoginNow(result) # {}

-----------------------------------------------------------------------------
(***************************************************************************)
(* The environments the processes may be started in: NODE_ENV named,       *)
(* misspelt, empty or forgotten; each block of variables whole, absent, or *)
(* short of one; one variable empty; on a CI machine or not.               *)
(***************************************************************************)
AllButOne(keys) == {keys \ {k} : k \in keys}

EnvironmentsOf(s3, mail, supplier, needs, blank) ==
    [kind : {"environment"}, nodeEnv : NodeEnvs \cup {"unset", "", "staging"},
     set : {s3 \cup mail \cup supplier \cup needs},
     blank : {blank \cap (s3 \cup mail \cup supplier \cup needs)}, ci : BOOLEAN]

Environments ==
    UNION {EnvironmentsOf(s3, mail, supplier, needs, blank) :
              s3 \in {{}, {"S3_BUCKET"}, S3Keys \ {"S3_BUCKET"}, S3Keys},
              mail \in {{}, MailKeys} \cup AllButOne(MailKeys),
              supplier \in {SupplierKeys, SupplierKeys \ {"TBO_HOTEL_PASSWORD"}},
              needs \in {ApiNeeds, ApiNeeds \ {"REDIS_URL"}, ApiNeeds \ {"OFFER_SIGNING_KEY"}},
              blank \in {{}, {"S3_BUCKET"}, {"SMTP_HOST"}, {"REDIS_URL"}, {"TBO_HOTEL_USERNAME"},
                        {"OFFER_SIGNING_KEY"}}}

\* "An unset, empty, or typo'd NODE_ENV is treated as PRODUCTION - live
\* transport, no recording, no env credentials" (supplier-registry/src/
\* index.ts:43-48), though three readings decide it: a process that starts is
\* off the live network only by name, and calls a supplier with the credentials
\* of the environment only in development and recording, never on a CI machine.
\* "Both blocks set - delivery runs; a partial block fails startup"
\* (worker/src/config.ts:23-26): of two processes started in one environment the
\* api serves vouchers if and only if the worker mails them, and a worker that
\* mails stands beside an api that lacks its own signing key at most, or has an
\* empty one.
DeploymentsAgree ==
    asked.kind = "environment" =>
        LET api    == Api(asked)
            worker == Worker(asked)
        IN  /\ \A p \in {api, worker} : p.boots =>
                  /\ p.mode # "live" => p.nodeEnv = asked.nodeEnv
                  /\ p.nodeEnv = "production" => p.mode = "live" /\ p.source = "unbound"
                  /\ Hop(asked, p, "unknown") = "no_adapter"
                  /\ Hop(asked, p, TboSupplierCode) # "no_credentials" =>
                        /\ Hop(asked, p, TboSupplierCode) = "record"
                        /\ asked.nodeEnv = "development" /\ ~asked.ci
            /\ worker.boots /\ MailsVouchers(worker) /\ "OFFER_SIGNING_KEY" \in asked.set \ asked.blank =>
                  api.boots /\ api.mode = worker.mode
            /\ api.boots /\ worker.boots =>
                  (VoucherRoute(api) = "served") = MailsVouchers(worker)
-----------------------------------------------------------------------------
AlgorithmsInit == asked \in Fees \cup PreBooks \cup Details \cup Searches \cup Questions \cup Prices
               \cup Tokens \cup Rechecks \cup Views \cup Replays \cup Environments

Later ==
    /\ asked.kind = "fee"
    /\ asked.at < LastInstant
    /\ asked' = [asked EXCEPT !.at = @ + 1]

AlgorithmsSpec == AlgorithmsInit /\ [][Later]_asked

==============================================================================
