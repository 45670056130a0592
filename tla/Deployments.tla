---------------------------- MODULE Deployments ----------------------------
(***************************************************************************)
(* What the two engine processes, the api and the worker, become when they *)
(* are started in one environment.  NODE_ENV is read three times over, by  *)
(* each process's configuration, by the supplier registry and by the       *)
(* source of development credentials, and none of the readers sees what    *)
(* another concluded; the blocks of variables for the object store and for *)
(* mail are read by both processes.                                        *)
(***************************************************************************)
EXTENDS Integers, FiniteSets

ApiNeeds ==
    {"CONTROL_PLANE_DATABASE_URL", "REDIS_URL", "JENOVA_TENANT_RUNTIME_DSN", "OFFER_SIGNING_KEY"}

WorkerNeeds == {"CONTROL_PLANE_DATABASE_URL", "REDIS_URL", "JENOVA_TENANT_RUNTIME_DSN"}

S3Keys == {"S3_ENDPOINT", "S3_REGION", "S3_ACCESS_KEY_ID", "S3_SECRET_ACCESS_KEY", "S3_BUCKET"}

MailKeys == {"SMTP_HOST", "SMTP_PORT", "MAIL_FROM"}

SupplierKeys == {"TBO_HOTEL_API_URL", "TBO_HOTEL_USERNAME", "TBO_HOTEL_PASSWORD"}

NodeEnvs == {"development", "test", "production"}

TboSupplierCode == "tbo"

-----------------------------------------------------------------------------
(* An environment: the word in NODE_ENV ("unset" when there is none), the   *)
(* variables that are set, those of them that are empty, and whether this   *)
(* is a CI machine.                                                         *)

Missing(env, keys) == keys \ env.set

Malformed(env, keys) ==
    \/ env.nodeEnv \notin NodeEnvs \cup {"unset"}
    \/ keys \cap env.blank # {}

NodeEnvOf(env) == IF env.nodeEnv = "unset" THEN "production" ELSE env.nodeEnv

\* All or nothing: a block of variables is on, off, or keeps the process down.
Block(env, keys) ==
    IF Missing(env, keys) = keys THEN "off"
    ELSE IF Missing(env, keys) = {} THEN "on" ELSE "partial"

ResolveDocumentsConfig(env) == Block(env, S3Keys)

ResolveDocumentsDelivery(env) == Block(env, S3Keys \cup MailKeys)

Config(env, needs, keys, documents) ==
    [boots |-> Missing(env, needs) = {} /\ ~Malformed(env, needs \cup keys) /\ documents # "partial",
     nodeEnv |-> NodeEnvOf(env),
     documents |-> documents = "on"]

LoadApiConfig(env) == Config(env, ApiNeeds, S3Keys, ResolveDocumentsConfig(env))

LoadWorkerConfig(env) ==
    Config(env, WorkerNeeds, S3Keys \cup MailKeys, ResolveDocumentsDelivery(env))

-----------------------------------------------------------------------------
(* The registry reads NODE_ENV for itself: what it does not know is         *)
(* production, the empty string too.                                        *)

ConvenientNodeEnv(env) ==                                               \* mutant
    IF env.nodeEnv \in NodeEnvs THEN env.nodeEnv ELSE "development"

ResolveNodeEnv(env) == IF env.nodeEnv \in NodeEnvs THEN env.nodeEnv ELSE "production"

TransportModeForEnv(nodeEnv) ==
    CASE nodeEnv = "production"  -> "live"
      [] nodeEnv = "development" -> "record"
      [] nodeEnv = "test"        -> "replay"

\* Over the real network nothing is recorded on a CI machine: the transport
\* is built with the process, which then does not start.
CreateTboTransport(mode, ci) == [mode |-> mode, built |-> ~(mode = "record" /\ ci)]

Registry(env) == CreateTboTransport(TransportModeForEnv(ResolveNodeEnv(env)), env.ci)

HotelAdapter(supplierCode) == supplierCode = TboSupplierCode

-----------------------------------------------------------------------------
(* Each process binds a source of credentials once; the development source  *)
(* reads NODE_ENV again at every call and wants the supplier's variables.   *)

BoundSource(config) == IF config.nodeEnv = "development" THEN "env" ELSE "unbound"

CredentialsFor(env, source, supplierCode) ==
    /\ source = "env"
    /\ env.nodeEnv = "development"
    /\ supplierCode = TboSupplierCode
    /\ SupplierKeys \subseteq env.set \ env.blank

-----------------------------------------------------------------------------

Process(env, config) ==
    [boots |-> config.boots /\ Registry(env).built,
     nodeEnv |-> config.nodeEnv,
     mode |-> Registry(env).mode,
     source |-> BoundSource(config),
     documents |-> config.documents]

Api(env) == Process(env, LoadApiConfig(env))

Worker(env) == Process(env, LoadWorkerConfig(env))

\* A supplier hop of a started process: no adapter, no credentials, or a call.
Hop(env, process, supplierCode) ==
    IF ~HotelAdapter(supplierCode) THEN "no_adapter"
    ELSE IF ~CredentialsFor(env, process.source, supplierCode) THEN "no_credentials"
    ELSE process.mode

\* What the voucher route says before it looks at the booking.
VoucherRoute(process) == IF process.documents THEN "served" ELSE "documents_unavailable"

\* The worker mails vouchers exactly when its delivery queue exists.
MailsVouchers(process) == process.documents

============================================================================
