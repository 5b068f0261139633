---------------------------- MODULE Configuration ---------------------------
(***************************************************************************)
(* What the environment variables make of the server: what load() in       *)
(* src/src/config.ts accepts, and what startHttpServer() in                *)
(* src/src/http/app.ts and resolveRebindingProtection() in                 *)
(* src/src/http/mcp-http.ts refuse on top of it.  Values are classes: an   *)
(* unset, a weak (under 32 bytes) and a strong secret; a host, to bind or   *)
(* in a URL, that is a loopback name, another address, or every interface. *)
(* A public URL is unusable when it is no http(s) URL, as given or, where  *)
(* none is given, as made of an IPv6 bind address.                         *)
(***************************************************************************)

Secrets == {"unset", "weak", "strong"}

Hosts == {"loopback", "address", "wildcard"}

Environments ==
  [transport : {"stdio", "http", "both"},
   era : {"legacy", "dual", "modern"},
   auth : {"oauth", "bearer", "none"},
   host : Hosts,
   publicUrl : [scheme : {"unset", "unusable", "http", "https"}, at : Hosts],
   credential : Secrets,               \* the owner password, or the bearer tokens
   allowNoAuth : BOOLEAN,
   allowInsecure : BOOLEAN,             \* AVITO_MCP_HTTP_ALLOW_INSECURE_PUBLIC_URL
   allowInsecureIssuer : BOOLEAN,       \* MCP_DANGEROUSLY_ALLOW_INSECURE_ISSUER_URL, of the SDK
   allowLists : {"none", "hosts", "origins", "both", "unusable"},
   hookSecret : Secrets, hookFlag : {"unset", "on", "off"},
   approval : {"self", "external"}, confirmationSecret : Secrets,
   mode : {"unset", "known", "unknown"}, safeMode : {"unset", "read-only", "unknown"},
   malformed : BOOLEAN]                \* a number, boolean or choice that does not parse

\* Remote MCP is served.
HttpMcp(e) == e.transport \in {"http", "both"}

\* The webhook receiver needs a secret; the explicit flag wins over its presence.
WebhookEnabled(e) == e.hookSecret # "unset" /\ e.hookFlag # "off"

\* The URL given, or that of the bind address.
PublicUrl(e) ==
  IF e.publicUrl.scheme = "unset" THEN [scheme |-> "http", at |-> e.host] ELSE e.publicUrl

\* Mutant: a server that binds a loopback address is taken to be reached there.
SecureBindHost(e) ==
  \/ PublicUrl(e).scheme = "https"
  \/ e.host = "loopback"
  \/ e.allowInsecure

\* The issuer is https, or names this machine wherever the server binds, or the override is set.
SecurePublicUrl(e) ==
  \/ PublicUrl(e).scheme = "https"
  \/ PublicUrl(e).at = "loopback"
  \/ e.allowInsecure

AcceptedByHttpConfig(e) ==
  /\ e.publicUrl.scheme # "unusable"
  /\ HttpMcp(e) /\ e.auth = "oauth" => e.credential # "weak" /\ SecurePublicUrl(e)
  /\ HttpMcp(e) /\ e.auth = "bearer" => e.credential = "strong"

\* resolveMode(): the newer variable wins over AVITO_SAFE_MODE, whatever that says.
ModeResolved(e) == IF e.mode = "unset" THEN e.safeMode # "unknown" ELSE e.mode = "known"

\* load() succeeds; otherwise the process exits with code 1.
Accepted(e) ==
  /\ ~e.malformed /\ ModeResolved(e)
  /\ AcceptedByHttpConfig(e)
  /\ e.hookSecret # "weak"
  /\ e.confirmationSecret # "weak"
  /\ e.approval = "external" => e.confirmationSecret # "unset"

IsLoopback(host) == host = "loopback"

\* What the allowlists are derived from: the public URL and the bind address, unless they name
\* every interface.
Derivable(e) == {PublicUrl(e).at, e.host} \ {"wildcard"}

\* There is a list of hosts and one of origins: configured (an origin names its host as well),
\* or derived.
RebindingResolved(e) ==
  /\ e.allowLists # "unusable"
  /\ e.allowLists \in {"origins", "both"} \/ Derivable(e) # {}

\* The SDK's mcpAuthRouter makes a check of its own, with an override of its own.
IssuerAccepted(e) ==
  \/ PublicUrl(e).scheme = "https"
  \/ PublicUrl(e).at = "loopback"
  \/ e.allowInsecureIssuer

\* startHttpServer() mounts what is configured, or throws before it listens.
Mountable(e) ==
  /\ WebhookEnabled(e) => e.hookSecret = "strong"
  /\ HttpMcp(e) =>
       /\ RebindingResolved(e)
       /\ e.auth = "oauth" => e.credential = "strong" /\ IssuerAccepted(e)
       /\ e.auth = "bearer" => e.credential # "unset"
       /\ e.auth = "none" => IsLoopback(e.host) \/ e.allowNoAuth

Listens(e) == HttpMcp(e) \/ WebhookEnabled(e)
=============================================================================
