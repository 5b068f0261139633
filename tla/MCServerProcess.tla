--------------------------- MODULE MCServerProcess --------------------------
(* Instances of ServerProcess: one kind of load at a time, and some of each together. *)
EXTENDS ServerProcess

Remote ==
  [transport |-> "both", era |-> "dual", auth |-> "oauth", host |-> "wildcard",
   publicUrl |-> [scheme |-> "https", at |-> "address"], credential |-> "strong",
   allowNoAuth |-> FALSE, allowInsecure |-> FALSE, allowInsecureIssuer |-> FALSE,
   allowLists |-> "none", hookSecret |-> "strong",
   hookFlag |-> "unset", approval |-> "self", confirmationSecret |-> "unset",
   mode |-> "unset", safeMode |-> "unset", malformed |-> FALSE]

OverStdio == [Remote EXCEPT !.transport = "stdio", !.hookSecret = "unset"]

\* Where the scheme is that of no URL, the host says nothing.
MCUrls ==
  [scheme : {"http", "https"}, at : Hosts]
    \cup [scheme : {"unset", "unusable"}, at : {"address"}]

\* Every combination of what remote MCP depends on without the webhook, and every
\* combination of the other variables for one remote server and one that serves stdio.
MCEnvs ==
  {[Remote EXCEPT !.transport = "http", !.hookSecret = "unset", !.auth = a, !.host = h,
                  !.publicUrl = u, !.credential = c, !.allowNoAuth = n, !.allowInsecure = i,
                  !.allowInsecureIssuer = j, !.allowLists = l] :
     a \in {"oauth", "bearer", "none"}, h \in Hosts, u \in MCUrls, c \in Secrets,
     n \in BOOLEAN, i \in BOOLEAN, j \in BOOLEAN,
     l \in {"none", "hosts", "origins", "both", "unusable"}}
    \cup
  {[Remote EXCEPT !.transport = t, !.hookSecret = s, !.hookFlag = f, !.approval = a,
                  !.confirmationSecret = c, !.mode = m, !.safeMode = o, !.malformed = b] :
     t \in {"stdio", "http"}, s \in Secrets, f \in {"unset", "on", "off"},
     a \in {"self", "external"}, c \in Secrets, m \in {"unset", "known", "unknown"},
     o \in {"unset", "read-only", "unknown"}, b \in BOOLEAN}

\* Responses without limits, with one unit left until a reset, and with all of them left.
MCHeaders == {NoBudget, [left |-> 1, window |-> "open"], [left |-> Limit, window |-> "fresh"]}

\* One tool of every kind the request path tells apart; of the catalogue, all of them.
Class(t) == [t EXCEPT !.name = ""]
MCCallable == {CHOOSE t \in Tools : Class(t) = k : k \in {Class(t) : t \in Tools}}

Open == [mode |-> "full_access", expose |-> TRUE, deny |-> {}, allow |-> {},
         dryRunDefault |-> FALSE, confirmation |-> "off"]

\* Every mode with every confirmation mode, dry runs by default, and lists that name the tools
\* of one domain, or the tool that confirms.
MCPolicies ==
  {[Open EXCEPT !.mode = m, !.confirmation = c] : m \in Modes, c \in ConfirmationModes}
    \cup {[Open EXCEPT !.expose = FALSE], [Open EXCEPT !.dryRunDefault = TRUE],
          [Open EXCEPT !.allow = {t.name : t \in BbipTools}],
          [Open EXCEPT !.deny = {ConfirmTool}, !.confirmation = "all_destructive"]}

\* Lists of up to three items that fill a page of three bytes in part, wholly, or exceed it,
\* and one with its items the other way round.
Item(i, size) == [id |-> i, size |-> size]
MCLists ==
  {<<Item(1, 1), Item(2, 4), Item(3, 2)>>, <<Item(1, 1), Item(2, 2), Item(3, 1)>>,
   <<Item(1, 2), Item(2, 2), Item(3, 2)>>, <<Item(3, 2), Item(2, 2), Item(1, 2)>>,
   <<Item(1, 4)>>}

ForRequests(s) == [NoLoad EXCEPT !.requests = s] @@ [env |-> Remote]
ForHooks(s) == [NoLoad EXCEPT !.hooks = s] @@ [env |-> Remote]

\* Any two requests; three that meet in a session or at a limit; requests of an era that is
\* not served; deliveries; calls of a process that serves stdio; a little of each at once.
MCLoads ==
  {ForRequests(<<k, l>>) : k, l \in Kinds}
    \cup {ForRequests(s) : s \in {<<"initialize", "message", "stream">>,
                                 <<"initialize", "stream", "delete">>,
                                 <<"initialize", "initialize", "message">>,
                                 <<"exchange", "exchange", "listen">>}}
    \cup {ForHooks(s) : s \in {<<"event", "event", "event">>, <<"event", "ping", "garbled">>,
                              <<"event", "stranger">>}}
    \cup {[ForRequests(<<"initialize", "exchange">>) EXCEPT !.env.era = e] :
            e \in {"legacy", "modern"}}
    \cup {[NoLoad EXCEPT !.calls = Calls] @@ [env |-> OverStdio],
          [ForRequests(<<"initialize", "stream">>) EXCEPT !.hooks = <<"event">>],
          [ForRequests(<<"listen">>) EXCEPT !.calls = OurCalls],
          [NoLoad EXCEPT !.uses = [tool : MCCallable, policy : MCPolicies,
                                   asked : {"unset", "yes", "no"}]] @@ [env |-> OverStdio]}
    \cup {[NoLoad EXCEPT !.lists = MCLists] @@ [env |-> [OverStdio EXCEPT !.era = e]] :
            e \in {"legacy", "modern"}}
=============================================================================
