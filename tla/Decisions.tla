------------------------------ MODULE Decisions ------------------------------
(***************************************************************************)
(* The rules that decide about one request or one row, put to the test     *)
(* together: how a row may be configured (ClientConfiguration, which       *)
(* evolves), and, of what clients, settings and URIs there may be, one at  *)
(* a time under question: who a request authenticates as                   *)
(* (ClientAuthentication), which URIs match (RedirectMatching), and where  *)
(* a restricted token is good (ResourceAudience).  What is asked about it  *)
(* are all the requests of those modules.                                  *)
(***************************************************************************)
EXTENDS ClientConfiguration, ClientAuthentication, RedirectMatching, ResourceAudience

VARIABLE asked  \* what is under question

decisionsVars == <<configuration, asked>>

\* The rows an operator makes: the fields clean() and save() tell apart.
ByHand ==
  {r \in RowType : r.redirects = "good" /\ r.keys \in {"none", "stored"}
     /\ r.grant \in {"authorization_code", "openid-hybrid"}}

\* The settings that differ from the defaults in one way.
SomeSettings ==
  {[schemes |-> {"http", "https"}, wildcards |-> FALSE, localhost |-> FALSE],
   [schemes |-> {"http", "https"}, wildcards |-> FALSE, localhost |-> TRUE],
   [schemes |-> {"https", "app"}, wildcards |-> TRUE, localhost |-> FALSE]}

DecisionsInit == ConfigurationInit /\ asked = [about |-> "nothing"]

Configure ==
  /\ asked.about = "nothing"
  /\ \/ \E m \in Metadata : RegisterClient(m) \/ UpdateClient(m)
     \/ \E r \in ByHand : CreateByHand(r) \/ \E newSecret \in BOOLEAN : EditByHand(r, newSecret)
     \/ DeleteClient
  /\ UNCHANGED asked

AskAuthentication ==
  /\ asked.about = "nothing" /\ row = {} /\ rsa
  /\ \E clients \in SomeTables, server \in SomeServers :
       asked' = [about |-> "authentication", clients |-> clients, server |-> server]
  /\ UNCHANGED configuration

AskRedirect ==
  /\ asked.about = "nothing" /\ row = {} /\ rsa
  /\ \E s \in SomeSettings, reg \in SomeUris :
       asked' = [about |-> "redirect", settings |-> s, registered |-> reg]
  /\ UNCHANGED configuration

AskAudience ==
  /\ asked.about = "nothing" /\ row = {} /\ rsa
  /\ \E base \in SomeBases, path \in SomePaths :
       asked' = [about |-> "audience", audience |-> At(base, path)]
  /\ UNCHANGED configuration

DecisionsNext == Configure \/ AskAuthentication \/ AskRedirect \/ AskAudience

DecisionsSpec == DecisionsInit /\ [][DecisionsNext]_decisionsVars

----------------------------------------------------------------------------
\* TableIsSound of ClientAuthentication, for the clients under question: nobody gets in as a
\* client without what that client registered to show (nothing but its name, if its secret
\* is blank), and nobody who shows it is kept out (oauth2_validators.py:354).
AuthenticationIsSound ==
  asked.about = "authentication" =>
    TableIsSound(asked.clients, asked.server)

\* UriIsSound of RedirectMatching, for the URI under question: what clean() lets
\* a client register is what it is later sent to, and nothing else is (models.py:1705).
RedirectsAreRegistered ==
  asked.about = "redirect" => UriIsSound(asked.settings, asked.registered)

\* AudienceIsSound of ResourceAudience, for the resource under question: a restricted
\* token is good below its resources and nowhere else (validators.py:107).
AudienceIsRespected ==
  asked.about = "audience" => AudienceIsSound(asked.audience)
=============================================================================
