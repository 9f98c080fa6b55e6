-------------------------- MODULE RedirectMatching --------------------------
(***************************************************************************)
(* Redirect URIs and CORS origins: what Application.clean() lets a client  *)
(* register (validators.py), which requested URI a registered one          *)
(* authorises (models.py), and which the server then redirects to          *)
(* (core/http.py).                                                         *)
(*                                                                         *)
(* A URI is the record its parts are parsed into.  A host is a sequence of *)
(* letters in which "." separates labels, "*" is the wildcard and "-" a    *)
(* hyphen; it is empty for a URI without one.  An absent query or fragment *)
(* is none and an empty one "", for "?" and "#" at the end.  `authority`   *)
(* says that "//" follows the scheme.  Schemes and hosts are lower case,   *)
(* ports are numbers, white space and percent escapes are left out.        *)
(* Slip... operators are wrong variants, used to test the properties.      *)
(***************************************************************************)
EXTENDS Integers, Sequences, FiniteSets, SequencesExt

SchemesRequiringAuthority == {"http", "https"}
LoopbackAddress == <<"1">>   \* 127.0.0.1 and ::1
Localhost == <<"l">>

\* The settings: allowed schemes, ALLOW_URI_WILDCARDS and ALLOW_LOCALHOST_LOOPBACK.
Settings == [schemes: SUBSET {"http", "https", "app"}, wildcards: BOOLEAN, localhost: BOOLEAN]

Is(host, c) == \E i \in DOMAIN host : host[i] = c
Dots(host) == Cardinality({i \in DOMAIN host : host[i] = "."})
Stars(host) == Cardinality({i \in DOMAIN host : host[i] = "*"})
StartsWith(host, c) == host # <<>> /\ host[1] = c

----------------------------------------------------------------------------
(* Registration.                                                           *)

\* URIValidator's expression is not anchored behind the host: a first letter is enough, of a
\* host or of the credentials before it.
LooksLikeHost(host) == host # <<>> /\ host[1] \notin {".", "*", "-"}

\* A wildcard is one star, first, and below the second level; it is cut off with the dot
\* behind it, and with up to two hyphens.
WithoutHyphens(host) ==
  IF IsPrefix(<<"-", "-">>, host) THEN Tail(Tail(host))
  ELSE IF StartsWith(host, "-") THEN Tail(host) ELSE host
WithoutStar(host) == WithoutHyphens(IF host[2] = "." THEN Tail(Tail(host)) ELSE Tail(host))
SlipIsWildcardHost(u) ==
  ~u.userinfo /\ Stars(u.host) = 1 /\ StartsWith(u.host, "*") /\ LooksLikeHost(WithoutStar(u.host))
IsWildcardHost(u) ==
  /\ ~u.userinfo /\ Stars(u.host) = 1 /\ StartsWith(u.host, "*") /\ Dots(u.host) >= 2
  /\ LooksLikeHost(WithoutStar(u.host))

HasHost(u, wildcards) ==
  IF wildcards /\ Is(u.host, "*") THEN IsWildcardHost(u) ELSE u.userinfo \/ LooksLikeHost(u.host)

Validates(u, schemes, wildcards, allowPath, allowQuery) ==
  /\ u.scheme \in schemes
  /\ u.query # "none" => allowQuery
  /\ u.fragment = "none"
  /\ u.path # "" => allowPath
  /\ IF u.host = <<>>
       THEN u.scheme \notin SchemesRequiringAuthority /\ ~u.authority /\ u.path # ""
       ELSE HasHost(u, wildcards)

\* The two validators of clean().
RedirectIsAccepted(s, u) == Validates(u, s.schemes, s.wildcards, TRUE, TRUE)
OriginIsAccepted(s, u) == Validates(u, s.schemes, s.wildcards, FALSE, FALSE)

----------------------------------------------------------------------------
(* Requests.                                                               *)

IsWildcard(s, reg) == s.wildcards /\ StartsWith(reg.host, "*")
HostMatches(s, reg, u) ==
  IF IsWildcard(s, reg) THEN u.host # <<>> /\ IsSuffix(Tail(reg.host), u.host)
  ELSE reg.host = u.host

\* RFC 8252: the port of a loopback address is free.
IsLoopback(s, reg) ==
  /\ reg.scheme = "http"
  /\ \/ reg.host = LoopbackAddress
     \/ s.localhost /\ reg.host = Localhost

SlipSameQuery(reg, u) == reg.query = "none" \/ reg.query = u.query
SameQuery(reg, u) == reg.query = u.query

RedirectAllowed(s, u, registered) ==
  /\ u.fragment = "none" /\ ~u.userinfo
  /\ \E reg \in registered :
       /\ reg.fragment = "none" /\ ~reg.userinfo
       /\ reg.scheme = u.scheme
       /\ HostMatches(s, reg, u)
       /\ IsLoopback(s, reg) \/ reg.port = u.port
       /\ reg.path = u.path
       /\ SameQuery(reg, u)

\* OAuth2ResponseRedirect goes to the schemes of the client only.
IsRedirected(s, u, registered) == RedirectAllowed(s, u, registered) /\ u.scheme \in s.schemes

\* Where a logout returns to.  clean() does not look at the URIs registered for it.
PostLogoutAllowed(s, strict, type, u, registered) ==
  /\ strict /\ u.scheme = "http" => type = "confidential"
  /\ u.scheme \in s.schemes
  /\ RedirectAllowed(s, u, registered)

\* The token endpoint compares with the URI the code was issued for.
GrantAllows(issuedFor, u) == u = issuedFor

\* Without a redirect_uri, the client's only one.
DefaultRedirects(registered) == {u \in registered : Cardinality(registered) = 1}

OriginAllowed(s, o, registered) ==
  /\ o.scheme \in s.schemes
  /\ \E reg \in registered :
       /\ reg.scheme = o.scheme /\ reg.host = o.host /\ reg.port = o.port
       /\ reg.userinfo = o.userinfo

----------------------------------------------------------------------------
(* Properties, for every pair of a registered and a requested URI built    *)
(* from a few parts.                                                       *)

SomeHosts == {<<>>, LoopbackAddress, Localhost, <<"a", ".", "b">>, <<"*", ".", "b">>,
              <<"*", ".", "a", ".", "b">>, <<"*", "a", ".", "b", ".", "c">>,
              <<"*", "-", "-", "a", ".", "b", ".", "c">>, <<"*", "-", "-", "-", "a", ".", "b", ".", "c">>,
              <<"x", ".", "a", ".", "b">>, <<"x", "a", ".", "b", ".", "c">>,
              <<"x", "-", "-", "a", ".", "b", ".", "c">>,
              <<"x", ".", "*", ".", "b">>}
SomePorts == {0, 8000}
SomeUris == {u \in [scheme: {"http", "https", "app"}, authority: BOOLEAN, userinfo: BOOLEAN,
                    host: SomeHosts, port: SomePorts, path: {"", "/cb"},
                    query: {"none", "", "k=1"}, fragment: {"none", ""}] :
               ~u.authority => u.host = <<>> /\ ~u.userinfo /\ u.port = 0}

\* The differences the matching is meant to overlook.
ExceptHost(u) == [u EXCEPT !.host = <<>>]
ExceptPort(u) == [u EXCEPT !.port = 0]
IsOneOf(s, reg, u) ==
  \/ u = reg
  \/ IsLoopback(s, reg) /\ ExceptPort(u) = ExceptPort(reg)
  \/ /\ IsWildcard(s, reg) /\ ExceptHost(u) = ExceptHost(reg)
     /\ IsSuffix(Tail(reg.host), u.host)
  \/ reg.host = <<>> /\ [u EXCEPT !.authority = reg.authority] = reg

\* A client never gets a response, and a logout never returns, to a URI that is not registered
\* for it, up to the port of a loopback address, a wildcard, and the empty authority of a
\* hostless URI; and what clean() accepted never covers a whole second level domain, nor
\* lets an http URI go without its host (models.py:1705, RFC 9700 section 2.1).
NothingElseMatches(s, reg, u) ==
  /\ RedirectAllowed(s, u, {reg}) => IsOneOf(s, reg, u)
  /\ RedirectAllowed(s, u, {reg}) /\ RedirectIsAccepted(s, reg) =>
       /\ u.host # reg.host => Dots(u.host) >= 2
       /\ u.scheme \in SchemesRequiringAuthority => u.host # <<>>
  /\ \A type \in {"public", "confidential"} :
       PostLogoutAllowed(s, TRUE, type, u, {reg}) /\ u.scheme = "http" => type = "confidential"

\* What was accepted at registration works, unless it carries credentials: the URI itself
\* matches, and its scheme is one the server redirects to (validators.py:96, core/http.py).
AcceptedUriWorks(s, reg) ==
  /\ RedirectIsAccepted(s, reg) /\ ~reg.userinfo => IsRedirected(s, reg, {reg})
  /\ OriginIsAccepted(s, reg) => OriginAllowed(s, reg, {reg})

UriIsSound(s, reg) ==
  AcceptedUriWorks(s, reg) /\ \A u \in SomeUris : NothingElseMatches(s, reg, u)
=============================================================================
