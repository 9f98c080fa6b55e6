-------------------------- MODULE ResourceAudience --------------------------
(***************************************************************************)
(* RFC 8707 resource indicators: which URIs may be one, and which requests *)
(* a token restricted to some of them is good for                          *)
(* (resource_server/validators.py).                                        *)
(*                                                                         *)
(* A URI is [scheme, host, port, userinfo, fragment, path]; scheme and     *)
(* host are lower case, "" is an absent one, port 0 an absent one and a    *)
(* negative one no port at all.  A path is the sequence of what stands     *)
(* behind each of its slashes, itself a sequence of characters.            *)
(* Slip... operators are wrong variants, used to test the properties.      *)
(***************************************************************************)
EXTENDS Integers, Sequences, FiniteSets, SequencesExt

Dot == <<".">>
DotDot == <<".", ".">>

\* posixpath.normpath: empty and "." segments go, ".." takes the one before it along, and a
\* path that starts with exactly two slashes keeps both.
Step(resolved, segment) ==
  IF segment \in {<<>>, Dot} THEN resolved
  ELSE IF segment # DotDot THEN Append(resolved, segment)
  ELSE IF resolved = <<>> THEN <<>> ELSE Front(resolved)
Resolved(path) ==
  LET upTo[n \in 0..Len(path)] == IF n = 0 THEN <<>> ELSE Step(upTo[n - 1], path[n])
  IN  upTo[Len(path)]
KeepsTwo(path) == Len(path) >= 2 /\ path[1] = <<>> /\ path[2] # <<>>

\* The normal path as text, with one slash at its end.
Behind(text, name) == text \o name \o <<"/">>
Slashed(names) ==
  LET upTo[n \in 0..Len(names)] == IF n = 0 THEN <<>> ELSE Behind(upTo[n - 1], names[n])
  IN  upTo[Len(names)]
Text(path) ==
  LET slashed == Slashed(Resolved(path))
  IN  (IF KeepsTwo(path) /\ slashed # <<>> THEN <<"/", "/">> ELSE <<"/">>) \o slashed

Port(u) ==
  IF u.port # 0 THEN u.port
  ELSE IF u.scheme = "http" THEN 80 ELSE IF u.scheme = "https" THEN 443 ELSE 0

\* _parse_and_validate_uri finds the parts.
IsValidResource(u) ==
  ~u.userinfo /\ ~u.fragment /\ u.scheme # "" /\ u.host # "" /\ u.port >= 0

SlipCovers(audience, u) ==
  /\ IsValidResource(audience)
  /\ audience.scheme = u.scheme /\ audience.host = u.host /\ Port(audience) = Port(u)
  /\ IsPrefix(Front(Text(audience.path)), Text(u.path))
Covers(audience, u) ==
  /\ IsValidResource(audience)
  /\ audience.scheme = u.scheme /\ audience.host = u.host /\ Port(audience) = Port(u)
  /\ IsPrefix(Text(audience.path), Text(u.path))

AllowsAudience(u, audiences) ==
  \/ audiences = {}
  \/ IsValidResource(u) /\ \E audience \in audiences : Covers(audience, u)

----------------------------------------------------------------------------
(* Properties, over paths of a few segments.                               *)

SomeSegments == {<<>>, Dot, DotDot, <<"a">>, <<"a", "b">>}
SomePaths == UNION {[1..n -> SomeSegments] : n \in 0..3}
Api == [scheme |-> "https", host |-> "api", port |-> 0, userinfo |-> FALSE, fragment |-> FALSE,
        path |-> <<>>]
BasePorts == {443, 8443, -1}
SomeBases ==
  {Api, [Api EXCEPT !.userinfo = TRUE], [Api EXCEPT !.fragment = TRUE]}
    \cup {[Api EXCEPT !.port = n] : n \in BasePorts}
    \cup {[Api EXCEPT !.scheme = s] : s \in {"http", "app", ""}}
    \cup {[Api EXCEPT !.host = h] : h \in {"other", ""}}
At(base, path) == [base EXCEPT !.path = path]

\* Where a path leads: the names on it that no ".." behind them takes back.
IsName(segment) == segment \notin {<<>>, Dot, DotDot}
TakenBack(path, i) ==
  \E j \in i..Len(path) :
    Cardinality({k \in i..j : path[k] = DotDot}) >= Cardinality({k \in i..j : IsName(path[k])})
Leads(path) ==
  LET kept == {i \in DOMAIN path : IsName(path[i]) /\ ~TakenBack(path, i)}
  IN  [n \in 1..Cardinality(kept) |-> path[CHOOSE i \in kept : Cardinality({k \in kept : k <= i}) = n]]

\* A token restricted to a resource is good below it and nowhere else: not beside it, where
\* a name only begins like the last one of the resource, nor above it by way of dot segments,
\* nor on another origin; and a malformed URI on either side is good for nothing
\* (validators.py:107, the examples of its docstring).
AudienceConfines(audience, u) ==
  AllowsAudience(u, {audience}) =>
    /\ IsValidResource(u) /\ IsValidResource(audience)
    /\ audience.scheme = u.scheme /\ audience.host = u.host
    /\ IsPrefix(Leads(audience.path), Leads(u.path))

\* And it is good everywhere below it, the default port written or not, as long as no path
\* starts with two slashes.
AudienceReaches(audience, u) ==
  /\ audience = At(Api, audience.path)
  /\ u = At(Api, u.path) \/ u = At([Api EXCEPT !.port = 443], u.path)
  /\ ~KeepsTwo(audience.path) /\ ~KeepsTwo(u.path)
  /\ IsPrefix(Leads(audience.path), Leads(u.path))
  => AllowsAudience(u, {audience})

AudienceIsSound(audience) ==
  \A base \in SomeBases, path \in SomePaths :
    AudienceConfines(audience, At(base, path)) /\ AudienceReaches(audience, At(base, path))
=============================================================================
