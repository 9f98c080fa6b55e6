---------------------- MODULE ClientRegistrationProofs ----------------------
(***************************************************************************)
(* Theorems about dynamic client registration for any number of clients,   *)
(* tokens and requests.  Manageable is not inductive alone: that a PUT or  *)
(* a DELETE takes no other client's token needs to know what tokens point  *)
(* to (Rooted) and what a request in flight holds (Held).  That a PUT      *)
(* leaves one registration token needs a second invariant on top of it     *)
(* (OnlyOne).                                                              *)
(*                                                                         *)
(* And about what the row of a client may be configured to, whatever an    *)
(* operator enters: RowInv says that clean() accepts the row as saved, and *)
(* what metadata alone makes of one (Derived).  Then who is admitted and   *)
(* which URIs match, for any of them, and so for those of Decisions.       *)
(*                                                                         *)
(* The audience rule resolves paths by a recursive function.  That it has  *)
(* the values of its equation comes from well-founded induction over a     *)
(* set (ResolvedInSteps, SlashedInSteps); that it leads where the places   *)
(* of a path do, from a list of those that remain (ResolvedIsListed); that *)
(* texts tell paths apart, from reading them letter by letter (TextsTell). *)
(***************************************************************************)
EXTENDS ClientRegistration, Decisions, FiniteSetTheorems, WellFoundedInduction, TLAPS

\* A token that was ever stored keeps its client, which was stored too; a registration token's
\* client came through the registration endpoint.
Rooted ==
  \A t \in Token :
    IF token[t].status = "free" THEN token[t] = NoToken
    ELSE /\ token[t].client \in Client
         /\ client[token[t].client].status # "free"
         /\ token[t].kind = "registration" => client[token[t].client].source = "dcr"

\* A request has loaded a token that was stored; past its checks, its token and the rows it
\* collected are tokens of its client, a registered one.
Held ==
  \A q \in Request :
    /\ req[q].phase # "idle" =>
         /\ req[q].client \in Client /\ req[q].token \in Token
         /\ \A t \in req[q].rows \cup {req[q].token} : token[t].status # "free"
    /\ req[q].phase = "token" => req[q].rows = {}
    /\ req[q].phase \in {"auth", "collected"} =>
         /\ client[req[q].client].source = "dcr"
         /\ \A t \in req[q].rows \cup {req[q].token} : token[t].client = req[q].client

Inv == TypeOK /\ Rooted /\ Held /\ Manageable

LEMMA InitInv == Init => Inv
BY RegistrationAssumption
   DEF Init, Inv, TypeOK, Rooted, Held, Manageable, ClientRow, TokenRow, NoClient, NoToken,
       RequestState, Idle, Stored, StoredClient

\* The fields of a row that was changed in place or is new.
LEMMA Rows ==
  /\ \A x \in ClientRow, st \in {"stored", "gone"} : LET r == [x EXCEPT !.status = st] IN
       r \in ClientRow /\ r.status = st /\ r.source = x.source
  /\ \A x \in TokenRow : LET r == [x EXCEPT !.status = "gone"] IN
       r \in TokenRow /\ r.status = "gone" /\ r.client = x.client /\ r.kind = x.kind
  /\ \A c \in Client, k \in {"registration", "flow"} : NewToken(c, k) \in TokenRow
BY DEF ClientRow, TokenRow, NewToken

LEMMA RequestRows ==
  /\ \A q \in Request, c \in Client, t \in Token :
       [phase |-> "token", client |-> c, token |-> t, rows |-> {}] \in RequestState
  /\ Idle \in RequestState
  /\ \A r \in RequestState : LET a == [r EXCEPT !.phase = "auth"] IN
       /\ a \in RequestState
       /\ a.client = r.client /\ a.token = r.token /\ a.rows = r.rows
  /\ \A r \in RequestState, R \in SUBSET Token :
       LET d == [r EXCEPT !.phase = "collected", !.rows = R] IN
       /\ d \in RequestState /\ d.phase = "collected"
       /\ d.client = r.client /\ d.token = r.token /\ d.rows = R
BY DEF RequestState, Idle

LEMMA RequestEnds ==
  ASSUME Inv, NEW q \in Request, Become(q, Idle)
  PROVE  /\ req' \in [Request -> RequestState] /\ req'[q].phase = "idle"
         /\ \A p \in Request \ {q} : req'[p] = req[p]
<1>1. Idle \in RequestState /\ Idle.phase = "idle"
  BY RequestRows DEF Idle
<1>2. req' = [req EXCEPT ![q] = Idle] /\ req \in [Request -> RequestState]
  BY DEF Become, Inv, TypeOK
<1> QED BY <1>1, <1>2

LEMMA RegisterInv ==
  ASSUME Inv, NEW c \in Client, NEW t \in Token, Register(c, t)
  PROVE  Inv'
<1>1. token' \in [Token -> TokenRow] /\ client' \in [Client -> ClientRow]
  BY Rows DEF Inv, TypeOK, Register, ClientRow
<1>2. /\ client'[c] = [status |-> "stored", source |-> "dcr"]
      /\ token'[t] = NewToken(c, "registration")
      /\ \A d \in Client \ {c} : client'[d] = client[d]
      /\ \A u \in Token \ {t} : token'[u] = token[u]
  BY DEF Inv, TypeOK, Register
<1>3. TypeOK'
  BY <1>1, <1>2 DEF Inv, TypeOK, Register, Stored, StoredClient, NewToken
<1>4. Rooted'
  BY <1>1, <1>2 DEF Inv, Rooted, Register, NewToken
<1>5. Held'
  BY <1>1, <1>2 DEF Inv, TypeOK, Held, Register, RequestState
<1>6. Manageable'
  <2> SUFFICES ASSUME Rotate, NEW d \in Client, StoredClient(d)', Registered(d)', d \notin dropped'
               PROVE  RegistrationTokens(d)' # {}
    BY DEF Manageable
  <2>1. CASE d = c
    BY <1>2, <2>1 DEF RegistrationTokens, TokensOf, Stored, NewToken
  <2>2. CASE d # c
    <3>1. PICK u \in Token : Stored(u) /\ token[u].client = d /\ token[u].kind = "registration"
      BY <1>2, <2>2 DEF Inv, Manageable, Register, StoredClient, Registered, RegistrationTokens,
                        TokensOf
    <3>2. u # t
      BY <3>1 DEF Register, Stored
    <3> QED BY <1>2, <3>1, <3>2 DEF RegistrationTokens, TokensOf, Stored
  <2> QED BY <2>1, <2>2
<1> QED BY <1>3, <1>4, <1>5, <1>6 DEF Inv

LEMMA ProvisionInv ==
  ASSUME Inv, NEW c \in Client, Provision(c)
  PROVE  Inv'
<1>1. /\ client' \in [Client -> ClientRow]
      /\ client'[c] = [status |-> "stored", source |-> "manual"]
      /\ \A d \in Client \ {c} : client'[d] = client[d]
  BY DEF Inv, TypeOK, Provision, ClientRow
<1>2. TypeOK'
  BY <1>1 DEF Inv, TypeOK, Provision, Stored, StoredClient
<1>3. Rooted'
  BY <1>1 DEF Inv, Rooted, Provision
<1>4. Held'
  BY <1>1 DEF Inv, Rooted, Held, Provision
<1>5. Manageable'
  BY <1>1 DEF Inv, Manageable, Provision, StoredClient, Registered, RegistrationTokens, TokensOf,
              Stored
<1> QED BY <1>2, <1>3, <1>4, <1>5 DEF Inv

LEMMA IssueFlowTokenInv ==
  ASSUME Inv, NEW c \in Client, NEW t \in Token, IssueFlowToken(c, t)
  PROVE  Inv'
<1>1. /\ token' \in [Token -> TokenRow]
      /\ token'[t] = NewToken(c, "flow")
      /\ \A u \in Token \ {t} : token'[u] = token[u]
  BY Rows DEF Inv, TypeOK, IssueFlowToken
<1>2. TypeOK'
  BY <1>1 DEF Inv, TypeOK, IssueFlowToken, Stored, StoredClient, NewToken
<1>3. Rooted'
  BY <1>1 DEF Inv, Rooted, IssueFlowToken, StoredClient, NewToken
<1>4. Held'
  BY <1>1 DEF Inv, TypeOK, Held, IssueFlowToken, RequestState
<1>5. Manageable'
  BY <1>1 DEF Inv, Manageable, IssueFlowToken, StoredClient, Registered, RegistrationTokens,
              TokensOf, Stored
<1> QED BY <1>2, <1>3, <1>4, <1>5 DEF Inv

LEMMA DropTokenInv ==
  ASSUME Inv, NEW t \in Token, DropToken(t)
  PROVE  Inv'
<1>1. /\ token' \in [Token -> TokenRow]
      /\ token'[t].status = "gone" /\ token'[t].client = token[t].client
      /\ token'[t].kind = token[t].kind
      /\ \A u \in Token \ {t} : token'[u] = token[u]
  <2>1. token' = [token EXCEPT ![t] = [token[t] EXCEPT !.status = "gone"]]
    BY DEF DropToken
  <2>2. token \in [Token -> TokenRow]
    BY DEF Inv, TypeOK
  <2> QED BY <2>1, <2>2, Rows
<1>2. TypeOK'
  BY <1>1 DEF Inv, TypeOK, DropToken, Stored, StoredClient
<1>3. Rooted'
  BY <1>1 DEF Inv, Rooted, DropToken, Stored
<1>4. Held'
  BY <1>1 DEF Inv, TypeOK, Held, DropToken, RequestState
<1>5. Manageable'
  <2> SUFFICES ASSUME Rotate, NEW d \in Client, StoredClient(d), Registered(d), d \notin dropped'
               PROVE  RegistrationTokens(d)' # {}
    BY DEF Manageable, DropToken, StoredClient, Registered
  <2>1. PICK u \in Token : Stored(u) /\ token[u].client = d /\ token[u].kind = "registration"
    BY DEF Inv, Manageable, DropToken, RegistrationTokens, TokensOf
  <2>2. u # t
    BY <2>1 DEF DropToken
  <2> QED BY <1>1, <2>1, <2>2 DEF RegistrationTokens, TokensOf, Stored
<1> QED BY <1>2, <1>3, <1>4, <1>5 DEF Inv

LEMMA LoadTokenInv ==
  ASSUME Inv, NEW q \in Request, NEW c \in Client, NEW t \in Token, LoadToken(q, c, t)
  PROVE  Inv'
<1>1. /\ req' \in [Request -> RequestState]
      /\ req'[q] = [phase |-> "token", client |-> c, token |-> t, rows |-> {}]
      /\ \A p \in Request \ {q} : req'[p] = req[p]
  BY RequestRows DEF Inv, TypeOK, LoadToken, Become
<1>2. TypeOK'
  BY <1>1 DEF Inv, TypeOK, LoadToken, Stored, StoredClient
<1>3. Held'
  BY <1>1 DEF Inv, Held, LoadToken, Stored
<1> QED
  BY <1>2, <1>3 DEF Inv, Rooted, Manageable, LoadToken, StoredClient, Registered,
                    RegistrationTokens, TokensOf, Stored

LEMMA LoadApplicationInv ==
  ASSUME Inv, NEW q \in Request, LoadApplication(q)
  PROVE  Inv'
<1>1. /\ req' \in [Request -> RequestState]
      /\ req'[q].client = req[q].client /\ req'[q].token = req[q].token
      /\ req'[q].rows = req[q].rows
      /\ \A p \in Request \ {q} : req'[p] = req[p]
  <2>1. req' = [req EXCEPT ![q] = [req[q] EXCEPT !.phase = "auth"]]
    BY DEF LoadApplication, Become
  <2>2. req \in [Request -> RequestState]
    BY DEF Inv, TypeOK
  <2> QED BY <2>1, <2>2, RequestRows
<1>2. TypeOK'
  BY <1>1 DEF Inv, TypeOK, LoadApplication, Stored, StoredClient
<1>3. Held'
  BY <1>1 DEF Inv, TypeOK, Held, LoadApplication, StoredClient, Registered
<1> QED
  BY <1>2, <1>3 DEF Inv, Rooted, Manageable, LoadApplication, StoredClient, Registered,
                    RegistrationTokens, TokensOf, Stored

LEMMA FinishInv ==
  ASSUME Inv, NEW q \in Request, Finish(q)
  PROVE  Inv'
<1>1. /\ req' \in [Request -> RequestState] /\ req'[q].phase = "idle"
      /\ \A p \in Request \ {q} : req'[p] = req[p]
  BY RequestEnds DEF Finish
<1>2. TypeOK'
  BY <1>1 DEF Inv, TypeOK, Finish, Stored, StoredClient
<1>3. Held'
  BY <1>1 DEF Inv, Held, Finish
<1> QED
  BY <1>2, <1>3 DEF Inv, Rooted, Manageable, Finish, StoredClient, Registered,
                    RegistrationTokens, TokensOf, Stored

LEMMA CollectTokensInv ==
  ASSUME Inv, NEW q \in Request, CollectTokens(q)
  PROVE  Inv'
<1> DEFINE R == TokensOf(req[q].client)
<1>1. /\ req' \in [Request -> RequestState]
      /\ req'[q].phase = "collected" /\ req'[q].rows = R
      /\ req'[q].client = req[q].client /\ req'[q].token = req[q].token
      /\ \A p \in Request \ {q} : req'[p] = req[p]
  <2> DEFINE d == [req[q] EXCEPT !.phase = "collected", !.rows = R]
  <2>1. req' = [req EXCEPT ![q] = d]
    BY DEF CollectTokens, Become
  <2>2. req \in [Request -> RequestState] /\ R \in SUBSET Token
    BY DEF Inv, TypeOK, TokensOf
  <2> HIDE DEF R
  <2>3. req[q] \in RequestState
    BY <2>2
  <2>4. /\ d \in RequestState /\ d.phase = "collected"
        /\ d.client = req[q].client /\ d.token = req[q].token /\ d.rows = R
    BY <2>2, <2>3 DEF RequestState
  <2> HIDE DEF d
  <2> QED BY <2>1, <2>2, <2>4
<1>2. TypeOK'
  BY <1>1 DEF Inv, TypeOK, CollectTokens, Stored, StoredClient
<1>3. Held'
  <2>1. \A t \in R : token[t].client = req[q].client /\ token[t].status # "free"
    BY DEF TokensOf, Stored
  <2>2. client' = client /\ token' = token /\ req[q].phase = "auth"
    BY DEF CollectTokens
  <2> HIDE DEF R
  <2> QED BY <1>1, <2>1, <2>2 DEF Inv, Held
<1> QED
  BY <1>2, <1>3 DEF Inv, Rooted, Manageable, CollectTokens, StoredClient, Registered,
                    RegistrationTokens, TokensOf, Stored

\* The new token is another than the presented one, so it survives the rotation; no other
\* client's token changes.
LEMMA PutInv ==
  ASSUME Inv, NEW q \in Request, NEW n \in Token, Put(q, n)
  PROVE  Inv'
<1> DEFINE c == req[q].client
           old == req[q].token
<1>1. /\ c \in Client /\ old \in Token /\ token[old].client = c /\ token[old].status # "free"
      /\ client[c].source = "dcr"
  BY DEF Inv, Held, Put
<1>2. /\ client' \in [Client -> ClientRow]
      /\ client'[c].status = "stored" /\ client'[c].source = "dcr"
      /\ \A d \in Client \ {c} : client'[d] = client[d]
  <2>1. client' = [client EXCEPT ![c] = [client[c] EXCEPT !.status = "stored"]]
    BY DEF Put, SaveApplication
  <2>2. client[c] \in ClientRow
    BY <1>1 DEF Inv, TypeOK
  <2> HIDE DEF c
  <2> QED BY <1>1, <2>1, <2>2, Rows DEF Inv, TypeOK
<1>3. /\ req' \in [Request -> RequestState] /\ req'[q].phase = "idle"
      /\ \A p \in Request \ {q} : req'[p] = req[p]
  BY RequestEnds DEF Put
<1>4. CASE Rotate
  <2>1. n # old /\ token[n].status = "free"
    BY <1>1, <1>4 DEF Put
  <2>2. /\ token' \in [Token -> TokenRow]
        /\ token'[n] = NewToken(c, "registration")
        /\ token'[old].status = "gone" /\ token'[old].client = c
        /\ token'[old].kind = token[old].kind
        /\ \A t \in Token \ {n, old} : token'[t] = token[t]
    <3>1. token' = [token EXCEPT ![n] = NewToken(c, "registration"),
                                 ![old] = [token[old] EXCEPT !.status = "gone"]]
      BY <1>4, <2>1 DEF Put, ReplaceToken, Inv, TypeOK
    <3>2. token[old] \in TokenRow /\ token \in [Token -> TokenRow]
      BY <1>1 DEF Inv, TypeOK
    <3> HIDE DEF c, old
    <3> QED BY <1>1, <2>1, <3>1, <3>2, Rows
  <2>3. TypeOK'
    BY <1>1, <1>2, <1>3, <2>1, <2>2 DEF Inv, TypeOK, Put, Stored, StoredClient, NewToken
  <2>4. Rooted'
    BY <1>1, <1>2, <2>1, <2>2 DEF Inv, Rooted, NewToken
  <2>5. Held'
    <3>1. \A t \in Token : token[t].status # "free" =>
            token'[t].client = token[t].client /\ token'[t].status # "free"
      <4> HIDE DEF c, old
      <4> QED BY <1>1, <2>1, <2>2
    <3>2. \A d \in Client : client'[d].source = client[d].source
      <4> HIDE DEF c
      <4> QED BY <1>1, <1>2
    <3> QED BY <1>3, <3>1, <3>2 DEF Inv, TypeOK, Held, RequestState
  <2>6. Manageable'
    <3> SUFFICES ASSUME NEW d \in Client, StoredClient(d)', Registered(d)', d \notin dropped'
                 PROVE  RegistrationTokens(d)' # {}
      BY DEF Manageable
    <3>1. CASE d = c
      BY <2>2, <3>1 DEF RegistrationTokens, TokensOf, Stored, NewToken
    <3>2. CASE d # c
      <4>1. PICK u \in Token : Stored(u) /\ token[u].client = d /\ token[u].kind = "registration"
        BY <1>2, <1>4, <3>2 DEF Inv, Manageable, Put, StoredClient, Registered,
                                RegistrationTokens, TokensOf
      <4>2. u \notin {n, old}
        BY <1>1, <2>1, <3>2, <4>1 DEF Stored
      <4> QED BY <2>2, <4>1, <4>2 DEF RegistrationTokens, TokensOf, Stored
    <3> QED BY <3>1, <3>2
  <2> QED BY <2>3, <2>4, <2>5, <2>6 DEF Inv
<1>5. CASE ~Rotate
  <2>1. token' = token
    BY <1>5 DEF Put
  <2>2. TypeOK'
    BY <1>2, <1>3, <2>1 DEF Inv, TypeOK, Put, Stored, StoredClient
  <2>3. Rooted'
    BY <1>2, <2>1 DEF Inv, Rooted
  <2>4. Held'
    BY <1>2, <1>3, <2>1 DEF Inv, Held
  <2> QED BY <1>5, <2>2, <2>3, <2>4 DEF Inv, Manageable
<1> QED BY <1>4, <1>5

\* The client's tokens all go with it, and no other client's do.
LEMMA CommitDeleteInv ==
  ASSUME Inv, NEW q \in Request, CommitDelete(q)
  PROVE  Inv'
<1> DEFINE c == req[q].client
           R == req[q].rows
<1>1. /\ c \in Client /\ client[c].source = "dcr" /\ R \in SUBSET Token
      /\ \A t \in R : token[t].client = c /\ token[t].status # "free"
      /\ TokensOf(c) \subseteq R
  BY DEF Inv, TypeOK, Held, CommitDelete, RequestState, Deletable
<1>2. /\ client' \in [Client -> ClientRow]
      /\ client'[c].status = "gone" /\ client'[c].source = "dcr"
      /\ \A d \in Client \ {c} : client'[d] = client[d]
  <2>1. client' = [client EXCEPT ![c] = [client[c] EXCEPT !.status = "gone"]]
    BY DEF CommitDelete
  <2>2. client[c] \in ClientRow
    BY <1>1 DEF Inv, TypeOK
  <2> HIDE DEF c
  <2> QED BY <1>1, <2>1, <2>2, Rows DEF Inv, TypeOK
<1>3. /\ req' \in [Request -> RequestState] /\ req'[q].phase = "idle"
      /\ \A p \in Request \ {q} : req'[p] = req[p]
  BY RequestEnds DEF CommitDelete
<1>4. /\ token' \in [Token -> TokenRow]
      /\ \A t \in R : /\ token'[t].status = "gone" /\ token'[t].client = c
                      /\ token'[t].kind = token[t].kind
      /\ \A t \in Token \ R : token'[t] = token[t]
  <2>1. token' = [t \in Token |-> IF t \in R THEN [token[t] EXCEPT !.status = "gone"] ELSE token[t]]
    BY DEF CommitDelete
  <2>2. \A t \in Token : token[t] \in TokenRow
    BY DEF Inv, TypeOK
  <2> HIDE DEF c, R
  <2>3. \A t \in Token :
          token'[t] = IF t \in R THEN [token[t] EXCEPT !.status = "gone"] ELSE token[t]
    BY <2>1
  <2>4. \A t \in Token : token'[t] \in TokenRow
    <3> TAKE t \in Token
    <3> QED BY <2>2, <2>3, Rows
  <2>5. \A t \in R :
          token'[t].status = "gone" /\ token'[t].client = c /\ token'[t].kind = token[t].kind
    <3> TAKE t \in R
    <3>1. t \in Token /\ token[t].client = c
      BY <1>1
    <3>2. token[t] \in TokenRow /\ token'[t] = [token[t] EXCEPT !.status = "gone"]
      BY <2>2, <2>3, <3>1
    <3> QED BY <3>1, <3>2, Rows
  <2> QED BY <2>1, <2>3, <2>4, <2>5
<1> HIDE DEF c, R
<1>5. TypeOK'
  <2>1. overlapped' = overlapped /\ dropped' = dropped
    BY DEF CommitDelete
  <2>2. ASSUME NEW t \in Token, Stored(t)'
        PROVE  token'[t].client \in Client /\ client'[token'[t].client].status = "stored"
    <3>1. t \notin R
      BY <1>4, <2>2 DEF Stored
    <3>2. token'[t] = token[t] /\ Stored(t)
      BY <1>4, <2>2, <3>1 DEF Stored
    <3>3. token[t].client # c
      BY <1>1, <3>1, <3>2 DEF TokensOf
    <3> QED BY <1>2, <3>2, <3>3 DEF Inv, TypeOK, StoredClient
  <2> QED BY <1>2, <1>3, <1>4, <2>1, <2>2 DEF Inv, TypeOK, StoredClient
<1>6. Rooted'
  <2> SUFFICES ASSUME NEW t \in Token
               PROVE  IF token'[t].status = "free" THEN token'[t] = NoToken
                      ELSE /\ token'[t].client \in Client
                           /\ client'[token'[t].client].status # "free"
                           /\ token'[t].kind = "registration" =>
                                client'[token'[t].client].source = "dcr"
    BY DEF Rooted
  <2>1. CASE t \in R
    BY <1>1, <1>2, <1>4, <2>1
  <2>2. CASE t \notin R
    BY <1>2, <1>4, <2>2 DEF Inv, Rooted
  <2> QED BY <2>1, <2>2
<1>7. Held'
  <2>1. \A t \in Token : /\ token'[t].client = token[t].client
                         /\ token[t].status # "free" => token'[t].status # "free"
    BY <1>1, <1>4
  <2>2. \A d \in Client : client'[d].source = client[d].source
    BY <1>1, <1>2
  <2> QED BY <1>3, <2>1, <2>2 DEF Inv, TypeOK, Held, RequestState
<1>8. Manageable'
  <2> SUFFICES ASSUME Rotate, NEW d \in Client, StoredClient(d)', Registered(d)',
                      d \notin dropped'
               PROVE  RegistrationTokens(d)' # {}
    BY DEF Manageable
  <2>1. d # c
    BY <1>2 DEF StoredClient
  <2>2. PICK u \in Token : Stored(u) /\ token[u].client = d /\ token[u].kind = "registration"
    BY <1>2, <2>1 DEF Inv, Manageable, CommitDelete, StoredClient, Registered,
                      RegistrationTokens, TokensOf
  <2>3. u \notin R
    BY <1>1, <2>1, <2>2
  <2> QED BY <1>4, <2>2, <2>3 DEF RegistrationTokens, TokensOf, Stored
<1> QED BY <1>5, <1>6, <1>7, <1>8 DEF Inv

LEMMA NextInv == Inv /\ [Next]_vars => Inv'
<1> SUFFICES ASSUME Inv, [Next]_vars PROVE Inv'
  OBVIOUS
<1>1. CASE UNCHANGED vars
  BY <1>1 DEF vars, Inv, TypeOK, Rooted, Held, Manageable, Stored, StoredClient, Registered,
              RegistrationTokens, TokensOf
<1>2. CASE Next
  BY <1>2, RegisterInv, ProvisionInv, IssueFlowTokenInv, DropTokenInv, LoadTokenInv,
     LoadApplicationInv, FinishInv, CollectTokensInv, PutInv, CommitDeleteInv DEF Next
<1> QED BY <1>1, <1>2

\* Every reachable state is well typed, and every stored token has its client.
THEOREM RegistrationTypes == Spec => []TypeOK
<1>1. Inv => TypeOK
  BY DEF Inv
<1> QED BY InitInv, NextInv, <1>1, PTL DEF Spec

\* A registered client nobody signed in for never loses its last registration token while it
\* exists, and no token outlives its client, however PUTs and DELETEs on it interleave or fail.
THEOREM AlwaysManageable == Spec => []TokensAndClientsMeet
<1>1. Inv => TokensAndClientsMeet
  BY DEF Inv, TypeOK, TokensAndClientsMeet
<1> QED BY InitInv, NextInv, <1>1, PTL DEF Spec

\* No request of the management endpoint reaches a client that was provisioned by hand.
THEOREM ManualIsSafe == Spec => ManualIsNotManaged
<1> DEFINE Act == \A c \in Client : StoredClient(c) /\ client[c].source = "manual" =>
                    /\ client'[c] = client[c]
                    /\ \A t \in Token : token'[t].client = c => token'[t].kind = "flow"
<1>1. Inv /\ Inv' /\ [Next]_vars => [Act]_vars
  <2> SUFFICES ASSUME Inv, Inv', Next, NEW c \in Client, StoredClient(c),
                      client[c].source = "manual"
               PROVE  /\ client'[c] = client[c]
                      /\ \A t \in Token : token'[t].client = c => token'[t].kind = "flow"
    OBVIOUS
  <2>1. client'[c] = client[c]
    <3>1. ASSUME NEW d \in Client, NEW t \in Token, Register(d, t)
          PROVE  client'[c] = client[c]
      BY <3>1 DEF Register, StoredClient
    <3>2. ASSUME NEW d \in Client, Provision(d)
          PROVE  client'[c] = client[c]
      BY <3>2 DEF Provision, StoredClient
    <3>3. ASSUME NEW q \in Request, NEW n \in Token, Put(q, n)
          PROVE  client'[c] = client[c]
      BY <3>3 DEF Inv, TypeOK, Held, Put, SaveApplication
    <3>4. ASSUME NEW q \in Request, CommitDelete(q)
          PROVE  client'[c] = client[c]
      BY <3>4 DEF Inv, TypeOK, Held, CommitDelete
    <3> QED
      BY <3>1, <3>2, <3>3, <3>4
         DEF Next, IssueFlowToken, DropToken, LoadToken, LoadApplication, Finish, CollectTokens
  <2>2. ASSUME NEW t \in Token, token'[t].client = c
        PROVE  token'[t].kind = "flow"
    <3>1. token'[t].status # "free"
      BY <2>2, RegistrationAssumption DEF Inv, Rooted, NoToken
    <3>2. token'[t].kind \in {"registration", "flow"}
      BY DEF Inv, TypeOK, TokenRow
    <3>3. client'[token'[t].client].source # "dcr"
      BY <2>1, <2>2
    <3> QED BY <3>1, <3>2, <3>3 DEF Inv, Rooted
  <2> QED BY <2>1, <2>2
<1> QED BY InitInv, NextInv, <1>1, PTL DEF Spec, ManualIsNotManaged

----------------------------------------------------------------------------
(* One registration token (OneTokenUnlessRaced).  A PUT adds one and drops *)
(* the one it was presented with, so what must be known is that this is    *)
(* the only one there is, and that no other request is at work.            *)

\* Nothing the property makes an exception for has happened to c.
Orderly(c) ==
  Rotate /\ c \notin overlapped /\ \A t \in Token : token[t].client = c => token[t].kind # "flow"

Only(c) ==
  /\ \A t, u \in RegistrationTokens(c) : t = u
  /\ \A p, q \in AtWork(c) : p = q
  /\ \A q \in AtWork(c) : req[q].phase # "idle" /\ token[req[q].token].client = c =>
       RegistrationTokens(c) \subseteq {req[q].token}

OnlyOne == \A c \in Client : Orderly(c) => Only(c)

LEMMA TokensKeepClients ==
  ASSUME Inv, Next, NEW t \in Token, token[t].status # "free"
  PROVE  token'[t].client = token[t].client /\ token'[t].kind = token[t].kind
<1>1. token \in [Token -> TokenRow]
  BY DEF Inv, TypeOK
<1>2. ASSUME NEW q \in Request, NEW n \in Token, Put(q, n)
      PROVE  token'[t].client = token[t].client /\ token'[t].kind = token[t].kind
  <2>1. req[q].token \in Token
    BY <1>2 DEF Inv, Held, Put
  <2>2. CASE token' = token
    BY <2>2
  <2>3. CASE token[n].status = "free" /\ ReplaceToken(req[q].token, n, req[q].client)
    <3> DEFINE old == req[q].token
    <3>1. n # t
      BY <2>3
    <3>2. token' = [token EXCEPT ![n] = NewToken(req[q].client, "registration"), ![old].status = "gone"]
      BY <2>3 DEF ReplaceToken
    <3>3. token'[t] = token[t] \/ token'[t] = [token[t] EXCEPT !.status = "gone"]
      <4> HIDE DEF old
      <4> QED BY <1>1, <3>1, <3>2
    <3> QED BY <1>1, <3>3 DEF TokenRow
  <2> QED BY <1>2, <2>2, <2>3 DEF Put
<1>3. ASSUME NEW q \in Request, CommitDelete(q)
      PROVE  token'[t].client = token[t].client /\ token'[t].kind = token[t].kind
  <2>1. token'[t] = token[t] \/ token'[t] = [token[t] EXCEPT !.status = "gone"]
    BY <1>3 DEF CommitDelete
  <2> QED BY <1>1, <2>1 DEF TokenRow
<1>4. ASSUME NEW u \in Token, DropToken(u)
      PROVE  token'[t].client = token[t].client /\ token'[t].kind = token[t].kind
  <2>1. token'[t] = token[t] \/ token'[t] = [token[t] EXCEPT !.status = "gone"]
    BY <1>1, <1>4 DEF DropToken
  <2> QED BY <1>1, <2>1 DEF TokenRow
<1>5. ASSUME NEW c \in Client, NEW u \in Token, Register(c, u) \/ IssueFlowToken(c, u)
      PROVE  token'[t] = token[t]
  BY <1>1, <1>5 DEF Register, IssueFlowToken
<1> QED
  BY <1>2, <1>3, <1>4, <1>5 DEF Next, Provision, LoadToken, LoadApplication, Finish, CollectTokens

LEMMA OrderlyBefore ==
  ASSUME Inv, Next, NEW c \in Client, Orderly(c)' PROVE Orderly(c)
<1>1. overlapped \subseteq overlapped'
  BY DEF Next, Register, Provision, IssueFlowToken, DropToken, LoadToken, LoadApplication, Finish, Put,
         CollectTokens, CommitDelete
<1>2. ASSUME NEW t \in Token, token[t].client = c PROVE token[t].kind # "flow"
  <2>1. token[t].status # "free"
    BY <1>2, RegistrationAssumption DEF Inv, Rooted, NoToken
  <2> QED BY <1>2, <2>1, TokensKeepClients DEF Orderly
<1> QED BY <1>1, <1>2 DEF Orderly

\* A step that stores no registration token for c, and puts no further request to work on it.
Settles(c) ==
  /\ RegistrationTokens(c)' \subseteq RegistrationTokens(c)
  /\ \A q \in AtWork(c)' : /\ q \in AtWork(c) /\ req'[q].token = req[q].token
                           /\ req'[q].phase # "idle" => req[q].phase # "idle"

LEMMA SettlingKeeps ==
  ASSUME Inv, Next, NEW c \in Client, Only(c), Settles(c) PROVE Only(c)'
<1> SUFFICES ASSUME NEW q \in AtWork(c)', req'[q].phase # "idle", token'[req'[q].token].client = c
             PROVE  RegistrationTokens(c)' \subseteq {req'[q].token}
  BY DEF Only, Settles
<1>1. q \in AtWork(c) /\ req'[q].token = req[q].token /\ req[q].phase # "idle" /\ q \in Request
  BY DEF Settles, AtWork
<1>2. token[req[q].token].client = c
  BY <1>1, TokensKeepClients DEF Inv, Held
<1> QED BY <1>1, <1>2 DEF Only, Settles

LEMMA RegisterOnly ==
  ASSUME Inv, OnlyOne, NEW d \in Client, NEW t \in Token, Register(d, t), NEW c \in Client, Orderly(c)'
  PROVE  Only(c)'
<1> USE DEF RegistrationTokens, TokensOf, Stored
<1>1. Next /\ Orderly(c)
  <2>1. Next
    BY DEF Next
  <2> QED BY <2>1, OrderlyBefore
<1>2. /\ token'[t] = NewToken(d, "registration") /\ \A u \in Token \ {t} : token'[u] = token[u]
      /\ req' = req
  BY DEF Register, Inv, TypeOK
<1>3. CASE c = d
  <2>1. \A u \in Token : token[u].client # c \/ token[u].status = "free"
    BY <1>3 DEF Inv, Rooted, Register
  <2>2. RegistrationTokens(c)' \subseteq {t}
    BY <1>2, <2>1
  <2>3. AtWork(c)' = AtWork(c)
    BY <1>2 DEF AtWork
  <2>4. ASSUME NEW q \in AtWork(c), req[q].phase # "idle", token'[req[q].token].client = c
        PROVE  FALSE
    <3>1. q \in Request /\ req[q].token \in Token /\ token[req[q].token].status # "free"
      BY <2>4 DEF AtWork, Inv, Held
    <3> QED BY <1>1, <2>1, <2>4, <3>1, TokensKeepClients
  <2> QED BY <1>1, <1>2, <2>2, <2>3, <2>4 DEF OnlyOne, Only
<1>4. CASE c # d
  <2>1. Settles(c)
    BY <1>2, <1>4 DEF Settles, NewToken, AtWork
  <2> QED BY <1>1, <2>1, SettlingKeeps DEF OnlyOne
<1> QED BY <1>3, <1>4

LEMMA LoadTokenOnly ==
  ASSUME Inv, OnlyOne, NEW q \in Request, NEW d \in Client, NEW t \in Token, LoadToken(q, d, t),
         NEW c \in Client, Orderly(c)'
  PROVE  Only(c)'
<1>1. Next /\ Orderly(c)
  <2>1. Next
    BY DEF Next
  <2> QED BY <2>1, OrderlyBefore
<1>2. /\ req'[q].phase = "token" /\ req'[q].client = d /\ req'[q].token = t
      /\ \A p \in Request \ {q} : req'[p] = req[p]
      /\ token' = token
  BY DEF LoadToken, Become, Inv, TypeOK
<1>3. RegistrationTokens(c)' = RegistrationTokens(c)
  BY <1>2 DEF RegistrationTokens, TokensOf, Stored
<1>4. CASE c = d
  <2>1. AtWork(c) = {}
    BY <1>4 DEF LoadToken, Orderly
  <2>2. AtWork(c)' = {q}
    BY <1>2, <1>4, <2>1 DEF AtWork
  <2>3. ASSUME token[t].client = c PROVE RegistrationTokens(c) \subseteq {t}
    <3>1. t \in RegistrationTokens(c)
      BY <1>1, <2>3 DEF LoadToken, Orderly, RegistrationTokens, TokensOf, Inv, TypeOK, TokenRow
    <3> QED BY <1>1, <3>1 DEF OnlyOne, Only
  <2> QED BY <1>1, <1>2, <1>3, <2>2, <2>3 DEF OnlyOne, Only
<1>5. CASE c # d
  <2>1. Settles(c)
    BY <1>2, <1>3, <1>5 DEF Settles, AtWork
  <2> QED BY <1>1, <2>1, SettlingKeeps DEF OnlyOne
<1> QED BY <1>4, <1>5

LEMMA PutOnly ==
  ASSUME Inv, OnlyOne, NEW q \in Request, NEW n \in Token, Put(q, n), NEW c \in Client, Orderly(c)'
  PROVE  Only(c)'
<1> DEFINE d == req[q].client
           old == req[q].token
<1>1. Next /\ Orderly(c)
  <2>1. Next
    BY DEF Next
  <2> QED BY <2>1, OrderlyBefore
<1>2. /\ d \in Client /\ old \in Token /\ token[old].client = d /\ token[old].status # "free"
      /\ token[n].status = "free" /\ req[q].phase = "auth"
  BY <1>1 DEF Inv, Held, Put, Orderly
<1>3. /\ req'[q].phase = "idle" /\ req'[q].client = Null /\ \A p \in Request \ {q} : req'[p] = req[p]
  BY DEF Put, Become, Idle, Inv, TypeOK
<1>4. token' = [token EXCEPT ![n] = NewToken(d, "registration"), ![old].status = "gone"]
  BY <1>1 DEF Put, ReplaceToken, Orderly
<1>5. q \in AtWork(d)
  BY DEF AtWork
<1> HIDE DEF d, old
<1>6. /\ token'[n] = NewToken(d, "registration") /\ token'[old].status = "gone"
      /\ \A t \in Token \ {n, old} : token'[t] = token[t]
  <2>1. token \in [Token -> TokenRow] /\ n # old
    BY <1>2 DEF Inv, TypeOK
  <2>2. token'[old] = [token[old] EXCEPT !.status = "gone"]
    BY <1>2, <1>4, <2>1
  <2> QED BY <1>2, <1>4, <2>1, <2>2 DEF TokenRow
<1>7. \A p \in AtWork(c)' : p \in AtWork(c) /\ p # q /\ req'[p] = req[p]
  BY <1>3, RegistrationAssumption DEF AtWork
<1>8. CASE c = d
  <2>1. AtWork(c)' = {}
    BY <1>1, <1>5, <1>7, <1>8 DEF OnlyOne, Only
  <2>2. RegistrationTokens(c) \subseteq {old}
    BY <1>1, <1>2, <1>5, <1>8 DEF OnlyOne, Only, old
  <2>3. RegistrationTokens(c)' \subseteq {n}
    BY <1>6, <2>2 DEF RegistrationTokens, TokensOf, Stored
  <2> QED BY <2>1, <2>3 DEF Only
<1>9. CASE c # d
  <2>1. Settles(c)
    BY <1>6, <1>7, <1>9 DEF Settles, RegistrationTokens, TokensOf, Stored, NewToken
  <2> QED BY <1>1, <2>1, SettlingKeeps DEF OnlyOne
<1> QED BY <1>8, <1>9

\* The steps that store no registration token and load none.
LEMMA OthersSettle ==
  ASSUME Inv, NEW c \in Client,
         \/ \E d \in Client : Provision(d)
         \/ \E d \in Client, t \in Token : IssueFlowToken(d, t)
         \/ \E t \in Token : DropToken(t)
         \/ \E q \in Request : LoadApplication(q) \/ Finish(q) \/ CollectTokens(q) \/ CommitDelete(q)
  PROVE  Settles(c)
<1> USE DEF Settles, RegistrationTokens, TokensOf, Stored
<1>1. token \in [Token -> TokenRow] /\ req \in [Request -> RequestState]
  BY DEF Inv, TypeOK
<1>2. ASSUME NEW d \in Client, Provision(d) PROVE Settles(c)
  BY <1>2 DEF Provision, AtWork
<1>3. ASSUME NEW d \in Client, NEW t \in Token, IssueFlowToken(d, t) PROVE Settles(c)
  <2>1. token'[t] = NewToken(d, "flow") /\ \A u \in Token \ {t} : token'[u] = token[u]
    BY <1>1, <1>3 DEF IssueFlowToken
  <2>2. req' = req
    BY <1>3 DEF IssueFlowToken
  <2> QED BY <2>1, <2>2 DEF NewToken, AtWork
<1>4. ASSUME NEW t \in Token, DropToken(t) PROVE Settles(c)
  <2>1. token' = [token EXCEPT ![t] = [token[t] EXCEPT !.status = "gone"]] /\ req' = req
    BY <1>1, <1>4 DEF DropToken
  <2>2. token'[t].status = "gone" /\ \A u \in Token \ {t} : token'[u] = token[u]
    BY <1>1, <2>1 DEF TokenRow
  <2> QED BY <2>1, <2>2 DEF AtWork
<1>5. ASSUME NEW q \in Request, NEW r, Become(q, r),
             r = Idle \/ (r.client = req[q].client /\ r.token = req[q].token),
             req[q].phase # "idle", RegistrationTokens(c)' \subseteq RegistrationTokens(c)
      PROVE  Settles(c)
  <2>1. req'[q] = r /\ \A p \in Request \ {q} : req'[p] = req[p]
    BY <1>1, <1>5 DEF Become
  <2>2. Idle.client = Null
    BY DEF Idle
  <2>3. ASSUME NEW p \in AtWork(c)'
        PROVE  /\ p \in AtWork(c) /\ req'[p].token = req[p].token
               /\ req'[p].phase # "idle" => req[p].phase # "idle"
    BY <1>5, <2>1, <2>2, RegistrationAssumption DEF AtWork
  <2> QED BY <1>5, <2>3
<1>6. ASSUME NEW q \in Request, LoadApplication(q) PROVE Settles(c)
  <2> DEFINE r == [req[q] EXCEPT !.phase = "auth"]
  <2>1. r.client = req[q].client /\ r.token = req[q].token
    BY <1>1 DEF RequestState
  <2>2. Become(q, r) /\ token' = token /\ req[q].phase # "idle"
    BY <1>6 DEF LoadApplication
  <2> HIDE DEF r
  <2> QED BY <1>5, <2>1, <2>2
<1>7. ASSUME NEW q \in Request, Finish(q) PROVE Settles(c)
  BY <1>5, <1>7 DEF Finish
<1>8. ASSUME NEW q \in Request, CollectTokens(q) PROVE Settles(c)
  <2> DEFINE R == TokensOf(req[q].client)
             r == [req[q] EXCEPT !.phase = "collected", !.rows = R]
  <2>1. Become(q, r) /\ token' = token /\ req[q].phase # "idle"
    BY <1>8 DEF CollectTokens
  <2> HIDE DEF R
  <2>2. r.client = req[q].client /\ r.token = req[q].token
    BY <1>1 DEF RequestState
  <2> HIDE DEF r
  <2> QED BY <1>5, <2>1, <2>2
<1>9. ASSUME NEW q \in Request, CommitDelete(q) PROVE Settles(c)
  <2>1. \A t \in Token : token'[t] = token[t] \/ token'[t] = [token[t] EXCEPT !.status = "gone"]
    BY <1>9 DEF CommitDelete
  <2>2. \A t \in Token : token'[t] = token[t] \/ token'[t].status = "gone"
    BY <1>1, <2>1 DEF TokenRow
  <2>3. RegistrationTokens(c)' \subseteq RegistrationTokens(c)
    BY <2>2
  <2> QED BY <1>5, <1>9, <2>3 DEF CommitDelete
<1> QED BY <1>2, <1>3, <1>4, <1>6, <1>7, <1>8, <1>9

LEMMA OnlyOneStep == Inv /\ OnlyOne /\ [Next]_vars => OnlyOne'
<1> SUFFICES ASSUME Inv, OnlyOne, [Next]_vars PROVE OnlyOne'
  OBVIOUS
<1>1. CASE UNCHANGED vars
  BY <1>1 DEF vars, OnlyOne, Orderly, Only, RegistrationTokens, TokensOf, Stored, AtWork
<1>2. CASE Next
  <2> SUFFICES ASSUME NEW c \in Client, Orderly(c)' PROVE Only(c)'
    BY DEF OnlyOne
  <2>1. Only(c)
    BY <1>2, OrderlyBefore DEF OnlyOne
  <2>2. ASSUME Settles(c) PROVE Only(c)'
    BY <1>2, <2>1, <2>2, SettlingKeeps
  <2> QED BY <1>2, <2>2, OthersSettle, RegisterOnly, LoadTokenOnly, PutOnly DEF Next
<1> QED BY <1>1, <1>2

\* A client nobody's requests overlapped on, and whose ordinary tokens lack the scope, has at
\* most one registration token after any number of updates
\* (DynamicClientRegistrationManagementView.put).
THEOREM OneToken == Spec => []OneTokenUnlessRaced
<1>1. Init => OnlyOne
  <2> SUFFICES ASSUME Init, NEW c \in Client PROVE Only(c)
    BY DEF OnlyOne
  <2>1. RegistrationTokens(c) = {}
    BY DEF Init, RegistrationTokens, TokensOf, Stored, NoToken
  <2>2. AtWork(c) = {}
    BY RegistrationAssumption DEF Init, AtWork, Idle
  <2> QED BY <2>1, <2>2 DEF Only
<1>2. ASSUME OnlyOne PROVE OneTokenUnlessRaced
  <2> SUFFICES ASSUME NEW c \in Client, Orderly(c) PROVE Cardinality(RegistrationTokens(c)) <= 1
    BY DEF OneTokenUnlessRaced, Orderly
  <2>1. CASE RegistrationTokens(c) = {}
    BY <2>1, FS_EmptySet
  <2>2. CASE RegistrationTokens(c) # {}
    <3>1. PICK t : t \in RegistrationTokens(c)
      BY <2>2
    <3>2. RegistrationTokens(c) = {t}
      BY <1>2, <3>1 DEF OnlyOne, Only
    <3> QED BY <3>2, FS_Singleton
  <2> QED BY <2>1, <2>2
<1>3. OnlyOne => OneTokenUnlessRaced
  BY <1>2
<1> QED BY InitInv, NextInv, OnlyOneStep, <1>1, <1>3, PTL DEF Spec

----------------------------------------------------------------------------
(* What a row may be configured to: ClientConfiguration.                   *)

\* The operations on one row, with any fields an operator enters.
Write ==
  \/ \E m \in Metadata : RegisterClient(m) \/ UpdateClient(m)
  \/ \E r \in RowType : CreateByHand(r) \/ \E newSecret \in BOOLEAN : EditByHand(r, newSecret)
  \/ DeleteClient
ConfigurationSpec == ConfigurationInit /\ [][Write]_configuration

\* What a save leaves: clean() accepted the row, and its secret is hashed as it is meant to be,
\* a blank one as well.
Kept(r) == /\ r \in RowType /\ Clean(r)
           /\ r.hash => r.hashed /\ ~r.blank

\* What metadata makes of a row: the type follows the method, a secret is hashed unless it is
\* to sign, and the signing algorithm is the one of a new row.
Derived(r) ==
  /\ r.algorithm = "none" /\ r.method # "unset" /\ r.grant # "openid-hybrid"
  /\ r.type = IF r.method = "none" THEN "public" ELSE "confidential"
  /\ r.hash = (r.method # "client_secret_jwt") /\ r.hashed = r.hash

\* For every way to write the row.
RowInv == /\ rsa \in BOOLEAN /\ edited \in BOOLEAN
          /\ \A r \in row : Kept(r) /\ (~edited => Derived(r) /\ r.source = "dcr")

\* Saving what clean() accepted keeps it acceptable.
LEMMA SavedIsKept ==
  ASSUME NEW r \in RowType, Clean(r)
  PROVE  Kept(Saved(r))
<1> DEFINE s == Saved(r)
<1>1. /\ s \in RowType /\ s.source = r.source /\ s.type = r.type /\ s.method = r.method
      /\ s.grant = r.grant /\ s.redirects = r.redirects /\ s.keys = r.keys
      /\ s.algorithm = r.algorithm /\ s.hash = r.hash /\ s.hashed = (r.hashed \/ r.hash)
      /\ s.blank = (r.blank /\ ~r.hash)
      /\ r.hash \in BOOLEAN /\ r.hashed \in BOOLEAN /\ r.blank \in BOOLEAN
  BY DEF Saved, RowType
<1> HIDE DEF s
<1>2. Clean(s)
  BY <1>1 DEF Clean, CleanSigning, CleanAssertion, Plain
<1>3. Kept(s)
  BY <1>1, <1>2 DEF Kept
<1> QED BY <1>3 DEF s

\* The fields of metadata.
LEMMA MetadataFields ==
  ASSUME NEW m \in Metadata, WellFormed(m)
  PROVE  /\ m.method \in (Methods \ {"unset", "other"}) \cup {"omitted"}
         /\ MethodOf(m) \in Methods \ {"unset"}
         /\ KeysOf(m) \in {"none", "stored", "remote"}
         /\ m.redirects \in {"none", "good", "bad"}
         /\ \E g \in Grants \ {"openid-hybrid"} : Meaningful(m) = {g}
<1>1. m.method \in (Methods \ {"unset"}) \cup {"omitted", "other"}
  BY DEF Metadata
<1>2. m.redirects \in {"none", "good", "bad"}
  BY DEF Metadata
<1>3. "client_secret_basic" \in Methods \ {"unset"}
  BY DEF Methods
<1> QED BY <1>1, <1>2, <1>3 DEF WellFormed, HasOneGrant, MethodOf, KeysOf

\* What a client's metadata makes of a row no operator touched.
LEMMA ReplaceEffect ==
  ASSUME NEW r \in RowType, NEW m \in Metadata, WellFormed(m)
  PROVE  LET t == Replace(r, m) IN
         /\ t \in RowType /\ t.source = r.source /\ t.algorithm = r.algorithm
         /\ t.method = MethodOf(m) /\ t.method # "unset" /\ t.grant # "openid-hybrid"
         /\ t.redirects = m.redirects /\ t.keys = KeysOf(m) /\ t.hashed = r.hashed
         /\ t.type = IF t.method = "none" THEN "public" ELSE "confidential"
         /\ t.hash = (t.method # "client_secret_jwt")
<1> DEFINE t == Replace(r, m)
           g == CHOOSE x \in Meaningful(m) : TRUE
<1>1. /\ MethodOf(m) \in Methods \ {"unset"} /\ KeysOf(m) \in {"none", "stored", "remote", "bad"}
      /\ m.redirects \in {"none", "good", "bad"} /\ g \in Grants \ {"openid-hybrid"}
  BY MetadataFields
<1>2. t = [r EXCEPT !.type = IF MethodOf(m) = "none" THEN "public" ELSE "confidential",
            !.method = MethodOf(m), !.grant = g,
            !.redirects = m.redirects, !.keys = KeysOf(m),
            !.hash = MethodOf(m) # "client_secret_jwt"]
  BY DEF Replace
<1> HIDE DEF t, g
<1>3. t \in RowType
  BY <1>1, <1>2 DEF RowType
<1>4. /\ t.source = r.source /\ t.algorithm = r.algorithm
      /\ t.method = MethodOf(m) /\ t.grant = g /\ t.redirects = m.redirects
      /\ t.keys = KeysOf(m) /\ t.hashed = r.hashed
      /\ t.type = IF MethodOf(m) = "none" THEN "public" ELSE "confidential"
      /\ t.hash = (MethodOf(m) # "client_secret_jwt")
  BY <1>1, <1>2 DEF RowType
<1>5. t.method # "unset" /\ t.grant # "openid-hybrid"
  BY <1>1, <1>4
<1> QED BY <1>3, <1>4, <1>5 DEF t

\* A derived row stays derived when it is replaced and saved: the secret was never hashed, or is
\* not to sign.
LEMMA SavedIsDerived ==
  ASSUME NEW r \in RowType, NEW m \in Metadata, WellFormed(m), Clean(Replace(r, m)),
         r.algorithm = "none"
  PROVE  Derived(Saved(Replace(r, m))) /\ Saved(Replace(r, m)).source = r.source
<1> DEFINE t == Replace(r, m)
           s == Saved(t)
<1>1. /\ t \in RowType /\ t.source = r.source /\ t.algorithm = r.algorithm
      /\ t.method # "unset" /\ t.grant # "openid-hybrid" /\ t.hashed = r.hashed
      /\ t.type = IF t.method = "none" THEN "public" ELSE "confidential"
      /\ t.hash = (t.method # "client_secret_jwt") /\ Clean(t)
  BY ReplaceEffect
<1> HIDE DEF t
<1>2. /\ s.source = t.source /\ s.type = t.type /\ s.method = t.method /\ s.grant = t.grant
      /\ s.algorithm = t.algorithm /\ s.hash = t.hash /\ s.hashed = (t.hashed \/ t.hash)
  BY <1>1 DEF Saved, RowType
<1>3. t.method = "client_secret_jwt" => ~t.hashed
  BY <1>1 DEF Clean, CleanAssertion, Plain
<1>4. t.hashed \in BOOLEAN /\ t.hash \in BOOLEAN
  BY <1>1 DEF RowType
<1> HIDE DEF s
<1>5. Derived(s) /\ s.source = r.source
  BY <1>1, <1>2, <1>3, <1>4 DEF Derived
<1> QED BY <1>5 DEF s, t

LEMMA NewRowType == NewRow \in RowType /\ NewRow.algorithm = "none" /\ NewRow.source = "dcr"
  BY DEF NewRow, RowType, Methods, JwtMethods, Grants

LEMMA RowStep == RowInv /\ [Write]_configuration => RowInv'
<1> SUFFICES ASSUME RowInv, [Write]_configuration PROVE RowInv'
  OBVIOUS
<1>1. ASSUME NEW m \in Metadata, RegisterClient(m) PROVE RowInv'
  <2>1. /\ WellFormed(m) /\ Clean(Replace(NewRow, m)) /\ row' = {Saved(Replace(NewRow, m))}
        /\ edited' = edited /\ rsa' = rsa
    BY <1>1 DEF RegisterClient
  <2>2. Kept(Saved(Replace(NewRow, m)))
    BY <2>1, NewRowType, ReplaceEffect, SavedIsKept
  <2>3. Derived(Saved(Replace(NewRow, m))) /\ Saved(Replace(NewRow, m)).source = "dcr"
    BY <2>1, NewRowType, SavedIsDerived
  <2> DEFINE s == Saved(Replace(NewRow, m))
  <2>4. row' = {s} /\ Kept(s) /\ Derived(s) /\ s.source = "dcr"
    BY <2>1, <2>2, <2>3
  <2> HIDE DEF s
  <2> QED BY <2>1, <2>4 DEF RowInv, Kept, Clean, CleanSigning
<1>2. ASSUME NEW m \in Metadata, UpdateClient(m) PROVE RowInv'
  <2>1. PICK old \in row : /\ WellFormed(m) /\ Clean(Replace(old, m)) /\ old.source = "dcr"
                           /\ row' = {Saved(Replace(old, m))} /\ edited' = edited /\ rsa' = rsa
    BY <1>2 DEF UpdateClient
  <2>2. old \in RowType /\ (~edited => old.algorithm = "none")
    BY DEF RowInv, Kept, Derived
  <2>3. Kept(Saved(Replace(old, m)))
    BY <2>1, <2>2, ReplaceEffect, SavedIsKept
  <2>4. ~edited => Derived(Saved(Replace(old, m))) /\ Saved(Replace(old, m)).source = "dcr"
    BY <2>1, <2>2, SavedIsDerived
  <2> DEFINE s == Saved(Replace(old, m))
  <2>5. row' = {s} /\ Kept(s) /\ (~edited => Derived(s) /\ s.source = "dcr")
    BY <2>1, <2>3, <2>4
  <2> HIDE DEF s
  <2> QED BY <2>1, <2>5 DEF RowInv, Kept, Clean, CleanSigning
<1>3. ASSUME NEW r \in RowType, NEW newSecret \in BOOLEAN, CreateByHand(r) \/ EditByHand(r, newSecret)
      PROVE  RowInv'
  <2>1. Clean(r) /\ row' = {Saved(r)} /\ edited' = TRUE /\ rsa' = rsa
    BY <1>3 DEF CreateByHand, EditByHand
  <2> DEFINE s == Saved(r)
  <2>2. row' = {s} /\ Kept(s)
    BY <2>1, SavedIsKept
  <2> HIDE DEF s
  <2> QED BY <2>1, <2>2 DEF RowInv, Kept, Clean, CleanSigning
<1>4. CASE DeleteClient
  BY <1>4 DEF DeleteClient, RowInv
<1>5. CASE UNCHANGED configuration
  BY <1>5 DEF configuration, RowInv, Kept, Clean, CleanSigning
<1> QED BY <1>1, <1>2, <1>3, <1>4, <1>5 DEF Write

LEMMA RowHolds == ConfigurationSpec => []RowInv
<1>1. ConfigurationInit => RowInv
  BY DEF ConfigurationInit, RowInv
<1> QED BY <1>1, RowStep, PTL DEF ConfigurationSpec

\* Whatever is registered, updated and edited, in whatever order: the keys that sign a client's
\* tokens and verify its assertions are there (AbstractApplication.clean, ClientSecretField).
THEOREM KeysStayUsable == ConfigurationSpec => []KeysAreUsable
<1>1. RowInv => KeysAreUsable
  BY DEF RowInv, Kept, KeysAreUsable, HasSigningKey, HasHmacKey, Clean, CleanSigning, CleanAssertion, Plain,
         JwtMethods, RowType
<1> QED BY <1>1, RowHolds, PTL

\* The metadata a derived row reads back as are those it was made from.
LEMMA ReadBack ==
  ASSUME NEW r, Kept(r), Derived(r)
  PROVE  /\ WellFormed(Response(r)) /\ Clean(Replace(r, Response(r)))
         /\ Saved(Replace(r, Response(r))) = r
<1> DEFINE m == Response(r)
<1>1. /\ r \in RowType /\ Clean(r) /\ r.hash \in BOOLEAN
      /\ r.keys \in {"none", "stored", "remote", "bad"} /\ r.keys # "bad"
      /\ r.grant \in Grants \ {"openid-hybrid"} /\ r.method \in Methods \ {"unset"}
  BY DEF Kept, Derived, RowType, Clean, CleanAssertion
<1>2. /\ m.grants = IF r.grant = "authorization_code" THEN {r.grant, "refresh_token"} ELSE {r.grant}
      /\ m.redirects = r.redirects /\ m.method = r.method
      /\ m.jwks = IF r.keys = "stored" THEN "good" ELSE "absent"
      /\ m.uri = IF r.keys = "remote" THEN "good" ELSE "absent"
  BY <1>1 DEF Response
<1> HIDE DEF m
<1>3. Meaningful(m) = {r.grant}
  BY <1>1, <1>2 DEF Meaningful, Grants
<1>4. MethodOf(m) = r.method /\ m.method # "other"
  BY <1>1, <1>2 DEF MethodOf, Methods, JwtMethods
<1>5. KeysOf(m) = r.keys
  BY <1>1, <1>2 DEF KeysOf
<1>6. WellFormed(m)
  BY <1>1, <1>2, <1>3, <1>4, <1>5 DEF WellFormed, HasOneGrant, Clean, CleanAssertion, RedirectGrants
<1>7. Replace(r, m) = r
  <2>1. (CHOOSE g \in Meaningful(m) : TRUE) = r.grant
    BY <1>3
  <2>2. [r EXCEPT !.type = r.type, !.method = r.method, !.grant = r.grant, !.redirects = r.redirects,
                  !.keys = r.keys, !.hash = r.hash] = r
    BY <1>1 DEF RowType
  <2>3. /\ (IF MethodOf(m) = "none" THEN "public" ELSE "confidential") = r.type
        /\ (MethodOf(m) # "client_secret_jwt") = r.hash
    BY <1>4 DEF Derived
  <2> QED BY <1>2, <1>4, <1>5, <2>1, <2>2, <2>3 DEF Replace
<1>8. Saved(r) = r
  <2>1. (r.hashed \/ r.hash) = r.hashed
    BY <1>1 DEF Derived
  <2>2. (r.blank /\ ~r.hash) = r.blank
    BY <1>1 DEF Kept, RowType
  <2>3. [r EXCEPT !.hashed = r.hashed, !.blank = r.blank] = r
    BY <1>1 DEF RowType
  <2> QED BY <2>1, <2>2, <2>3 DEF Saved
<1> QED BY <1>1, <1>6, <1>7, <1>8 DEF m

\* Of a row no operator touched: what a client reads back can be sent back, and changes nothing
\* (_application_to_response, _build_application_kwargs).
THEOREM ReadBackHolds == ConfigurationSpec => []ReadBackIsStable
<1>1. RowInv => ReadBackIsStable
  BY ReadBack DEF RowInv, ReadBackIsStable
<1> QED BY <1>1, RowHolds, PTL

\* No registration locks its client out; an update or an edit that does meets a client that had no
\* need for a secret (DynamicClientRegistrationManagementView.put).
THEOREM LockOutsAreNew == ConfigurationSpec => OnlyNewNeedsLockOut
<1>1. RowInv /\ [Write]_configuration =>
        [LockedOut' /\ ~LockedOut =>
           \E r \in row : r.type = "public" \/ r.method = "private_key_jwt"]_configuration
  <2> SUFFICES ASSUME RowInv, Write, LockedOut', ~LockedOut
               PROVE  \E r \in row : r.type = "public" \/ r.method = "private_key_jwt"
    OBVIOUS
  <2>1. ASSUME NEW old \in row, ~held
        PROVE  old.type = "public" \/ old.method = "private_key_jwt"
    <3>1. old.type \in {"public", "confidential"}
      BY DEF RowInv, Kept, RowType
    <3> QED BY <2>1, <3>1 DEF LockedOut
  <2>2. ASSUME NEW m \in Metadata, RegisterClient(m) PROVE FALSE
    <3>1. /\ WellFormed(m) /\ Clean(Replace(NewRow, m)) /\ row' = {Saved(Replace(NewRow, m))}
          /\ held' = ToldSecret(Replace(NewRow, m))
      BY <2>2 DEF RegisterClient
    <3> DEFINE t == Replace(NewRow, m)
               s == Saved(t)
    <3>2. t \in RowType /\ t.algorithm = "none"
      BY <3>1, NewRowType, ReplaceEffect
    <3> HIDE DEF t
    <3>3. s.type = t.type /\ s.method = t.method /\ s.algorithm = "none"
      BY <3>2 DEF Saved, RowType
    <3>4. row' = {s} /\ held' = ToldSecret(t)
      BY <3>1 DEF t
    <3> HIDE DEF s
    <3> QED BY <3>3, <3>4 DEF LockedOut, ToldSecret
  <2>3. ASSUME NEW m \in Metadata, UpdateClient(m)
        PROVE  \E r \in row : r.type = "public" \/ r.method = "private_key_jwt"
    BY <2>1, <2>3 DEF UpdateClient, LockedOut
  <2>4. ASSUME NEW r \in RowType, CreateByHand(r) PROVE FALSE
    BY <2>4 DEF CreateByHand, LockedOut
  <2>5. ASSUME NEW r \in RowType, NEW newSecret \in BOOLEAN, EditByHand(r, newSecret)
        PROVE  \E x \in row : x.type = "public" \/ x.method = "private_key_jwt"
    <3>1. PICK old \in row : held' = (held \/ newSecret)
      BY <2>5 DEF EditByHand
    <3>2. ~held'
      BY DEF LockedOut
    <3>3. ~held
      BY <3>1, <3>2
    <3> QED BY <2>1, <3>1, <3>3
  <2>6. ASSUME DeleteClient PROVE FALSE
    BY <2>6 DEF DeleteClient, LockedOut
  <2> QED BY <2>2, <2>3, <2>4, <2>5, <2>6 DEF Write
<1> QED BY <1>1, RowHolds, PTL DEF ConfigurationSpec, OnlyNewNeedsLockOut

----------------------------------------------------------------------------
(* Who is admitted (ClientAuthentication), for any clients and requests.   *)

\* Any clients under any names, and any request they or others may send.
AnyClients(clients) ==
  /\ \A id \in DOMAIN clients : clients[id] \in ClientRecord
  /\ DOMAIN clients \cap {"absent", ""} = {}
AnyRequest(r) ==
  /\ \A h, g \in r.basic : h = g
  /\ \A a, b \in r.assertion : a = b
  /\ \A h \in r.basic : h.scheme \in {"Basic", "basic"}

LEMMA OneRequest ==
  ASSUME NEW clients, NEW server, NEW r, AnyClients(clients), AnyRequest(r)
  PROVE  /\ AdmissionIsSound(clients, server, r)
         /\ PushIsSound(clients, server, r)
         /\ AdmissionIsOpen(clients, server, r)
<1> USE DEF Known, JwtOnly, AssertionMethods, PresentsAnything, PresentsAssertion
<1>1. \A id \in DOMAIN clients :
        /\ clients[id].method \in AssertionMethods => clients[id].type = "confidential"
        /\ clients[id].type \in {"public", "confidential"}
        /\ id \notin {"absent", ""}
  BY DEF AnyClients, ClientRecord
<1>a. ASSUME NEW a, a.aud \cap AcceptedAudiences(server) # {} \/ MeantForUs(server, a)
      PROVE  a.aud \cap AcceptedAudiences(server) # {} /\ MeantForUs(server, a)
  BY <1>a DEF AcceptedAudiences, MeantForUs
<1>b. ASSUME NEW a, NEW id, a.sub = id, a.iss = id
      PROVE  AllowedAlg(clients, id, a.alg) <=>
               <<clients[id].method, a.alg>> \in {<<"private_key_jwt", "asymmetric">>,
                                                 <<"client_secret_jwt", "hmac">>}
  BY DEF AllowedAlg
<1>2. ASSUME NEW id \in AssertionClients(clients, server, r)
      PROVE  id \in DOMAIN clients /\ Asserted(clients, server, r, id)
  <2>1. PICK a \in r.assertion :
          /\ a.sub = id /\ a.iss = id /\ r.id \in {"absent", id} /\ id \in DOMAIN clients
          /\ r.type = "jwt-bearer" /\ ~OtherMechanism(r)
          /\ AllowedAlg(clients, id, a.alg) /\ a.signed = id
          /\ a.aud \cap AcceptedAudiences(server) # {}
    BY DEF AssertionClients
  <2>2. r.basic = {} /\ r.secret = "absent"
    BY <2>1 DEF OtherMechanism, AnyRequest
  <2>3. MeantForUs(server, a)
    BY <2>1, <1>a
  <2> QED BY <2>1, <2>2, <2>3, <1>b DEF Asserted
<1>c. ASSUME NEW id, Asserted(clients, server, r, id)
      PROVE  /\ AssertionClients(clients, server, r) = {id}
             /\ PresentsAnything(r)
  <2>1. PICK a \in r.assertion :
          /\ a.sub = id /\ a.iss = id /\ a.signed = id /\ MeantForUs(server, a)
          /\ <<clients[id].method, a.alg>> \in {<<"private_key_jwt", "asymmetric">>,
                                               <<"client_secret_jwt", "hmac">>}
    BY <1>c DEF Asserted
  <2>2. /\ r.type = "jwt-bearer" /\ ~OtherMechanism(r) /\ r.id \in {"absent", id}
        /\ id \in DOMAIN clients
    BY <1>c DEF Asserted, OtherMechanism
  <2>3. a.aud \cap AcceptedAudiences(server) # {} /\ AllowedAlg(clients, id, a.alg)
    BY <2>1, <1>a, <1>b
  <2>4. id \in AssertionClients(clients, server, r)
    BY <2>1, <2>2, <2>3 DEF AssertionClients
  <2>5. \A x \in AssertionClients(clients, server, r) : x = id
    BY <2>1 DEF AssertionClients, AnyRequest
  <2> QED BY <2>2, <2>4, <2>5
<1>3. ASSUME NEW id \in BasicClients(clients, r) \cup BodyClients(clients, r)
      PROVE  /\ id \in DOMAIN clients /\ ~JwtOnly(clients, id)
             /\ Names(r, id)
             /\ clients[id].type = "confidential" /\ ~clients[id].blank => ShowsSecret(r, id)
  <2>1. CASE id \in BasicClients(clients, r)
    BY <2>1 DEF BasicClients, SecretOpens, ShowsSecret, Names, Secret
  <2>2. CASE id \in BodyClients(clients, r)
    <3>1. r.id = id /\ SecretOpens(clients, r, id, BodySecret(r))
      BY <2>2 DEF BodyClients
    <3>2. id \notin {"absent", ""}
      BY <1>1, <3>1 DEF SecretOpens
    <3> QED BY <3>1, <3>2 DEF SecretOpens, ShowsSecret, Names, Secret, BodySecret
  <2> QED BY <2>1, <2>2
<1>4. ASSUME NEW id \in AuthenticateClient(clients, server, r)
      PROVE  /\ id \in DOMAIN clients
             /\ PresentsAnything(r) \/ JwtOnly(clients, id) => Asserted(clients, server, r, id)
             /\ Asserted(clients, server, r, id) \/ Names(r, id)
             /\ clients[id].type = "confidential" /\ ~clients[id].blank =>
                  Asserted(clients, server, r, id) \/ ShowsSecret(r, id)
  <2>1. CASE PresentsAssertion(r)
    BY <1>2, <2>1 DEF AuthenticateClient
  <2>2. CASE ~PresentsAssertion(r)
    BY <1>3, <2>2 DEF AuthenticateClient
  <2> QED BY <2>1, <2>2
<1>5. ASSUME NEW id \in AuthenticateClientId(clients, r)
      PROVE  id \in DOMAIN clients /\ clients[id].type = "public"
             /\ ~JwtOnly(clients, id) /\ Names(r, id)
  BY <1>1 DEF AuthenticateClientId, Names
<1>6. AdmissionIsSound(clients, server, r)
  BY <1>4, <1>5 DEF AdmissionIsSound, Admitted,
                    AuthenticationRequired
<1>7. PushIsSound(clients, server, r)
  BY <1>4, <1>5 DEF PushIsSound, AdmittedToPAR
<1>8. ASSUME ~PresentsAnything(r), NEW h \in r.basic, h.scheme = "Basic",
             h.secret = Secret(clients, h.id),
             h.id \in DOMAIN clients, clients[h.id].method \notin AssertionMethods
      PROVE  Admitted(clients, server, r) = {h.id}
  <2>1. BasicClients(clients, r) = {h.id}
    BY <1>8 DEF BasicClients, SecretOpens, AnyRequest
  <2>2. AuthenticationRequired(clients, r)
    BY <1>8 DEF AuthenticationRequired, PresentsBasic
  <2> QED BY <1>8, <2>1, <2>2 DEF Admitted, AuthenticateClient
<1>9. ASSUME ~PresentsAnything(r), r.basic = {}, r.id \in DOMAIN clients,
             clients[r.id].type = "public", ~Given(r.secret)
      PROVE  Admitted(clients, server, r) = {r.id}
  BY <1>9 DEF Admitted, AuthenticationRequired,
              PresentsBasic, AuthenticateClientId
<1>10. ASSUME ~PresentsAnything(r), r.basic = {}, r.id \in DOMAIN clients,
              clients[r.id].method \notin AssertionMethods,
              BodySecret(r) = Secret(clients, r.id),
              clients[r.id].type = "confidential" \/ Given(r.secret)
       PROVE  Admitted(clients, server, r) = {r.id}
  <2>1. BasicClients(clients, r) = {}
    BY <1>10 DEF BasicClients
  <2>2. BodyClients(clients, r) = {r.id}
    BY <1>10 DEF BodyClients, SecretOpens
  <2>3. AuthenticationRequired(clients, r)
    BY <1>1, <1>10 DEF AuthenticationRequired, Given
  <2> QED BY <1>10, <2>1, <2>2, <2>3
          DEF Admitted, AuthenticateClient
<1>11. ASSUME NEW id, Asserted(clients, server, r, id)
       PROVE  Admitted(clients, server, r) = {id} /\ AdmittedToPAR(clients, server, r) = {id}
  BY <1>c, <1>11 DEF Admitted, AdmittedToPAR, AuthenticateClient, AuthenticationRequired
<1>12. AdmissionIsOpen(clients, server, r)
  <2>1. ASSUME ~PresentsAnything(r), r.basic = {}, r.id \in DOMAIN clients,
               clients[r.id].method \notin AssertionMethods, BodySecret(r) = Secret(clients, r.id)
        PROVE  Admitted(clients, server, r) = {r.id}
    BY <1>1, <1>9, <1>10, <2>1
  <2>2. \A h \in r.basic :
          ~PresentsAnything(r) /\ h.scheme = "Basic" /\ h.id \in DOMAIN clients
            /\ h.secret = Secret(clients, h.id) /\ clients[h.id].method \notin AssertionMethods =>
              Admitted(clients, server, r) = {h.id}
    BY <1>8
  <2> HIDE DEF PresentsAnything, AssertionMethods
  <2> QED BY <1>9, <1>11, <2>1, <2>2 DEF AdmissionIsOpen
<1> QED BY <1>6, <1>7, <1>12

\* However many clients are registered, under whatever names, and whatever a request carries:
\* nobody is admitted as a client without what that client registered to show, be it an
\* assertion or a secret that is not blank, and nobody who shows it alone is kept out
\* (OAuth2Validator.authenticate_client, client_authentication_required,
\* authenticate_par_client).  A secret that is blank takes nothing to show.
THEOREM AdmissionHolds ==
  ASSUME NEW clients, NEW server, AnyClients(clients)
  PROVE  /\ \A r : AnyRequest(r) => /\ AdmissionIsSound(clients, server, r)
                                   /\ PushIsSound(clients, server, r)
                                   /\ AdmissionIsOpen(clients, server, r)
         /\ TableIsSound(clients, server)
<1>1. ASSUME NEW r \in SomeRequests PROVE AnyRequest(r)
  <2> DEFINE H == [scheme: {"Basic"}, id: {"c", "x"}, secret: ClientIds \cup {""}]
                  \cup {[scheme |-> "basic", id |-> "c", secret |-> "c"]}
  <2>1. ASSUME NEW h \in H PROVE h.scheme \in {"Basic", "basic"}
    <3>1. CASE h \in [scheme: {"Basic"}, id: {"c", "x"}, secret: ClientIds \cup {""}]
      BY <3>1
    <3>2. CASE h = [scheme |-> "basic", id |-> "c", secret |-> "c"]
      BY <3>2
    <3> QED BY <2>1, <3>1, <3>2
  <2>2. r.basic \in Upto1(H) /\ r.assertion \in Upto1(SomeAssertions)
    BY DEF SomeRequests
  <2> HIDE DEF H
  <2>3. r.basic = {} \/ \E h \in H : r.basic = {h}
    BY <2>2 DEF Upto1
  <2>4. \A a, b \in r.assertion : a = b
    BY <2>2 DEF Upto1
  <2> QED BY <2>1, <2>3, <2>4 DEF AnyRequest
<1>2. \A r : AnyRequest(r) => /\ AdmissionIsSound(clients, server, r)
                             /\ PushIsSound(clients, server, r)
                             /\ AdmissionIsOpen(clients, server, r)
  BY OneRequest
<1> QED BY <1>1, <1>2 DEF TableIsSound

----------------------------------------------------------------------------
(* Which URIs match (RedirectMatching), for any hosts, paths and queries.  *)

\* The URIs there are: of any parts, with a host of any letters, and without "//" neither a host
\* nor what goes with one.
IsUri(u) ==
  /\ u = [scheme |-> u.scheme, authority |-> u.authority, userinfo |-> u.userinfo,
          host |-> u.host, port |-> u.port, path |-> u.path, query |-> u.query,
          fragment |-> u.fragment]
  /\ u.authority \in BOOLEAN /\ u.userinfo \in BOOLEAN /\ \E Char : u.host \in Seq(Char)
  /\ ~u.authority => u.host = <<>> /\ ~u.userinfo /\ u.port = 0

\* A suffix, by its letters.
LEMMA SuffixByIndex ==
  ASSUME NEW S, NEW s \in Seq(S), NEW t \in Seq(S)
  PROVE  IsSuffix(s, t) <=> /\ Len(s) <= Len(t)
                            /\ \A i \in 1..Len(s) : s[i] = t[Len(t) - Len(s) + i]
<1> DEFINE rs == Reverse(s)
           rt == Reverse(t)
<1>1. Len(s) \in Nat /\ Len(t) \in Nat
  OBVIOUS
<1>2. rs \in Seq(S) /\ Len(rs) = Len(s) /\ \A i \in 1..Len(s) : rs[i] = s[(Len(s) - i) + 1]
  BY DEF Reverse
<1>3. rt \in Seq(S) /\ Len(rt) = Len(t) /\ \A i \in 1..Len(t) : rt[i] = t[(Len(t) - i) + 1]
  BY DEF Reverse
<1> HIDE DEF rs, rt
<1>4. IsSuffix(s, t) <=> Len(s) <= Len(t) /\ \A i \in 1..Len(s) : rs[i] = rt[i]
  <2>1. IsSuffix(s, t) <=> IsPrefix(rs, rt)
    BY DEF IsSuffix, rs, rt
  <2>2. IsPrefix(rs, rt) <=> Len(s) <= Len(t) /\ \A i \in 1..Len(s) : rs[i] = rt[i]
    BY <1>1, <1>2, <1>3 DEF IsPrefix
  <2> QED BY <2>1, <2>2
<1>5. ASSUME Len(s) <= Len(t)
      PROVE  (\A i \in 1..Len(s) : rs[i] = rt[i]) <=> \A i \in 1..Len(s) : s[i] = t[Len(t) - Len(s) + i]
  <2>1. ASSUME NEW i \in 1..Len(s)
        PROVE  rs[i] = s[Len(s) - i + 1] /\ rt[i] = t[Len(t) - Len(s) + (Len(s) - i + 1)]
    <3>1. i \in 1..Len(t) /\ i \in Int
      BY <1>1, <1>5
    <3>2. Len(t) - Len(s) + (Len(s) - i + 1) = (Len(t) - i) + 1
      BY <1>1, <3>1
    <3> QED BY <1>2, <1>3, <3>1, <3>2
  <2>2. \A i \in 1..Len(s) : Len(s) - i + 1 \in 1..Len(s) /\ Len(s) - (Len(s) - i + 1) + 1 = i
    BY <1>1
  <2> QED BY <2>1, <2>2
<1> QED BY <1>4, <1>5

\* A host that ends like a wildcard has its dots, and those of the wildcard are not before them.
LEMMA WildcardDots ==
  ASSUME NEW C, NEW w \in Seq(C), StartsWith(w, "*"), NEW h \in Seq(C), IsSuffix(Tail(w), h)
  PROVE  Dots(w) <= Dots(h)
<1> DEFINE S == {i \in DOMAIN w : w[i] = "."}
           T == {i \in DOMAIN h : h[i] = "."}
           d == Len(h) - Len(w)
           f == [i \in S |-> d + i]
<1>1. Len(w) \in Nat \ {0} /\ Len(h) \in Nat /\ DOMAIN w = 1..Len(w) /\ DOMAIN h = 1..Len(h) /\ w[1] = "*"
  BY DEF StartsWith
<1>2. Tail(w) \in Seq(C) /\ Len(Tail(w)) = Len(w) - 1 /\ \A i \in 1..Len(w) - 1 : Tail(w)[i] = w[i + 1]
  BY <1>1
<1>3. Len(w) - 1 <= Len(h) /\ \A i \in 1..Len(w) - 1 : Tail(w)[i] = h[Len(h) - (Len(w) - 1) + i]
  <2> DEFINE v == Tail(w)
  <2>1. v \in Seq(C) /\ Len(v) = Len(w) - 1 /\ IsSuffix(v, h)
    BY <1>2
  <2> HIDE DEF v
  <2>2. Len(v) <= Len(h) /\ \A i \in 1..Len(v) : v[i] = h[Len(h) - Len(v) + i]
    BY <2>1, SuffixByIndex
  <2>3. Len(w) - 1 <= Len(h) /\ \A i \in 1..Len(w) - 1 : v[i] = h[Len(h) - (Len(w) - 1) + i]
    BY <2>1, <2>2
  <2> QED BY <2>3 DEF v
<1>4. ASSUME NEW i \in S PROVE d + i \in T
  <2>1. i \in 2..Len(w) /\ w[i] = "."
    BY <1>1
  <2>2. i - 1 \in 1..Len(w) - 1 /\ (i - 1) + 1 = i /\ Len(h) - (Len(w) - 1) + (i - 1) = d + i
    BY <1>1, <2>1
  <2>3. h[d + i] = w[i]
    BY <1>2, <1>3, <2>2
  <2>4. d + i \in 1..Len(h)
    BY <1>1, <1>3, <2>1
  <2> QED BY <1>1, <2>1, <2>3, <2>4
<1>5. IsFiniteSet(T)
  <2>1. IsFiniteSet(1..Len(h))
    BY <1>1, FS_Interval
  <2> QED BY <1>1, <2>1, FS_Subset
<1>6. f \in Injection(S, T)
  <2>1. f \in [S -> T]
    BY <1>4
  <2>2. \A i, j \in S : f[i] = f[j] => i = j
    BY <1>1
  <2> QED BY <2>1, <2>2 DEF Injection, IsInjective
<1>7. Cardinality(S) <= Cardinality(T)
  <2> HIDE DEF S, T, f
  <2> QED BY <1>5, <1>6, FS_Injection
<1> QED BY <1>7 DEF Dots

\* Dots are counted.
LEMMA DotsAreNat ==
  ASSUME NEW C, NEW h \in Seq(C) PROVE Dots(h) \in Nat
<1>1. DOMAIN h = 1..Len(h) /\ Len(h) \in Nat
  OBVIOUS
<1>2. IsFiniteSet(1..Len(h))
  BY <1>1, FS_Interval
<1>3. IsFiniteSet({i \in DOMAIN h : h[i] = "."})
  BY <1>1, <1>2, FS_Subset
<1> QED BY <1>3, FS_CardinalityType DEF Dots

\* A wildcard matches its own host.
LEMMA EndsLikeItself ==
  ASSUME NEW C, NEW h \in Seq(C), h # <<>>
  PROVE  IsSuffix(Tail(h), h)
<1>1. Len(h) \in Nat \ {0}
  OBVIOUS
<1>2. Tail(h) \in Seq(C) /\ Len(Tail(h)) = Len(h) - 1 /\ \A i \in 1..Len(h) - 1 : Tail(h)[i] = h[i + 1]
  BY <1>1
<1>3. \A i \in 1..Len(h) - 1 : Len(h) - (Len(h) - 1) + i = i + 1
  BY <1>1
<1> DEFINE v == Tail(h)
<1>4. v \in Seq(C) /\ Len(v) = Len(h) - 1 /\ \A i \in 1..Len(h) - 1 : v[i] = h[i + 1]
  BY <1>2
<1> HIDE DEF v
<1>5. Len(v) <= Len(h) /\ \A i \in 1..Len(v) : v[i] = h[Len(h) - Len(v) + i]
  BY <1>1, <1>3, <1>4
<1>6. IsSuffix(v, h)
  BY <1>4, <1>5, SuffixByIndex
<1> QED BY <1>6 DEF v

\* Two URIs have a common set of letters.
LEMMA CommonLetters ==
  ASSUME NEW u, IsUri(u), NEW v, IsUri(v)
  PROVE  \E Char : u.host \in Seq(Char) /\ v.host \in Seq(Char)
<1>1. PICK C : u.host \in Seq(C)
  BY DEF IsUri
<1>2. PICK D : v.host \in Seq(D)
  BY DEF IsUri
<1>3. u.host \in Seq(C \cup D) /\ v.host \in Seq(C \cup D)
  BY <1>1, <1>2
<1> QED BY <1>3

\* URIs are equal when their parts are.
LEMMA SameParts ==
  ASSUME NEW u, IsUri(u), NEW v, IsUri(v), u.scheme = v.scheme, u.authority = v.authority,
         u.userinfo = v.userinfo, u.path = v.path, u.query = v.query, u.fragment = v.fragment
  PROVE  /\ u.port = v.port => ExceptHost(u) = ExceptHost(v)
         /\ u.host = v.host => ExceptPort(u) = ExceptPort(v)
         /\ u.port = v.port /\ u.host = v.host => u = v
<1>1. \A w : IsUri(w) =>
        w = [scheme |-> w.scheme, authority |-> w.authority, userinfo |-> w.userinfo,
             host |-> w.host, port |-> w.port, path |-> w.path, query |-> w.query,
             fragment |-> w.fragment]
  BY DEF IsUri
<1>2. \A w : IsUri(w) =>
        ExceptHost(w) = [scheme |-> w.scheme, authority |-> w.authority,
                         userinfo |-> w.userinfo, host |-> <<>>, port |-> w.port,
                         path |-> w.path, query |-> w.query, fragment |-> w.fragment]
  BY <1>1 DEF ExceptHost
<1>3. \A w : IsUri(w) =>
        ExceptPort(w) = [scheme |-> w.scheme, authority |-> w.authority,
                         userinfo |-> w.userinfo, host |-> w.host, port |-> 0,
                         path |-> w.path, query |-> w.query, fragment |-> w.fragment]
  BY <1>1 DEF ExceptPort
<1>4. u.port = v.port /\ u.host = v.host => u = v
  BY <1>1
<1>5. u.port = v.port => ExceptHost(u) = ExceptHost(v)
  BY <1>2
<1>6. u.host = v.host => ExceptPort(u) = ExceptPort(v)
  BY <1>3
<1> QED BY <1>4, <1>5, <1>6

\* What matches a registered URI is one of those it stands for.
LEMMA MatchesOne ==
  ASSUME NEW s, NEW reg, IsUri(reg), NEW u, IsUri(u), RedirectAllowed(s, u, {reg})
  PROVE  IsOneOf(s, reg, u)
<1>1. /\ u.fragment = "none" /\ ~u.userinfo /\ reg.fragment = "none" /\ ~reg.userinfo
      /\ reg.scheme = u.scheme /\ HostMatches(s, reg, u) /\ (IsLoopback(s, reg) \/ reg.port = u.port)
      /\ reg.path = u.path /\ reg.query = u.query
  BY DEF RedirectAllowed, SameQuery
<1>2. /\ u.userinfo = FALSE /\ reg.userinfo = FALSE
      /\ u.authority \in BOOLEAN /\ reg.authority \in BOOLEAN
      /\ u.host # <<>> => u.authority = TRUE
      /\ reg.host # <<>> => reg.authority = TRUE
  BY <1>1 DEF IsUri
<1>3. CASE IsWildcard(s, reg)
  <2>1. reg.host # <<>> /\ reg.host[1] = "*" /\ u.host # <<>> /\ IsSuffix(Tail(reg.host), u.host)
    BY <1>1, <1>3 DEF HostMatches, IsWildcard, StartsWith
  <2>2. ~IsLoopback(s, reg)
    BY <2>1 DEF IsLoopback, LoopbackAddress, Localhost
  <2>3. u.authority = reg.authority /\ u.port = reg.port
    BY <1>1, <1>2, <2>1, <2>2
  <2>4. ExceptHost(u) = ExceptHost(reg)
    BY <1>1, <1>2, <2>3, SameParts
  <2> QED BY <1>3, <2>1, <2>4 DEF IsOneOf
<1>4. CASE ~IsWildcard(s, reg)
  <2>1. reg.host = u.host
    BY <1>1, <1>4 DEF HostMatches
  <2>2. CASE reg.host = <<>>
    <3>1. reg.port = u.port
      BY <1>1, <2>2 DEF IsLoopback, LoopbackAddress, Localhost
    <3>2. [u EXCEPT !.authority = reg.authority] =
            [scheme |-> u.scheme, authority |-> reg.authority, userinfo |-> u.userinfo,
             host |-> u.host, port |-> u.port, path |-> u.path, query |-> u.query,
             fragment |-> u.fragment]
      BY DEF IsUri
    <3>3. reg = [scheme |-> reg.scheme, authority |-> reg.authority, userinfo |-> reg.userinfo,
                 host |-> reg.host, port |-> reg.port, path |-> reg.path, query |-> reg.query,
                 fragment |-> reg.fragment]
      BY DEF IsUri
    <3>4. [u EXCEPT !.authority = reg.authority] = reg
      BY <1>1, <1>2, <2>1, <3>1, <3>2, <3>3
    <3> QED BY <2>2, <3>4 DEF IsOneOf
  <2>3. CASE reg.host # <<>>
    <3>1. u.authority = reg.authority
      BY <1>2, <2>1, <2>3
    <3>2. CASE reg.port = u.port
      <4>1. u = reg
        BY <1>1, <1>2, <2>1, <3>1, <3>2, SameParts
      <4> QED BY <4>1 DEF IsOneOf
    <3>3. CASE IsLoopback(s, reg)
      <4>1. ExceptPort(u) = ExceptPort(reg)
        BY <1>1, <1>2, <2>1, <3>1, SameParts
      <4> QED BY <3>3, <4>1 DEF IsOneOf
    <3> QED BY <1>1, <3>2, <3>3
  <2> QED BY <2>2, <2>3
<1> QED BY <1>3, <1>4

\* What clean() accepted is no wildcard for a whole second level domain, and an http URI has
\* its host; so has what matches it.
LEMMA AcceptedIsNarrow ==
  ASSUME NEW s, NEW reg, IsUri(reg), NEW u, IsUri(u), RedirectAllowed(s, u, {reg}),
         RedirectIsAccepted(s, reg)
  PROVE  /\ u.host # reg.host => Dots(u.host) >= 2
         /\ u.scheme \in SchemesRequiringAuthority => u.host # <<>>
<1>1. reg.scheme = u.scheme /\ HostMatches(s, reg, u)
  BY DEF RedirectAllowed
<1>2. ASSUME u.host # reg.host PROVE Dots(u.host) >= 2
  <2>1. /\ s.wildcards /\ StartsWith(reg.host, "*") /\ IsSuffix(Tail(reg.host), u.host)
    BY <1>1, <1>2 DEF HostMatches, IsWildcard
  <2>2. PICK Char : reg.host \in Seq(Char) /\ u.host \in Seq(Char)
    BY CommonLetters
  <2>3. reg.host # <<>> /\ 1 \in DOMAIN reg.host /\ reg.host[1] = "*"
    BY <2>1, <2>2 DEF StartsWith
  <2>4. Dots(reg.host) >= 2
    BY <2>1, <2>3 DEF RedirectIsAccepted, Validates, HasHost, Is, IsWildcardHost
  <2> DEFINE w == reg.host
             h == u.host
  <2>5. w \in Seq(Char) /\ h \in Seq(Char) /\ StartsWith(w, "*") /\ IsSuffix(Tail(w), h)
    BY <2>1, <2>2
  <2>6. Dots(w) >= 2
    BY <2>4
  <2> HIDE DEF w, h
  <2>7. Dots(w) <= Dots(h) /\ Dots(w) \in Nat /\ Dots(h) \in Nat
    BY <2>5, WildcardDots, DotsAreNat
  <2>8. Dots(h) >= 2
    BY <2>6, <2>7
  <2> QED BY <2>8 DEF h
<1>3. ASSUME u.scheme \in SchemesRequiringAuthority PROVE u.host # <<>>
  <2>1. reg.host # <<>>
    BY <1>1, <1>3 DEF RedirectIsAccepted, Validates
  <2> QED BY <1>1, <2>1 DEF HostMatches, IsWildcard
<1> QED BY <1>2, <1>3

\* What clean() accepted is redirected to, and its origin is one.
LEMMA AcceptedWorks ==
  ASSUME NEW s, NEW reg, IsUri(reg)
  PROVE  AcceptedUriWorks(s, reg)
<1>1. ASSUME RedirectIsAccepted(s, reg), ~reg.userinfo PROVE IsRedirected(s, reg, {reg})
  <2>1. HostMatches(s, reg, reg)
    <3>1. PICK Char : reg.host \in Seq(Char)
      BY DEF IsUri
    <3> DEFINE h == reg.host
    <3>2. h \in Seq(Char)
      BY <3>1
    <3> HIDE DEF h
    <3>3. h # <<>> => IsSuffix(Tail(h), h)
      BY <3>2, EndsLikeItself
    <3> QED BY <3>3 DEF HostMatches, IsWildcard, StartsWith, h
  <2> QED BY <1>1, <2>1 DEF IsRedirected, RedirectAllowed, RedirectIsAccepted, Validates, SameQuery
<1>2. ASSUME OriginIsAccepted(s, reg) PROVE OriginAllowed(s, reg, {reg})
  BY <1>2 DEF OriginIsAccepted, OriginAllowed, Validates
<1> QED BY <1>1, <1>2 DEF AcceptedUriWorks

\* For hosts, paths and queries of any length, and any settings: a client gets a response, and
\* a logout returns, to what is registered for it and to nothing else, but for the port of a
\* loopback address, a wildcard below the second level, and the empty authority of a hostless
\* URI; and what clean() accepts is redirected to (AbstractApplication.redirect_uri_allowed,
\* AllowedURIValidator).
THEOREM RedirectsMatch ==
  ASSUME NEW s, NEW reg, IsUri(reg)
  PROVE  /\ AcceptedUriWorks(s, reg)
         /\ \A u : IsUri(u) => NothingElseMatches(s, reg, u)
<1>1. ASSUME NEW u, IsUri(u) PROVE NothingElseMatches(s, reg, u)
  <2>1. RedirectAllowed(s, u, {reg}) => IsOneOf(s, reg, u)
    BY <1>1, MatchesOne
  <2>2. RedirectAllowed(s, u, {reg}) /\ RedirectIsAccepted(s, reg) =>
          /\ u.host # reg.host => Dots(u.host) >= 2
          /\ u.scheme \in SchemesRequiringAuthority => u.host # <<>>
    BY <1>1, AcceptedIsNarrow
  <2> QED BY <2>1, <2>2 DEF NothingElseMatches, PostLogoutAllowed
<1> QED BY <1>1, AcceptedWorks

\* A record has its fields, whatever they are.
LEMMA PartsOfUri ==
  ASSUME NEW A, NEW B, NEW C, NEW D, NEW E, NEW F, NEW G, NEW H,
         NEW u \in [scheme: A, authority: B, userinfo: C, host: D, port: E, path: F, query: G,
                    fragment: H]
  PROVE  /\ u = [scheme |-> u.scheme, authority |-> u.authority, userinfo |-> u.userinfo,
                 host |-> u.host, port |-> u.port, path |-> u.path, query |-> u.query,
                 fragment |-> u.fragment]
         /\ u.authority \in B /\ u.userinfo \in C /\ u.host \in D
OBVIOUS

\* In particular for the URIs of the run, whatever the settings.
COROLLARY SomeRedirectsMatch ==
  ASSUME NEW s, NEW reg \in SomeUris
  PROVE  UriIsSound(s, reg)
<1> DEFINE Char == {".", "*", "-", "1", "l", "a", "b", "c", "x"}
<1>1. SomeHosts \subseteq Seq(Char)
  <2>1. <<>> \in Seq(Char) /\ \A a \in Char : <<a>> \in Seq(Char)
    OBVIOUS
  <2>2. \A a, b, c \in Char : <<a, b, c>> \in Seq(Char)
    OBVIOUS
  <2>3. \A a, b, c, d, e \in Char : <<a, b, c, d, e>> \in Seq(Char)
    OBVIOUS
  <2>4. \A a, b, c, d, e, f \in Char : <<a, b, c, d, e, f>> \in Seq(Char)
    OBVIOUS
  <2>5. \A a, b, c, d, e, f, g, h \in Char : <<a, b, c, d, e, f, g, h>> \in Seq(Char)
    OBVIOUS
  <2>6. \A a, b, c, d, e, f, g, h, i \in Char : <<a, b, c, d, e, f, g, h, i>> \in Seq(Char)
    OBVIOUS
  <2>7. {"1", "l", ".", "*", "-", "a", "b", "c", "x"} \subseteq Char
    OBVIOUS
  <2> HIDE DEF Char
  <2> QED BY <2>1, <2>2, <2>3, <2>4, <2>5, <2>6, <2>7 DEF SomeHosts, LoopbackAddress, Localhost
<1> HIDE DEF Char
<1>2. ASSUME NEW u \in SomeUris PROVE IsUri(u)
  <2>1. /\ u \in [scheme: {"http", "https", "app"}, authority: BOOLEAN, userinfo: BOOLEAN,
                  host: SomeHosts, port: SomePorts, path: {"", "/cb"},
                  query: {"none", "", "k=1"}, fragment: {"none", ""}]
        /\ ~u.authority => u.host = <<>> /\ ~u.userinfo /\ u.port = 0
    BY <1>2 DEF SomeUris
  <2>2. /\ u = [scheme |-> u.scheme, authority |-> u.authority, userinfo |-> u.userinfo,
                host |-> u.host, port |-> u.port, path |-> u.path, query |-> u.query,
                fragment |-> u.fragment]
        /\ u.authority \in BOOLEAN /\ u.userinfo \in BOOLEAN /\ u.host \in SomeHosts
    BY <2>1
  <2> QED BY <1>1, <2>1, <2>2 DEF IsUri
<1>3. IsUri(reg) /\ \A u \in SomeUris : IsUri(u)
  BY <1>2
<1> QED BY <1>3, RedirectsMatch DEF UriIsSound

----------------------------------------------------------------------------
(* Recursive functions: each value is the one its equation gives.          *)

\* A set that holds 0 and, with a number below N, the next one, holds all numbers up to N.
LEMMA UpTo ==
  ASSUME NEW N \in Nat, NEW S, 0 \in S, \A n \in 0..(N - 1) : n \in S => n + 1 \in S
  PROVE  \A n \in 0..N : n \in S
<1> DEFINE T == {n \in Nat : n <= N /\ n \notin S}
<1>1. SUFFICES ASSUME T # {} PROVE FALSE
  OBVIOUS
<1>2. PICK x \in T : \A y \in T : ~ (<<y, x>> \in OpToRel(<, Nat))
  BY <1>1, NatLessThanWellFounded, WFMin
<1>3. \A y \in T : ~ (y < x)
  BY <1>1, <1>2, Zenon DEF OpToRel
<1>4. x # 0 /\ x - 1 \in 0..(N - 1) /\ x - 1 \in 0..N /\ x - 1 < x /\ x = (x - 1) + 1
  BY <1>1
<1>5. x - 1 \in S
  BY <1>1, <1>3, <1>4
<1>6. x \in S
  BY <1>4, <1>5
<1> QED BY <1>1, <1>6

\* There is a function that takes its values one after the other.
LEMMA RecursionExists ==
  ASSUME NEW T, NEW start \in T, NEW N \in Nat, NEW F \in [1..N -> [T -> T]]
  PROVE  \E g \in [0..N -> T] : g[0] = start /\ \A n \in 1..N : g[n] = F[n][g[n - 1]]
<1> DEFINE Good(n, g) == g \in [0..n -> T] /\ g[0] = start /\ \A i \in 1..n : g[i] = F[i][g[i - 1]]
           S == {n \in Nat : \E g : Good(n, g)}
<1>1. 0 \in S
  <2>1. Good(0, [i \in 0..0 |-> start])
    OBVIOUS
  <2> QED BY <2>1
<1>2. ASSUME NEW n \in 0..(N - 1), n \in S PROVE n + 1 \in S
  <2>1. PICK g : Good(n, g)
    BY <1>2
  <2> DEFINE h == [i \in 0..(n + 1) |-> IF i <= n THEN g[i] ELSE F[n + 1][g[n]]]
  <2>2. g[n] \in T /\ F[n + 1] \in [T -> T]
    BY <2>1
  <2>3. h \in [0..(n + 1) -> T] /\ h[0] = start
    BY <2>1, <2>2
  <2>4. \A i \in 1..(n + 1) : h[i] = F[i][h[i - 1]]
    BY <2>1
  <2>5. Good(n + 1, h)
    BY <2>3, <2>4
  <2>6. \E k : Good(n + 1, k)
    <3> HIDE DEF h, Good
    <3> QED BY <2>5
  <2>7. n + 1 \in Nat
    OBVIOUS
  <2> HIDE DEF Good
  <2> QED BY <2>6, <2>7
<1>3. \A n \in 0..N : n \in S
  <2> HIDE DEF S
  <2> QED BY <1>1, <1>2, UpTo
<1> QED BY <1>3

\* What a function is that the module defines by recursion, its value in a place made of the
\* one before: each value is the one its equation gives.
LEMMA ResolvedInSteps ==
  ASSUME NEW Segment, NEW path \in Seq(Segment)
  PROVE  \E r \in [0..Len(path) -> Seq(Segment)] :
           /\ r[0] = <<>> /\ Resolved(path) = r[Len(path)]
           /\ \A n \in 1..Len(path) : r[n] = Step(r[n - 1], path[n])
<1> DEFINE N == Len(path)
           T == Seq(Segment)
           start == <<>>
           F == [n \in 1..N |-> [resolved \in T |-> Step(resolved, path[n])]]
           Rec(g) == g = [n \in 0..N |-> IF n = 0 THEN <<>> ELSE Step(g[n - 1], path[n])]
           h == CHOOSE g : Rec(g)
<1>1. N \in Nat
  OBVIOUS
<1>2. start \in T
  OBVIOUS
<1>3. ASSUME NEW n \in 1..N, NEW resolved \in T PROVE Step(resolved, path[n]) \in T
  BY DEF Step, Front
<1>4. F \in [1..N -> [T -> T]]
  <2> HIDE DEF N, T
  <2> QED BY <1>3
<1>5. PICK g \in [0..N -> T] : g[0] = <<>> /\ \A n \in 1..N : g[n] = F[n][g[n - 1]]
  <2> HIDE DEF N, T, F, start
  <2>1. \E g \in [0..N -> T] : g[0] = start /\ \A n \in 1..N : g[n] = F[n][g[n - 1]]
    BY <1>1, <1>2, <1>4, RecursionExists
  <2> QED BY <2>1 DEF start
<1>6. \A n \in 1..N : g[n] = Step(g[n - 1], path[n])
  <2> HIDE DEF T
  <2> QED BY <1>5
<1>7. Rec(g)
  <2> HIDE DEF T
  <2> QED BY <1>5, <1>6
<1>8. Rec(h)
  <2> HIDE DEF Rec
  <2> QED BY <1>7
<1>9. h[0] = <<>> /\ \A n \in 1..N : h[n] = Step(h[n - 1], path[n])
  <2> HIDE DEF h
  <2> QED BY <1>8
<1>10. h \in [0..N -> T]
  <2> DEFINE S == {n \in Nat : h[n] \in T}
  <2> HIDE DEF h
  <2>1. 0 \in S
    BY <1>2, <1>9
  <2>2. ASSUME NEW n \in 0..(N - 1), n \in S PROVE n + 1 \in S
    <3>1. n + 1 \in 1..N /\ (n + 1) - 1 = n /\ h[n] \in T
      BY <1>1, <2>2
    <3>2. h[n + 1] \in T
      <4> HIDE DEF T
      <4> QED BY <1>3, <1>9, <3>1
    <3> QED BY <3>1, <3>2
  <2>3. \A n \in 0..N : n \in S
    <3> HIDE DEF S, N
    <3> QED BY <1>1, <2>1, <2>2, UpTo
  <2> QED BY <1>8, <2>3
<1> QED
  <2>1. Resolved(path) = h[N]
    BY DEF Resolved
  <2> HIDE DEF h
  <2> QED BY <2>1, <1>9, <1>10, Zenon
LEMMA SlashedInSteps ==
  ASSUME NEW Name, NEW names \in Seq(Name), NEW T
  PROVE  <<>> \in T /\ (\A text \in T, name \in Name : Behind(text, name) \in T) =>
           \E r \in [0..Len(names) -> T] :
             /\ r[0] = <<>> /\ Slashed(names) = r[Len(names)]
             /\ \A n \in 1..Len(names) : r[n] = Behind(r[n - 1], names[n])
<1>0. SUFFICES ASSUME <<>> \in T, \A text \in T, name \in Name : Behind(text, name) \in T
      PROVE  \E r \in [0..Len(names) -> T] :
               /\ r[0] = <<>> /\ Slashed(names) = r[Len(names)]
               /\ \A n \in 1..Len(names) : r[n] = Behind(r[n - 1], names[n])
  OBVIOUS
<1> DEFINE N == Len(names)
           start == <<>>
           F == [n \in 1..N |-> [text \in T |-> Behind(text, names[n])]]
           Rec(g) == g = [n \in 0..N |-> IF n = 0 THEN <<>> ELSE Behind(g[n - 1], names[n])]
           h == CHOOSE g : Rec(g)
<1>1. N \in Nat
  OBVIOUS
<1>2. start \in T
  BY <1>0
<1>3. ASSUME NEW n \in 1..N, NEW text \in T PROVE Behind(text, names[n]) \in T
  BY <1>0
<1>4. F \in [1..N -> [T -> T]]
  <2> HIDE DEF N
  <2> QED BY <1>3
<1>5. PICK g \in [0..N -> T] : g[0] = <<>> /\ \A n \in 1..N : g[n] = F[n][g[n - 1]]
  <2> HIDE DEF N, F, start
  <2>1. \E g \in [0..N -> T] : g[0] = start /\ \A n \in 1..N : g[n] = F[n][g[n - 1]]
    BY <1>1, <1>2, <1>4, RecursionExists
  <2> QED BY <2>1 DEF start
<1>6. ASSUME NEW n \in 1..N PROVE g[n] = Behind(g[n - 1], names[n])
  <2>1. n - 1 \in 0..N /\ g[n] = F[n][g[n - 1]]
    BY <1>1, <1>5
  <2>2. g[n - 1] \in T
    BY <2>1
  <2> QED BY <2>1, <2>2
<1>7. Rec(g)
  <2> HIDE DEF N
  <2> QED BY <1>5, <1>6
<1>8. Rec(h)
  <2> HIDE DEF Rec
  <2> QED BY <1>7
<1>9. h[0] = <<>> /\ \A n \in 1..N : h[n] = Behind(h[n - 1], names[n])
  <2> HIDE DEF h
  <2> QED BY <1>8
<1>10. h \in [0..N -> T]
  <2> DEFINE S == {n \in Nat : h[n] \in T}
  <2> HIDE DEF h
  <2>1. 0 \in S
    BY <1>2, <1>9
  <2>2. ASSUME NEW n \in 0..(N - 1), n \in S PROVE n + 1 \in S
    <3>1. n + 1 \in 1..N /\ (n + 1) - 1 = n /\ h[n] \in T
      BY <1>1, <2>2
    <3>2. h[n + 1] \in T
      <4> HIDE DEF N
      <4> QED BY <1>3, <1>9, <3>1
    <3> QED BY <3>1, <3>2
  <2>3. \A n \in 0..N : n \in S
    <3> HIDE DEF S, N
    <3> QED BY <1>1, <2>1, <2>2, UpTo
  <2> QED BY <1>8, <2>3
<1> QED
  <2>1. Slashed(names) = h[N]
    BY DEF Slashed
  <2> HIDE DEF h
  <2> QED BY <2>1, <1>9, <1>10, Zenon

----------------------------------------------------------------------------
(* Where normpath leads a path.                                            *)

\* How many of the places from i to n are in Z.
Count(Z, i, n) == Cardinality({k \in i..n : k \in Z})

LEMMA CountInSteps ==
  ASSUME NEW Z, NEW i \in Nat, NEW n \in Nat, i <= n + 1
  PROVE  /\ Count(Z, i, n) \in Nat
         /\ Count(Z, i, n + 1) = IF n + 1 \in Z THEN Count(Z, i, n) + 1 ELSE Count(Z, i, n)
<1> DEFINE C == {k \in i..n : k \in Z}
           D == {k \in i..(n + 1) : k \in Z}
<1>1. IsFiniteSet(C)
  <2>1. IsFiniteSet(i..n)
    BY FS_Interval
  <2> QED BY <2>1, FS_Subset
<1>2. Cardinality(C) \in Nat
  BY <1>1, FS_CardinalityType
<1>3. n + 1 \notin C
  OBVIOUS
<1>4. D = IF n + 1 \in Z THEN C \cup {n + 1} ELSE C
  OBVIOUS
<1>5. Cardinality(C \cup {n + 1}) = Cardinality(C) + 1
  BY <1>1, <1>3, FS_AddElement
<1> HIDE DEF C, D
<1>6. Count(Z, i, n) = Cardinality(C) /\ Count(Z, i, n + 1) = Cardinality(D)
  BY DEF Count, C, D
<1> QED BY <1>2, <1>4, <1>5, <1>6

LEMMA CountNothing ==
  ASSUME NEW Z, NEW i \in Nat, NEW n \in Nat, n < i
  PROVE  Count(Z, i, n) = 0
<1>1. {k \in i..n : k \in Z} = {}
  OBVIOUS
<1> QED BY <1>1, FS_EmptySet DEF Count

LEMMA CountsInSteps ==
  ASSUME NEW Z, NEW n \in Nat
  PROVE  \A i \in 1..n :
           /\ Count(Z, i, n) \in Nat
           /\ Count(Z, i, n + 1) = IF n + 1 \in Z THEN Count(Z, i, n) + 1 ELSE Count(Z, i, n)
<1> SUFFICES ASSUME NEW i \in 1..n
             PROVE  /\ Count(Z, i, n) \in Nat
                    /\ Count(Z, i, n + 1) = IF n + 1 \in Z THEN Count(Z, i, n) + 1 ELSE Count(Z, i, n)
  OBVIOUS
<1>1. i \in Nat /\ i <= n + 1
  OBVIOUS
<1> QED BY <1>1, CountInSteps

\* Of the places in X up to n, those that none of the places in Y behind them takes back.
Remaining(X, Y, n) == {i \in 1..n : i \in X /\ \A j \in i..n : Count(Y, i, j) < Count(X, i, j)}

LEMMA KeptInSteps ==
  ASSUME NEW X, NEW Y, X \cap Y = {}, NEW n \in Nat
  PROVE  /\ \A i \in 1..n : i \in Remaining(X, Y, n + 1)
                              <=> i \in Remaining(X, Y, n) /\ Count(Y, i, n + 1) < Count(X, i, n + 1)
         /\ n + 1 \in Remaining(X, Y, n + 1) <=> n + 1 \in X
<1>1. \A i \in 1..n : i \in Remaining(X, Y, n + 1)
                        <=> i \in Remaining(X, Y, n) /\ Count(Y, i, n + 1) < Count(X, i, n + 1)
  BY DEF Remaining
<1>2. n + 1 \in X => Count(Y, n + 1, n + 1) = 0 /\ Count(X, n + 1, n + 1) = 1
  BY CountInSteps, CountNothing
<1>3. n + 1 \in Remaining(X, Y, n + 1) <=> n + 1 \in X
  <2>1. \A j \in (n + 1)..(n + 1) : j = n + 1
    OBVIOUS
  <2> QED BY <1>2, <2>1 DEF Remaining
<1> QED BY <1>1, <1>3

\* e lists the places kept up to n in their order; the last of them is the next to be taken
\* back: what each has still in hand is its distance from the end of the list.
Lists(e, X, Y, n) ==
  /\ \A a \in 1..Len(e) : e[a] \in Remaining(X, Y, n)
  /\ \A i \in Remaining(X, Y, n) : \E a \in 1..Len(e) : e[a] = i
  /\ \A a, b \in 1..Len(e) : a < b => e[a] < e[b]
  /\ \A a \in 1..Len(e) : Count(X, e[a], n) = Count(Y, e[a], n) + Len(e) - a + 1

LEMMA ListKept ==
  ASSUME NEW X, NEW Y, X \cap Y = {}, NEW n \in Nat, n + 1 \notin X \cup Y,
         NEW e \in Seq(Nat), Lists(e, X, Y, n)
  PROVE  Lists(e, X, Y, n + 1)
<1>1. \A i \in 1..n : /\ Count(X, i, n + 1) = Count(X, i, n)
                      /\ Count(Y, i, n + 1) = Count(Y, i, n)
  BY CountsInSteps
<1>2. \A i \in Remaining(X, Y, n) : i \in 1..n /\ Count(Y, i, n) < Count(X, i, n)
  BY DEF Remaining
<1>3. \A i \in Remaining(X, Y, n + 1) : i \in 1..(n + 1)
  BY DEF Remaining
<1>4. Remaining(X, Y, n + 1) = Remaining(X, Y, n)
  <2>1. ASSUME NEW i \in Remaining(X, Y, n + 1) PROVE i \in Remaining(X, Y, n)
    <3>1. i \in 1..n
      BY <1>3, KeptInSteps
    <3> QED BY <3>1, KeptInSteps
  <2>2. ASSUME NEW i \in Remaining(X, Y, n) PROVE i \in Remaining(X, Y, n + 1)
    <3>1. i \in 1..n /\ Count(Y, i, n + 1) < Count(X, i, n + 1)
      BY <1>1, <1>2
    <3> QED BY <3>1, KeptInSteps
  <2> QED BY <2>1, <2>2
<1>5. \A a \in 1..Len(e) : e[a] \in 1..n
  BY <1>2 DEF Lists
<1> QED BY <1>1, <1>4, <1>5 DEF Lists

LEMMA ListGrown ==
  ASSUME NEW X, NEW Y, X \cap Y = {}, NEW n \in Nat, n + 1 \in X,
         NEW e \in Seq(Nat), Lists(e, X, Y, n)
  PROVE  Lists(Append(e, n + 1), X, Y, n + 1)
<1> DEFINE f == Append(e, n + 1)
<1>1. \A i \in 1..n : /\ Count(X, i, n) \in Nat /\ Count(Y, i, n) \in Nat
                      /\ Count(X, i, n + 1) = Count(X, i, n) + 1
                      /\ Count(Y, i, n + 1) = Count(Y, i, n)
  BY CountsInSteps
<1>2. Count(Y, n + 1, n + 1) = 0 /\ Count(X, n + 1, n + 1) = 1
  BY CountInSteps, CountNothing
<1>3. \A i \in Remaining(X, Y, n) : i \in 1..n /\ Count(Y, i, n) < Count(X, i, n)
  BY DEF Remaining
<1>4. \A i \in Remaining(X, Y, n + 1) : i \in 1..(n + 1)
  BY DEF Remaining
<1>5. Remaining(X, Y, n + 1) = Remaining(X, Y, n) \cup {n + 1}
  <2>1. ASSUME NEW i \in Remaining(X, Y, n + 1), i # n + 1 PROVE i \in Remaining(X, Y, n)
    <3>1. i \in 1..n
      BY <1>4, <2>1
    <3> QED BY <3>1, KeptInSteps
  <2>2. ASSUME NEW i \in Remaining(X, Y, n) PROVE i \in Remaining(X, Y, n + 1)
    <3>1. i \in 1..n
      BY <1>3
    <3>2. Count(Y, i, n + 1) < Count(X, i, n + 1)
      BY <1>1, <1>3, <3>1
    <3> QED BY <3>1, <3>2, KeptInSteps
  <2>3. n + 1 \in Remaining(X, Y, n + 1)
    BY KeptInSteps
  <2> QED BY <2>1, <2>2, <2>3
<1>6. /\ Len(f) = Len(e) + 1 /\ f[Len(e) + 1] = n + 1
      /\ \A a \in 1..Len(e) : f[a] = e[a] /\ f[a] \in 1..n
  BY <1>3 DEF Lists
<1> HIDE DEF f
<1>7. ASSUME NEW a \in 1..Len(f) PROVE f[a] \in Remaining(X, Y, n + 1)
  <2>1. CASE a = Len(e) + 1
    BY <1>5, <1>6, <2>1
  <2>2. CASE a \in 1..Len(e)
    BY <1>5, <1>6, <2>2 DEF Lists
  <2> QED BY <1>6, <2>1, <2>2
<1>8. ASSUME NEW i \in Remaining(X, Y, n + 1) PROVE \E a \in 1..Len(f) : f[a] = i
  <2>1. CASE i = n + 1
    BY <1>6, <2>1
  <2>2. CASE i \in Remaining(X, Y, n)
    <3>1. PICK a \in 1..Len(e) : e[a] = i
      BY <2>2 DEF Lists
    <3>2. a \in 1..Len(f) /\ f[a] = i
      BY <1>6, <3>1
    <3> QED BY <3>2
  <2> QED BY <1>5, <1>8, <2>1, <2>2
<1>9. ASSUME NEW a \in 1..Len(f), NEW b \in 1..Len(f), a < b PROVE f[a] < f[b]
  <2>1. a \in 1..Len(e) /\ f[a] = e[a] /\ f[a] \in 1..n
    BY <1>6, <1>9
  <2>2. CASE b = Len(e) + 1
    BY <1>6, <2>1, <2>2
  <2>3. CASE b \in 1..Len(e)
    <3>1. f[b] = e[b] /\ e[a] < e[b]
      BY <1>6, <1>9, <2>1, <2>3 DEF Lists
    <3> QED BY <2>1, <3>1
  <2> QED BY <1>6, <2>2, <2>3
<1>10. ASSUME NEW a \in 1..Len(f)
       PROVE  Count(X, f[a], n + 1) = Count(Y, f[a], n + 1) + Len(f) - a + 1
  <2>1. CASE a = Len(e) + 1
    BY <1>2, <1>6, <2>1
  <2>2. CASE a \in 1..Len(e)
    <3>1. Count(X, e[a], n) = Count(Y, e[a], n) + Len(e) - a + 1
      BY <2>2 DEF Lists
    <3>2. f[a] = e[a] /\ e[a] \in 1..n
      BY <1>6, <2>2
    <3> QED BY <1>1, <1>6, <3>1, <3>2
  <2> QED BY <1>6, <2>1, <2>2
<1> QED BY <1>7, <1>8, <1>9, <1>10 DEF Lists, f

LEMMA ListShrunk ==
  ASSUME NEW X, NEW Y, X \cap Y = {}, NEW n \in Nat, n + 1 \in Y,
         NEW e \in Seq(Nat), Lists(e, X, Y, n)
  PROVE  Lists(IF e = <<>> THEN <<>> ELSE Front(e), X, Y, n + 1)
<1> DEFINE f == IF e = <<>> THEN <<>> ELSE Front(e)
<1>1. \A i \in 1..n : /\ Count(X, i, n) \in Nat /\ Count(Y, i, n) \in Nat
                      /\ Count(X, i, n + 1) = Count(X, i, n)
                      /\ Count(Y, i, n + 1) = Count(Y, i, n) + 1
  BY CountsInSteps
<1>2. \A i \in Remaining(X, Y, n) : i \in 1..n
  BY DEF Remaining
<1>3. \A i \in Remaining(X, Y, n + 1) : i \in 1..n
  <2>1. \A i \in Remaining(X, Y, n + 1) : i \in 1..(n + 1)
    BY DEF Remaining
  <2> QED BY <2>1, KeptInSteps
<1>4. Len(f) \in Nat /\ Len(f) = (IF e = <<>> THEN 0 ELSE Len(e) - 1) /\ Len(e) \in Nat
  BY DEF Front
<1>5. \A a \in 1..Len(f) : f[a] = e[a]
  BY DEF Front
<1>6. e = <<>> => Len(e) = 0
  OBVIOUS
<1>7. e # <<>> => Len(e) > 0
  OBVIOUS
<1> HIDE DEF f
<1>8. ASSUME NEW a \in 1..Len(e)
      PROVE  /\ e[a] \in Remaining(X, Y, n) /\ e[a] \in 1..n
             /\ Count(X, e[a], n + 1) = Count(Y, e[a], n + 1) + Len(e) - a
             /\ e[a] \in Remaining(X, Y, n + 1) <=> a < Len(e)
  <2>1. e[a] \in Remaining(X, Y, n) /\ Count(X, e[a], n) = Count(Y, e[a], n) + Len(e) - a + 1
    BY DEF Lists
  <2>2. e[a] \in 1..n
    BY <1>2, <2>1
  <2>3. /\ Count(X, e[a], n) \in Nat /\ Count(Y, e[a], n) \in Nat
        /\ Count(X, e[a], n + 1) = Count(X, e[a], n)
        /\ Count(Y, e[a], n + 1) = Count(Y, e[a], n) + 1
    BY <1>1, <2>2
  <2>4. e[a] \in Remaining(X, Y, n + 1) <=> Count(Y, e[a], n + 1) < Count(X, e[a], n + 1)
    BY <2>1, <2>2, KeptInSteps
  <2>5. Count(X, e[a], n + 1) = Count(Y, e[a], n + 1) + Len(e) - a
    <3> DEFINE x == Count(X, e[a], n)
               y == Count(Y, e[a], n)
    <3> HIDE DEF x, y
    <3>1. x \in Nat /\ y \in Nat /\ x = y + Len(e) - a + 1
      BY <2>1, <2>3 DEF x, y
    <3>2. Count(X, e[a], n + 1) = x /\ Count(Y, e[a], n + 1) = y + 1
      BY <2>3 DEF x, y
    <3> QED BY <1>4, <3>1, <3>2
  <2>6. Count(Y, e[a], n + 1) \in Nat
    BY <2>2, CountInSteps
  <2>7. e[a] \in Remaining(X, Y, n + 1) <=> a < Len(e)
    <3> DEFINE x == Count(X, e[a], n + 1)
               y == Count(Y, e[a], n + 1)
    <3> HIDE DEF x, y
    <3>1. y \in Nat /\ x = y + Len(e) - a
      BY <2>5, <2>6 DEF x, y
    <3>2. e[a] \in Remaining(X, Y, n + 1) <=> y < x
      BY <2>4 DEF x, y
    <3> QED BY <1>4, <3>1, <3>2
  <2> QED BY <2>1, <2>2, <2>5, <2>7
<1>9. \A a \in 1..Len(f) : a \in 1..Len(e) /\ a < Len(e) /\ f[a] = e[a] /\ Len(f) = Len(e) - 1
  BY <1>4, <1>5, <1>7
<1>10. \A a \in 1..Len(f) : f[a] \in Remaining(X, Y, n + 1)
  BY <1>8, <1>9
<1>11. ASSUME NEW i \in Remaining(X, Y, n + 1) PROVE \E a \in 1..Len(f) : f[a] = i
  <2>1. i \in Remaining(X, Y, n)
    BY <1>3, KeptInSteps
  <2>2. PICK a \in 1..Len(e) : e[a] = i
    BY <2>1 DEF Lists
  <2>3. a < Len(e)
    BY <1>8, <2>2
  <2>4. a \in 1..Len(f)
    BY <1>4, <1>6, <2>3
  <2> QED BY <1>5, <2>2, <2>4
<1>12. ASSUME NEW a \in 1..Len(f), NEW b \in 1..Len(f), a < b PROVE f[a] < f[b]
  BY <1>9, <1>12 DEF Lists
<1>13. ASSUME NEW a \in 1..Len(f)
       PROVE  Count(X, f[a], n + 1) = Count(Y, f[a], n + 1) + Len(f) - a + 1
  <2>1. /\ Count(X, e[a], n + 1) = Count(Y, e[a], n + 1) + Len(e) - a
        /\ e[a] \in 1..n
    BY <1>8, <1>9
  <2>2. Count(Y, e[a], n + 1) \in Nat
    BY <2>1, CountInSteps
  <2>3. f[a] = e[a] /\ Len(f) = Len(e) - 1
    BY <1>9
  <2> QED BY <1>4, <2>1, <2>2, <2>3
<1> QED BY <1>10, <1>11, <1>12, <1>13 DEF Lists, f

\* A listed place is, among the places kept, the one of its rank.
LEMMA ListRank ==
  ASSUME NEW X, NEW Y, NEW n \in Nat, NEW e \in Seq(Nat), Lists(e, X, Y, n)
  PROVE  /\ Cardinality(Remaining(X, Y, n)) = Len(e)
         /\ \A a \in 1..Len(e) : Cardinality({i \in Remaining(X, Y, n) : i <= e[a]}) = a
<1> DEFINE K == Remaining(X, Y, n)
<1>1. /\ Len(e) \in Nat
      /\ \A c, d \in 1..Len(e) : c < d => e[c] < e[d]
      /\ \A c \in 1..Len(e) : e[c] \in Nat /\ e[c] \in K
      /\ \A i \in K : \E c \in 1..Len(e) : e[c] = i
  BY DEF Lists
<1>2. \A c, d \in 1..Len(e) : (e[c] <= e[d] <=> c <= d) /\ (e[c] = e[d] => c = d)
  BY <1>1
<1>3. ASSUME NEW a \in 0..Len(e), NEW T,
             \A i \in T : \E c \in 1..a : e[c] = i, \A c \in 1..a : e[c] \in T
      PROVE  Cardinality(T) = a
  <2> DEFINE F == [c \in 1..a |-> e[c]]
  <2>1. F \in [1..a -> T] /\ \A c, d \in 1..a : F[c] = F[d] => c = d
    BY <1>2, <1>3
  <2>2. \A i \in T : \E c \in 1..a : F[c] = i
    BY <1>3
  <2> HIDE DEF F
  <2>3. F \in Bijection(1..a, T)
    BY <2>1, <2>2 DEF Bijection, Injection, Surjection, IsInjective
  <2>4. ExistsBijection(1..a, T)
    BY <2>3 DEF ExistsBijection
  <2> QED BY <1>3, <2>4, FS_CountingElements
<1>4. Cardinality(K) = Len(e)
  <2> HIDE DEF K
  <2>1. \A i \in K : \E c \in 1..Len(e) : e[c] = i
    BY <1>1
  <2>2. \A c \in 1..Len(e) : e[c] \in K
    BY <1>1
  <2> QED BY <1>1, <1>3, <2>1, <2>2
<1>5. ASSUME NEW a \in 1..Len(e) PROVE Cardinality({i \in K : i <= e[a]}) = a
  <2> HIDE DEF K
  <2> DEFINE T == {i \in K : i <= e[a]}
  <2>1. \A i \in T : \E c \in 1..a : e[c] = i
    BY <1>1, <1>2
  <2>2. \A c \in 1..a : e[c] \in T
    BY <1>1, <1>2
  <2> HIDE DEF T
  <2>3. a \in 0..Len(e)
    BY <1>1
  <2>4. Cardinality(T) = a
    BY <1>3, <2>1, <2>2, <2>3
  <2> QED BY <2>4 DEF T
<1> QED BY <1>4, <1>5

LEMMA AllButLast ==
  ASSUME NEW T, NEW s \in Seq(T), s # <<>>
  PROVE  /\ Front(s) \in Seq(T) /\ Len(s) \in Nat /\ Len(s) > 0 /\ Len(Front(s)) = Len(s) - 1
         /\ \A a \in 1..(Len(s) - 1) : Front(s)[a] = s[a]
<1>1. Len(s) \in Nat /\ Len(s) > 0
  OBVIOUS
<1>2. Front(s) \in Seq(T)
  BY <1>1 DEF Front
<1>3. Len(Front(s)) = Len(s) - 1
  <2>1. ASSUME NEW m \in Nat, m <= Len(s) PROVE Len(SubSeq(s, 1, m)) = m
    BY <2>1
  <2>2. Len(s) - 1 \in Nat /\ Len(s) - 1 <= Len(s)
    BY <1>1
  <2> QED BY <2>1, <2>2, Zenon DEF Front
<1>4. \A a \in 1..(Len(s) - 1) : Front(s)[a] = s[a]
  BY <1>1 DEF Front
<1> QED BY <1>1, <1>2, <1>3, <1>4

NamesOf(path) == {k \in DOMAIN path : IsName(path[k])}
UpsOf(path) == {k \in DOMAIN path : path[k] = DotDot}

\* normpath keeps the names that are not taken back, in their order.
LEMMA ResolvedIsListed ==
  ASSUME NEW Segment, NEW path \in Seq(Segment)
  PROVE  \E e \in Seq(Nat) :
           /\ Lists(e, NamesOf(path), UpsOf(path), Len(path))
           /\ Resolved(path) \in Seq(Segment) /\ Len(Resolved(path)) = Len(e)
           /\ \A a \in 1..Len(e) : Resolved(path)[a] = path[e[a]]
<1> DEFINE X == NamesOf(path)
           Y == UpsOf(path)
           N == Len(path)
<1>1. PICK r \in [0..N -> Seq(Segment)] :
        /\ r[0] = <<>> /\ Resolved(path) = r[N]
        /\ \A n \in 1..N : r[n] = Step(r[n - 1], path[n])
  BY ResolvedInSteps
<1>2. /\ X \cap Y = {} /\ N \in Nat
      /\ \A n \in 1..N : /\ n \in X <=> path[n] \notin {<<>>, Dot, DotDot}
                         /\ n \in Y <=> path[n] = DotDot
  BY DEF NamesOf, UpsOf, IsName
<1>3. DotDot \notin {<<>>, Dot}
  BY DEF Dot, DotDot
<1> HIDE DEF X, Y
<1> DEFINE Reads(n, e) == /\ Len(r[n]) = Len(e) /\ \A a \in 1..Len(e) : r[n][a] = path[e[a]]
           Good(n, e) == e \in Seq(Nat) /\ Lists(e, X, Y, n) /\ Reads(n, e)
           S == {n \in Nat : \E e : Good(n, e)}
<1>4. 0 \in S
  <2>1. Remaining(X, Y, 0) = {}
    BY DEF Remaining
  <2>2. Good(0, <<>>)
    BY <1>1, <2>1 DEF Lists
  <2>3. \E e : Good(0, e)
    BY <2>2
  <2> QED BY <2>3
<1>5. ASSUME NEW n \in 0..(N - 1), n \in S PROVE n + 1 \in S
  <2>1. PICK e : Good(n, e)
    BY <1>5
  <2>2. n + 1 \in 1..N /\ (n + 1) - 1 = n /\ n \in Nat /\ n + 1 \in Nat
    BY <1>2
  <2>3. r[n] \in Seq(Segment) /\ r[n + 1] = Step(r[n], path[n + 1])
    BY <1>1, <2>2
  <2>4. e \in Seq(Nat) /\ Lists(e, X, Y, n) /\ Len(r[n]) = Len(e) /\ Len(e) \in Nat
    BY <2>1
  <2>5. \A a \in 1..Len(e) : r[n][a] = path[e[a]]
    BY <2>1
  <2>6. CASE path[n + 1] \in {<<>>, Dot}
    <3>1. n + 1 \notin X \cup Y
      BY <1>2, <1>3, <2>2, <2>6
    <3>2. Lists(e, X, Y, n + 1)
      BY <1>2, <2>2, <2>4, <3>1, ListKept
    <3>3. r[n + 1] = r[n]
      BY <2>3, <2>6 DEF Step
    <3>4. Good(n + 1, e)
      BY <2>4, <2>5, <3>2, <3>3
    <3> QED BY <2>2, <3>4
  <2>7. CASE path[n + 1] = DotDot
    <3> DEFINE f == IF e = <<>> THEN <<>> ELSE Front(e)
    <3>1. n + 1 \in Y
      BY <1>2, <2>2, <2>7
    <3>2. Lists(f, X, Y, n + 1)
      BY <1>2, <2>2, <2>4, <3>1, ListShrunk
    <3>3. r[n + 1] = IF r[n] = <<>> THEN <<>> ELSE Front(r[n])
      BY <1>3, <2>3, <2>7 DEF Step
    <3>4. r[n] = <<>> <=> e = <<>>
      BY <2>3, <2>4
    <3>5. f \in Seq(Nat) /\ Len(r[n + 1]) = Len(f)
      BY <2>3, <2>4, <3>3, <3>4 DEF Front
    <3>6. \A a \in 1..Len(f) : r[n + 1][a] = path[f[a]]
      <4>1. CASE e = <<>>
        BY <4>1
      <4>2. CASE e # <<>>
        <5>1. /\ Len(f) = Len(e) - 1 /\ r[n + 1] = Front(r[n])
              /\ \A a \in 1..Len(f) : a \in 1..Len(e) /\ f[a] = e[a]
          BY <2>4, <3>3, <3>4, <4>2, AllButLast
        <5>2. \A a \in 1..Len(f) : r[n + 1][a] = r[n][a]
          <6>1. r[n] # <<>>
            BY <3>4, <4>2
          <6> HIDE DEF f
          <6> QED BY <2>3, <2>4, <5>1, <6>1, AllButLast
        <5> HIDE DEF f
        <5> QED BY <2>5, <5>1, <5>2
      <4> QED BY <4>1, <4>2
    <3>7. Good(n + 1, f)
      <4> HIDE DEF f
      <4> QED BY <3>2, <3>5, <3>6
    <3>8. \E g : Good(n + 1, g)
      <4> HIDE DEF f, Good
      <4> QED BY <3>7
    <3> QED BY <2>2, <3>8
  <2>8. CASE path[n + 1] \notin {<<>>, Dot, DotDot}
    <3> DEFINE f == Append(e, n + 1)
    <3>1. n + 1 \in X
      BY <1>2, <2>2, <2>8
    <3>2. Lists(f, X, Y, n + 1)
      BY <1>2, <2>2, <2>4, <3>1, ListGrown
    <3>3. r[n + 1] = Append(r[n], path[n + 1])
      BY <2>3, <2>8 DEF Step
    <3>4. f \in Seq(Nat) /\ Len(r[n + 1]) = Len(f)
      BY <2>2, <2>3, <2>4, <3>3
    <3>5. ASSUME NEW a \in 1..Len(f) PROVE r[n + 1][a] = path[f[a]]
      <4>1. CASE a = Len(e) + 1
        BY <2>2, <2>3, <2>4, <3>3, <4>1
      <4>2. CASE a \in 1..Len(e)
        BY <2>2, <2>3, <2>4, <2>5, <3>3, <4>2
      <4> QED BY <2>4, <4>1, <4>2
    <3>6. Good(n + 1, f)
      <4> HIDE DEF f
      <4> QED BY <3>2, <3>4, <3>5
    <3>7. \E g : Good(n + 1, g)
      <4> HIDE DEF f, Good
      <4> QED BY <3>6
    <3> QED BY <2>2, <3>7
  <2> QED BY <2>6, <2>7, <2>8
<1>6. \A n \in 0..N : n \in S
  <2> HIDE DEF S, N
  <2> QED BY <1>2, <1>4, <1>5, UpTo
<1>7. PICK e : Good(N, e)
  <2>1. N \in 0..N
    BY <1>2
  <2>2. N \in S
    BY <1>6, <2>1
  <2> QED BY <2>2
<1>8. r[N] \in Seq(Segment)
  BY <1>1, <1>2
<1> QED BY <1>1, <1>7, <1>8 DEF X, Y

\* A path leads where normpath says.
LEMMA LeadsWhereResolved ==
  ASSUME NEW Segment, NEW path \in Seq(Segment)
  PROVE  Leads(path) = Resolved(path)
<1> DEFINE X == NamesOf(path)
           Y == UpsOf(path)
           N == Len(path)
           K == {i \in DOMAIN path : IsName(path[i]) /\ ~TakenBack(path, i)}
<1>1. PICK e \in Seq(Nat) :
        /\ Lists(e, X, Y, N)
        /\ Resolved(path) \in Seq(Segment) /\ Len(Resolved(path)) = Len(e)
        /\ \A a \in 1..Len(e) : Resolved(path)[a] = path[e[a]]
  BY ResolvedIsListed
<1>2. N \in Nat /\ DOMAIN path = 1..N
  OBVIOUS
<1>3. K = Remaining(X, Y, N)
  <2>1. ASSUME NEW i \in 1..N, NEW j \in i..N
        PROVE  ~ (Cardinality({k \in i..j : path[k] = DotDot})
                    >= Cardinality({k \in i..j : IsName(path[k])}))
                 <=> Count(Y, i, j) < Count(X, i, j)
    <3>1. /\ {k \in i..j : k \in X} = {k \in i..j : IsName(path[k])}
          /\ {k \in i..j : k \in Y} = {k \in i..j : path[k] = DotDot}
      BY <1>2 DEF NamesOf, UpsOf
    <3>2. i \in Nat /\ j \in Nat /\ i <= j + 1
      BY <1>2
    <3>3. Count(X, i, j) \in Nat /\ Count(Y, i, j) \in Nat
      BY <3>2, CountInSteps
    <3>4. /\ Count(X, i, j) = Cardinality({k \in i..j : IsName(path[k])})
          /\ Count(Y, i, j) = Cardinality({k \in i..j : path[k] = DotDot})
      BY <3>1 DEF Count
    <3> HIDE DEF X, Y
    <3> QED BY <3>3, <3>4
  <2>2. \A i \in 1..N : i \in X <=> IsName(path[i])
    BY <1>2 DEF NamesOf
  <2>3. \A i \in 1..N : ~TakenBack(path, i) <=> \A j \in i..N : Count(Y, i, j) < Count(X, i, j)
    BY <2>1 DEF TakenBack
  <2> HIDE DEF X, Y
  <2> QED BY <1>2, <2>2, <2>3 DEF Remaining
<1> HIDE DEF X, Y, K
<1>4. /\ Cardinality(K) = Len(e)
      /\ \A a \in 1..Len(e) : Cardinality({i \in K : i <= e[a]}) = a
  <2>1. /\ Cardinality(Remaining(X, Y, N)) = Len(e)
        /\ \A a \in 1..Len(e) : Cardinality({i \in Remaining(X, Y, N) : i <= e[a]}) = a
    <3>1. N \in Nat /\ Lists(e, X, Y, N)
      BY <1>1, <1>2
    <3> HIDE DEF N
    <3> QED BY <3>1, ListRank
  <2> QED BY <1>3, <2>1
<1>5. Leads(path) = [n \in 1..Len(e) |-> path[CHOOSE i \in K : Cardinality({k \in K : k <= i}) = n]]
  BY <1>4 DEF Leads, K
<1>6. /\ \A a \in 1..Len(e) : e[a] \in K
      /\ \A i \in K : \E a \in 1..Len(e) : e[a] = i
  BY <1>1, <1>3 DEF Lists
<1>7. ASSUME NEW n \in 1..Len(e)
      PROVE  (CHOOSE i \in K : Cardinality({k \in K : k <= i}) = n) = e[n]
  <2> DEFINE i == CHOOSE i \in K : Cardinality({k \in K : k <= i}) = n
  <2>1. \E j \in K : Cardinality({k \in K : k <= j}) = n
    BY <1>4, <1>6
  <2>2. i \in K /\ Cardinality({k \in K : k <= i}) = n
    BY <2>1
  <2> HIDE DEF i
  <2>3. PICK a \in 1..Len(e) : e[a] = i
    BY <1>6, <2>2
  <2>4. a = n
    BY <1>4, <2>2, <2>3
  <2> QED BY <2>3, <2>4 DEF i
<1>8. Leads(path) = [n \in 1..Len(e) |-> path[e[n]]]
  BY <1>5, <1>7
<1>9. Resolved(path) = [n \in 1..Len(e) |-> path[e[n]]]
  <2>1. Resolved(path) = [n \in 1..Len(Resolved(path)) |-> Resolved(path)[n]]
    BY <1>1
  <2> QED BY <1>1, <2>1
<1> QED BY <1>8, <1>9

----------------------------------------------------------------------------
(* What the text of a path tells of it.                                    *)

\* The texts of a list of names: r[n] is that of the first n, each name with a slash behind it.
Writes(r, names, slash, Char) ==
  /\ Len(names) \in Nat /\ \A n \in 1..Len(names) : names[n] \in Seq(Char)
  /\ \A n \in 0..Len(names) : r[n] \in Seq(Char)
  /\ r[0] = <<>>
  /\ \A n \in 0..(Len(names) - 1) :
       /\ Len(r[n + 1]) = Len(r[n]) + Len(names[n + 1]) + 1
       /\ \A k \in 1..Len(r[n]) : r[n + 1][k] = r[n][k]
       /\ \A k \in 1..Len(names[n + 1]) : r[n + 1][Len(r[n]) + k] = names[n + 1][k]
       /\ r[n + 1][Len(r[n]) + Len(names[n + 1]) + 1] = slash

\* The text of a list is the last of these.
LEMMA SlashedWrites ==
  ASSUME NEW Char, "/" \in Char, NEW names \in Seq(Seq(Char))
  PROVE  \E r : Writes(r, names, "/", Char) /\ Slashed(names) = r[Len(names)]
<1> DEFINE Name == Seq(Char)
           T == Seq(Char)
           N == Len(names)
<1>1. <<>> \in T /\ \A text \in T, name \in Name : Behind(text, name) \in T
  BY DEF Behind
<1>2. names \in Seq(Name) /\ N \in Nat /\ \A n \in 1..N : names[n] \in Seq(Char)
  OBVIOUS
<1>3. PICK r \in [0..N -> T] :
        r[0] = <<>> /\ Slashed(names) = r[N] /\ \A n \in 1..N : r[n] = Behind(r[n - 1], names[n])
  <2> HIDE DEF Name, T, N
  <2>1. names \in Seq(Name)
    BY <1>2
  <2> QED BY <1>1, <2>1, SlashedInSteps DEF N
<1>4. ASSUME NEW n \in 0..(N - 1)
      PROVE  LET p == Len(r[n])
                 q == Len(names[n + 1])
             IN  /\ Len(r[n + 1]) = p + q + 1
                 /\ \A k \in 1..p : r[n + 1][k] = r[n][k]
                 /\ \A k \in 1..q : r[n + 1][p + k] = names[n + 1][k]
                 /\ r[n + 1][p + q + 1] = "/"
  <2>1. n + 1 \in 1..N /\ (n + 1) - 1 = n /\ n \in 0..N
    BY <1>2
  <2>2. r[n] \in Seq(Char) /\ names[n + 1] \in Seq(Char) /\ r[n + 1] = Behind(r[n], names[n + 1])
    BY <1>2, <1>3, <2>1
  <2>3. ASSUME NEW x \in Seq(Char), NEW y \in Seq(Char)
        PROVE  /\ Len(Behind(x, y)) = Len(x) + Len(y) + 1
               /\ \A k \in 1..Len(x) : Behind(x, y)[k] = x[k]
               /\ \A k \in 1..Len(y) : Behind(x, y)[Len(x) + k] = y[k]
               /\ Behind(x, y)[Len(x) + Len(y) + 1] = "/"
    BY DEF Behind
  <2> DEFINE x == r[n]
             y == names[n + 1]
  <2>4. x \in Seq(Char) /\ y \in Seq(Char) /\ r[n + 1] = Behind(x, y)
    BY <2>2
  <2> HIDE DEF x, y
  <2>5. /\ Len(r[n + 1]) = Len(x) + Len(y) + 1
        /\ \A k \in 1..Len(x) : r[n + 1][k] = x[k]
        /\ \A k \in 1..Len(y) : r[n + 1][Len(x) + k] = y[k]
        /\ r[n + 1][Len(x) + Len(y) + 1] = "/"
    <3> HIDE DEF N
    <3> QED BY <2>3, <2>4
  <2> QED BY <2>5, Zenon DEF x, y
<1>5. Writes(r, names, "/", Char)
  <2>1. \A n \in 0..N : r[n] \in Seq(Char)
    BY <1>3
  <2>2. r[0] = <<>>
    BY <1>3
  <2> QED BY <1>2, <1>4, <2>1, <2>2 DEF Writes
<1>6. Slashed(names) = r[Len(names)]
  BY <1>3
<1> HIDE DEF N
<1> QED BY <1>5, <1>6, Zenon

LEMMA TextTypes ==
  ASSUME NEW Char, NEW slash, NEW names, NEW r, Writes(r, names, slash, Char)
  PROVE  /\ Len(names) \in Nat
         /\ \A n \in 0..Len(names) : r[n] \in Seq(Char) /\ Len(r[n]) \in Nat
         /\ \A n \in 0..(Len(names) - 1) : /\ names[n + 1] \in Seq(Char)
                                           /\ Len(names[n + 1]) \in Nat
<1>1. Len(names) \in Nat /\ \A n \in 0..Len(names) : r[n] \in Seq(Char)
  BY DEF Writes
<1>2. ASSUME NEW n \in 0..(Len(names) - 1) PROVE names[n + 1] \in Seq(Char)
  <2>1. n + 1 \in 1..Len(names)
    BY <1>1
  <2> QED BY <2>1 DEF Writes
<1>3. \A t \in Seq(Char) : Len(t) \in Nat
  OBVIOUS
<1> QED BY <1>1, <1>2, <1>3

\* s begins t, letter by letter.
Begins(s, t) == Len(s) <= Len(t) /\ \A k \in 1..Len(s) : s[k] = t[k]

LEMMA PrefixByLetter ==
  ASSUME NEW T, NEW s \in Seq(T), NEW t \in Seq(T)
  PROVE  IsPrefix(s, t) <=> Begins(s, t)
<1>1. CASE Len(s) <= Len(t)
  <2>1. /\ SubSeq(s, 1, Len(s)) = [k \in 1..Len(s) |-> s[k]]
        /\ SubSeq(t, 1, Len(s)) = [k \in 1..Len(s) |-> t[k]]
    BY <1>1
  <2> QED BY <1>1, <2>1 DEF IsPrefix, Begins
<1>2. CASE ~ (Len(s) <= Len(t))
  BY <1>2 DEF IsPrefix, Begins
<1> QED BY <1>1, <1>2

LEMMA TextsGrow ==
  ASSUME NEW Char, NEW slash, NEW names, NEW r, Writes(r, names, slash, Char),
         NEW n \in 0..Len(names)
  PROVE  Begins(r[n], r[Len(names)])
<1> DEFINE N == Len(names)
           S == {m \in Nat : m >= n => Begins(r[n], r[m])}
<1>1. /\ N \in Nat
      /\ \A m \in 0..(N - 1) : /\ Len(r[m + 1]) = Len(r[m]) + Len(names[m + 1]) + 1
                               /\ \A k \in 1..Len(r[m]) : r[m + 1][k] = r[m][k]
  BY DEF Writes
<1>2. \A m \in 0..N : Len(r[m]) \in Nat
  BY TextTypes
<1>3. \A m \in 0..(N - 1) : Len(names[m + 1]) \in Nat
  BY TextTypes
<1> HIDE DEF N
<1>4. n \in 0..N
  BY DEF N
<1>5. Begins(r[n], r[n])
  BY <1>2, <1>4 DEF Begins
<1>6. 0 \in S
  <2>1. 0 >= n => n = 0
    BY <1>4
  <2> QED BY <1>5, <2>1
<1>7. ASSUME NEW m \in 0..(N - 1), m \in S PROVE m + 1 \in S
  <2>1. CASE m + 1 = n
    BY <1>5, <2>1
  <2>2. CASE m + 1 < n
    BY <1>4, <2>2
  <2>3. CASE m >= n
    <3>1. Begins(r[n], r[m]) /\ m \in 0..N /\ m + 1 \in 0..N
      BY <1>1, <1>7, <2>3
    <3>2. /\ Len(r[m]) <= Len(r[m + 1])
          /\ \A k \in 1..Len(r[m]) : r[m + 1][k] = r[m][k]
      <4> DEFINE x == Len(r[m])
                 y == Len(names[m + 1])
                 z == Len(r[m + 1])
      <4>1. x \in Nat /\ y \in Nat /\ z = x + y + 1
        BY <1>1, <1>2, <1>3, <3>1
      <4>2. x <= z
        <5> HIDE DEF x, y, z
        <5> QED BY <4>1
      <4> QED BY <1>1, <4>2
    <3>3. Len(r[n]) \in Nat /\ Len(r[m]) \in Nat /\ Len(r[m + 1]) \in Nat
      BY <1>2, <1>4, <3>1
    <3>4. Begins(r[n], r[m + 1])
      BY <3>1, <3>2, <3>3 DEF Begins
    <3> QED BY <3>4
  <2> QED BY <1>4, <2>1, <2>2, <2>3
<1>8. \A m \in 0..N : m \in S
  <2> HIDE DEF S
  <2> QED BY <1>1, <1>6, <1>7, UpTo
<1> QED BY <1>1, <1>4, <1>8 DEF N

LEMMA SequencesEqual ==
  ASSUME NEW T, NEW s \in Seq(T), NEW t \in Seq(T), Len(s) = Len(t),
         \A k \in 1..Len(s) : s[k] = t[k]
  PROVE  s = t
OBVIOUS

\* Lists with the same names have the same texts.
LEMMA SameTexts ==
  ASSUME NEW Char, NEW slash, NEW A, NEW U,
         NEW a, Writes(a, A, slash, Char), NEW u, Writes(u, U, slash, Char),
         NEW N \in Nat, N <= Len(A), N <= Len(U), \A n \in 1..N : A[n] = U[n]
  PROVE  a[N] = u[N]
<1> DEFINE S == {n \in Nat : a[n] = u[n]}
<1>1. 0 \in S
  BY DEF Writes
<1>2. ASSUME NEW n \in 0..(N - 1), n \in S PROVE n + 1 \in S
  <2>0. Len(A) \in Nat /\ Len(U) \in Nat
    BY TextTypes
  <2>1. /\ n + 1 \in 1..N /\ n \in 0..(Len(A) - 1) /\ n \in 0..(Len(U) - 1)
        /\ n \in 0..Len(A) /\ n + 1 \in 0..Len(A) /\ n + 1 \in 0..Len(U)
    BY <2>0
  <2>2. A[n + 1] = U[n + 1] /\ a[n] = u[n]
    BY <1>2, <2>1
  <2>3. a[n + 1] \in Seq(Char) /\ u[n + 1] \in Seq(Char)
    BY <2>1, TextTypes
  <2> DEFINE p == Len(a[n])
             q == Len(A[n + 1])
  <2>4. /\ Len(a[n + 1]) = p + q + 1 /\ Len(u[n + 1]) = p + q + 1
        /\ \A k \in 1..p : a[n + 1][k] = u[n + 1][k]
        /\ \A k \in 1..q : a[n + 1][p + k] = u[n + 1][p + k]
        /\ a[n + 1][p + q + 1] = u[n + 1][p + q + 1]
    <3>1. Len(u[n]) = p /\ Len(U[n + 1]) = q
      BY <2>2
    <3>3. /\ Len(a[n + 1]) = p + q + 1
          /\ \A k \in 1..p : a[n + 1][k] = a[n][k]
          /\ \A k \in 1..q : a[n + 1][p + k] = A[n + 1][k]
          /\ a[n + 1][p + q + 1] = slash
      BY <2>1 DEF Writes
    <3>4. /\ Len(u[n + 1]) = p + q + 1
          /\ \A k \in 1..p : u[n + 1][k] = u[n][k]
          /\ \A k \in 1..q : u[n + 1][p + k] = U[n + 1][k]
          /\ u[n + 1][p + q + 1] = slash
      <4>1. /\ Len(u[n + 1]) = Len(u[n]) + Len(U[n + 1]) + 1
            /\ \A k \in 1..Len(u[n]) : u[n + 1][k] = u[n][k]
            /\ \A k \in 1..Len(U[n + 1]) : u[n + 1][Len(u[n]) + k] = U[n + 1][k]
            /\ u[n + 1][Len(u[n]) + Len(U[n + 1]) + 1] = slash
        BY <2>1 DEF Writes
      <4> HIDE DEF p, q
      <4> QED BY <3>1, <4>1
    <3> HIDE DEF p, q
    <3> QED BY <2>2, <3>3, <3>4
  <2>5. p \in Nat /\ q \in Nat
    BY <2>1, TextTypes
  <2> HIDE DEF p, q
  <2>6. ASSUME NEW k \in 1..Len(a[n + 1]) PROVE a[n + 1][k] = u[n + 1][k]
    <3>1. k \in Nat /\ (k \in 1..p \/ k - p \in 1..q \/ k = p + q + 1) /\ k = p + (k - p)
      BY <2>4, <2>5
    <3> QED BY <2>4, <2>5, <3>1
  <2>7. a[n + 1] = u[n + 1]
    <3> DEFINE s == a[n + 1]
               t == u[n + 1]
    <3>1. s \in Seq(Char) /\ t \in Seq(Char)
      BY <2>3
    <3>2. Len(s) = Len(t)
      BY <2>4
    <3>3. \A k \in 1..Len(s) : s[k] = t[k]
      BY <2>6
    <3> HIDE DEF s, t
    <3>4. s = t
      BY <3>1, <3>2, <3>3, SequencesEqual
    <3> QED BY <3>4 DEF s, t
  <2> QED BY <2>7
<1>3. \A n \in 0..N : n \in S
  <2> HIDE DEF S
  <2> QED BY <1>1, <1>2, UpTo
<1> QED BY <1>3

HasNo(slash, names) == \A n \in 1..Len(names) : \A k \in 1..Len(names[n]) : names[n][k] # slash

\* No name has a slash in it: if the text of A begins that of U, the names of A begin U.
LEMMA TextsTell ==
  ASSUME NEW Char, NEW slash, NEW A, NEW U,
         NEW a, Writes(a, A, slash, Char), NEW u, Writes(u, U, slash, Char),
         HasNo(slash, A), HasNo(slash, U),
         Begins(a[Len(A)], u[Len(U)])
  PROVE  Begins(A, U)
<1> DEFINE N == Len(A)
           M == Len(U)
           S == {n \in Nat : n <= M /\ \A k \in 1..n : A[k] = U[k]}
<1>1. N \in Nat /\ M \in Nat
  BY TextTypes
<1>2. 0 \in S
  BY <1>1
<1>3. ASSUME NEW n \in 0..(N - 1), n \in S PROVE n + 1 \in S
  <2> DEFINE x == a[N]
             y == u[M]
             v == a[n + 1]
             p == Len(a[n])
             q == Len(A[n + 1])
  <2>1. /\ n \in Nat /\ n + 1 \in 1..N /\ n + 1 \in 0..N /\ n \in 0..N /\ n <= N /\ n <= M
        /\ \A k \in 1..n : A[k] = U[k]
    BY <1>1, <1>3
  <2>2. a[n] = u[n]
    <3> HIDE DEF x, y, v, p, q
    <3> QED BY <2>1, SameTexts
  <2>3. A[n + 1] \in Seq(Char)
    BY <1>3, TextTypes
  <2>4. p \in Nat /\ q \in Nat /\ Len(x) \in Nat /\ Len(y) \in Nat
    <3>1. N \in 0..N /\ M \in 0..M
      BY <1>1
    <3> QED BY <1>3, <2>1, <3>1, TextTypes
  <2>5. /\ Len(v) = p + q + 1
        /\ \A k \in 1..q : v[p + k] = A[n + 1][k]
        /\ v[p + q + 1] = slash
    BY <1>3 DEF Writes
  <2>6. Begins(v, x) /\ Begins(x, y)
    BY <2>1, TextsGrow
  <2>7. /\ p + q + 1 <= Len(y)
        /\ \A k \in 1..(p + q + 1) : v[k] = y[k]
    <3> HIDE DEF x, y, v, p, q
    <3>1. /\ Len(v) <= Len(x) /\ Len(x) <= Len(y)
          /\ \A k \in 1..Len(v) : v[k] = x[k]
          /\ \A k \in 1..Len(x) : x[k] = y[k]
      BY <2>6 DEF Begins
    <3> QED BY <2>4, <2>5, <3>1
  <2>8. n # M
    <3>1. CASE n = M
      <4>1. y = a[n]
        BY <2>2, <3>1
      <4>2. Len(y) = p
        BY <4>1
      <4> HIDE DEF p, q, y
      <4> QED BY <2>4, <2>7, <4>2
    <3> QED BY <3>1
  <2> DEFINE w == u[n + 1]
             s == Len(U[n + 1])
  <2>9. n + 1 \in 1..M /\ n + 1 \in 0..M /\ n \in 0..(M - 1)
    BY <1>1, <2>1, <2>8
  <2>10. U[n + 1] \in Seq(Char) /\ s \in Nat
    BY <2>9, TextTypes
  <2>11. /\ Len(w) = p + s + 1
         /\ \A k \in 1..s : w[p + k] = U[n + 1][k]
         /\ w[p + s + 1] = slash
    <3>1. Len(u[n]) = p
      BY <2>2
    <3>2. /\ Len(w) = Len(u[n]) + s + 1
          /\ \A k \in 1..s : w[Len(u[n]) + k] = U[n + 1][k]
          /\ w[Len(u[n]) + s + 1] = slash
      BY <2>9 DEF Writes
    <3> HIDE DEF p, s, w
    <3> QED BY <3>1, <3>2
  <2>12. Begins(w, y)
    BY <2>9, TextsGrow
  <2>13. \A k \in 1..(p + s + 1) : w[k] = y[k]
    <3> HIDE DEF w, y, p, s
    <3> QED BY <2>11, <2>12 DEF Begins
  <2>14. /\ \A k \in 1..q : y[p + k] = A[n + 1][k] /\ y[p + k] # slash
         /\ y[p + q + 1] = slash
    <3>1. \A k \in 1..q : A[n + 1][k] # slash
      BY <2>1 DEF HasNo
    <3> HIDE DEF y, v, p, q
    <3>2. \A k \in 1..q : p + k \in 1..(p + q + 1)
      BY <2>4
    <3>3. p + q + 1 \in 1..(p + q + 1)
      BY <2>4
    <3> QED BY <2>5, <2>7, <3>1, <3>2, <3>3
  <2>15. /\ \A k \in 1..s : y[p + k] = U[n + 1][k] /\ y[p + k] # slash
         /\ y[p + s + 1] = slash
    <3>1. \A k \in 1..s : U[n + 1][k] # slash
      BY <2>9 DEF HasNo
    <3> HIDE DEF y, w, p, s
    <3>2. \A k \in 1..s : p + k \in 1..(p + s + 1)
      BY <2>4, <2>10
    <3>3. p + s + 1 \in 1..(p + s + 1)
      BY <2>4, <2>10
    <3> QED BY <2>11, <2>13, <3>1, <3>2, <3>3
  <2>16. q = s
    <3> HIDE DEF y, p, q, s
    <3>1. CASE q < s
      <4>1. q + 1 \in 1..s /\ p + (q + 1) = p + q + 1
        BY <2>4, <2>10, <3>1
      <4> QED BY <2>14, <2>15, <4>1
    <3>2. CASE s < q
      <4>1. s + 1 \in 1..q /\ p + (s + 1) = p + s + 1
        BY <2>4, <2>10, <3>2
      <4> QED BY <2>14, <2>15, <4>1
    <3> QED BY <2>4, <2>10, <3>1, <3>2
  <2>17. A[n + 1] = U[n + 1]
    <3>1. \A k \in 1..q : A[n + 1][k] = U[n + 1][k]
      <4> HIDE DEF y, p, q, s
      <4> QED BY <2>14, <2>15, <2>16
    <3> QED BY <2>3, <2>10, <2>16, <3>1, SequencesEqual
  <2>18. \A k \in 1..(n + 1) : k \in 1..n \/ k = n + 1
    BY <2>1
  <2> QED BY <2>1, <2>9, <2>17, <2>18
<1>4. \A n \in 0..N : n \in S
  <2> HIDE DEF S
  <2> QED BY <1>1, <1>2, <1>3, UpTo
<1> QED BY <1>1, <1>4 DEF Begins

\* And the other way round.
LEMMA NamesTell ==
  ASSUME NEW Char, NEW slash, NEW A, NEW U,
         NEW a, Writes(a, A, slash, Char), NEW u, Writes(u, U, slash, Char), Begins(A, U)
  PROVE  Begins(a[Len(A)], u[Len(U)])
<1>1. /\ Len(A) \in Nat /\ Len(U) \in Nat /\ Len(A) <= Len(A) /\ Len(A) <= Len(U)
      /\ \A n \in 1..Len(A) : A[n] = U[n]
  BY TextTypes DEF Begins
<1>2. a[Len(A)] = u[Len(A)]
  <2> DEFINE N == Len(A)
  <2>1. N \in Nat /\ N <= Len(A) /\ N <= Len(U) /\ \A n \in 1..N : A[n] = U[n]
    BY <1>1
  <2> HIDE DEF N
  <2>2. a[N] = u[N]
    BY <2>1, SameTexts
  <2> QED BY <2>2 DEF N
<1>3. Len(A) \in 0..Len(U)
  BY <1>1
<1> QED BY <1>2, <1>3, TextsGrow

\* Names without a slash in them, none of them empty, begin others where their texts do; and
\* such a text is empty or starts with a letter that is no slash.
LEMMA SlashedTells ==
  ASSUME NEW Char, "/" \in Char, NEW A \in Seq(Seq(Char)), NEW U \in Seq(Seq(Char)),
         HasNo("/", A), HasNo("/", U)
  PROVE  Begins(Slashed(A), Slashed(U)) <=> Begins(A, U)
<1>1. PICK a : Writes(a, A, "/", Char) /\ Slashed(A) = a[Len(A)]
  BY SlashedWrites
<1>2. PICK u : Writes(u, U, "/", Char) /\ Slashed(U) = u[Len(U)]
  BY SlashedWrites
<1> DEFINE slash == "/"
<1> HIDE DEF slash
<1>3. /\ Writes(a, A, slash, Char) /\ Writes(u, U, slash, Char)
      /\ HasNo(slash, A) /\ HasNo(slash, U)
  BY <1>1, <1>2 DEF slash
<1>4. Begins(a[Len(A)], u[Len(U)]) => Begins(A, U)
  BY <1>3, TextsTell
<1>5. Begins(A, U) => Begins(a[Len(A)], u[Len(U)])
  BY <1>3, NamesTell
<1> QED BY <1>1, <1>2, <1>4, <1>5

LEMMA SlashedStarts ==
  ASSUME NEW Char, "/" \in Char, NEW A \in Seq(Seq(Char)), HasNo("/", A),
         \A n \in 1..Len(A) : Len(A[n]) > 0
  PROVE  /\ Slashed(A) \in Seq(Char)
         /\ Slashed(A) # <<>> => Slashed(A)[1] # "/"
<1>1. PICK a : Writes(a, A, "/", Char) /\ Slashed(A) = a[Len(A)]
  BY SlashedWrites
<1>2. Len(A) \in Nat /\ Len(A) \in 0..Len(A)
  OBVIOUS
<1>3. Slashed(A) \in Seq(Char)
  BY <1>1, <1>2, TextTypes
<1>4. CASE Len(A) = 0
  BY <1>1, <1>4 DEF Writes
<1>5. CASE Len(A) > 0
  <2>1. 0 \in 0..(Len(A) - 1) /\ 1 \in 1..Len(A) /\ 1 \in 0..Len(A) /\ 0 + 1 = 1
    BY <1>2, <1>5
  <2>2. Len(A[1]) \in Nat /\ Len(A[1]) > 0 /\ A[1][1] # "/"
    <3>1. Len(A[0 + 1]) \in Nat
      BY <1>1, <2>1, TextTypes
    <3>2. Len(A[1]) > 0
      BY <2>1
    <3> QED BY <2>1, <3>1, <3>2 DEF HasNo
  <2>3. a[0] = <<>> /\ Len(a[0]) = 0
    BY <1>1 DEF Writes
  <2>4. Len(a[1]) = Len(A[1]) + 1 /\ a[1][1] = A[1][1]
    <3>1. /\ Len(a[0 + 1]) = Len(a[0]) + Len(A[0 + 1]) + 1
          /\ \A k \in 1..Len(A[0 + 1]) : a[0 + 1][Len(a[0]) + k] = A[0 + 1][k]
      BY <1>1, <2>1 DEF Writes
    <3>2. 1 \in 1..Len(A[1]) /\ 0 + 1 = 1
      BY <2>2
    <3> QED BY <2>2, <2>3, <3>1, <3>2
  <2>5. Begins(a[1], a[Len(A)])
    BY <1>1, <2>1, TextsGrow
  <2>6. a[Len(A)][1] = a[1][1]
    BY <2>2, <2>4, <2>5 DEF Begins
  <2> QED BY <1>1, <1>3, <2>2, <2>4, <2>6
<1> QED BY <1>2, <1>3, <1>4, <1>5

LEMMA SlashesInFront ==
  ASSUME NEW Char, NEW x \in Char, NEW s \in Seq(Char), NEW t \in Seq(Char)
  PROVE  /\ Begins(<<x>> \o s, <<x>> \o t) <=> Begins(s, t)
         /\ Begins(<<x, x>> \o s, <<x, x>> \o t) <=> Begins(s, t)
         /\ Begins(<<x>> \o s, <<x, x>> \o t) => s = <<>> \/ s[1] = x
         /\ Begins(<<x, x>> \o s, <<x>> \o t) => t # <<>> /\ t[1] = x
<1>1. ASSUME NEW v \in Seq(Char)
      PROVE  /\ Len(v) \in Nat /\ (Len(v) = 0 => v = <<>>)
             /\ Len(<<x>> \o v) = Len(v) + 1 /\ Len(<<x, x>> \o v) = Len(v) + 2
             /\ (<<x>> \o v)[1] = x /\ (<<x, x>> \o v)[1] = x /\ (<<x, x>> \o v)[2] = x
             /\ \A k \in 1..Len(v) : (<<x>> \o v)[k + 1] = v[k] /\ (<<x, x>> \o v)[k + 2] = v[k]
  OBVIOUS
<1> DEFINE s1 == <<x>> \o s
           s2 == <<x, x>> \o s
           t1 == <<x>> \o t
           t2 == <<x, x>> \o t
<1>2. /\ Len(s) \in Nat /\ (Len(s) = 0 => s = <<>>) /\ Len(s1) = Len(s) + 1 /\ Len(s2) = Len(s) + 2
      /\ s1[1] = x /\ s2[1] = x /\ s2[2] = x
      /\ \A k \in 1..Len(s) : s1[k + 1] = s[k] /\ s2[k + 2] = s[k]
  BY <1>1
<1>3. /\ Len(t) \in Nat /\ (Len(t) = 0 => t = <<>>) /\ Len(t1) = Len(t) + 1 /\ Len(t2) = Len(t) + 2
      /\ t1[1] = x /\ t2[1] = x /\ t2[2] = x
      /\ \A k \in 1..Len(t) : t1[k + 1] = t[k] /\ t2[k + 2] = t[k]
  BY <1>1
<1> HIDE DEF s1, s2, t1, t2
<1>4. Begins(s1, t1) <=> Begins(s, t)
  <2>1. ASSUME Begins(s1, t1) PROVE Begins(s, t)
    <3>1. Len(s) <= Len(t)
      BY <1>2, <1>3, <2>1 DEF Begins
    <3>2. ASSUME NEW k \in 1..Len(s) PROVE s[k] = t[k]
      <4>1. k + 1 \in 1..Len(s1) /\ k \in 1..Len(t)
        BY <1>2, <1>3, <3>1
      <4>2. s1[k + 1] = t1[k + 1]
        BY <2>1, <4>1 DEF Begins
      <4> QED BY <1>2, <1>3, <4>1, <4>2
    <3> QED BY <3>1, <3>2 DEF Begins
  <2>2. ASSUME Begins(s, t) PROVE Begins(s1, t1)
    <3>1. Len(s) <= Len(t) /\ Len(s1) <= Len(t1)
      BY <1>2, <1>3, <2>2 DEF Begins
    <3>2. ASSUME NEW k \in 1..Len(s1) PROVE s1[k] = t1[k]
      <4>1. CASE k = 1
        BY <1>2, <1>3, <4>1
      <4>2. CASE k # 1
        <5>1. k - 1 \in 1..Len(s) /\ k - 1 \in 1..Len(t) /\ (k - 1) + 1 = k
          BY <1>2, <1>3, <3>1, <4>2
        <5>2. s[k - 1] = t[k - 1]
          BY <2>2, <5>1 DEF Begins
        <5> QED BY <1>2, <1>3, <5>1, <5>2
      <4> QED BY <4>1, <4>2
    <3> QED BY <3>1, <3>2 DEF Begins
  <2> QED BY <2>1, <2>2
<1>5. Begins(s2, t2) <=> Begins(s, t)
  <2>1. ASSUME Begins(s2, t2) PROVE Begins(s, t)
    <3>1. Len(s) <= Len(t)
      BY <1>2, <1>3, <2>1 DEF Begins
    <3>2. ASSUME NEW k \in 1..Len(s) PROVE s[k] = t[k]
      <4>1. k + 2 \in 1..Len(s2) /\ k \in 1..Len(t)
        BY <1>2, <1>3, <3>1
      <4>2. s2[k + 2] = t2[k + 2]
        BY <2>1, <4>1 DEF Begins
      <4> QED BY <1>2, <1>3, <4>1, <4>2
    <3> QED BY <3>1, <3>2 DEF Begins
  <2>2. ASSUME Begins(s, t) PROVE Begins(s2, t2)
    <3>1. Len(s) <= Len(t) /\ Len(s2) <= Len(t2)
      BY <1>2, <1>3, <2>2 DEF Begins
    <3>2. ASSUME NEW k \in 1..Len(s2) PROVE s2[k] = t2[k]
      <4>1. CASE k \in {1, 2}
        BY <1>2, <1>3, <4>1
      <4>2. CASE k \notin {1, 2}
        <5>1. k - 2 \in 1..Len(s) /\ k - 2 \in 1..Len(t) /\ (k - 2) + 2 = k
          BY <1>2, <1>3, <3>1, <4>2
        <5>2. s[k - 2] = t[k - 2]
          BY <2>2, <5>1 DEF Begins
        <5> QED BY <1>2, <1>3, <5>1, <5>2
      <4> QED BY <4>1, <4>2
    <3> QED BY <3>1, <3>2 DEF Begins
  <2> QED BY <2>1, <2>2
<1>6. ASSUME Begins(s1, t2), s # <<>> PROVE s[1] = x
  <2>1. 2 \in 1..Len(s1) /\ 1 \in 1..Len(s) /\ 1 + 1 = 2
    BY <1>2, <1>6
  <2>2. s1[2] = t2[2]
    BY <1>6, <2>1 DEF Begins
  <2> QED BY <1>2, <1>3, <2>1, <2>2
<1>7. ASSUME Begins(s2, t1) PROVE t # <<>> /\ t[1] = x
  <2>1. 2 \in 1..Len(s2) /\ Len(t) >= 1 /\ 1 \in 1..Len(t) /\ 1 + 1 = 2
    BY <1>2, <1>3, <1>7 DEF Begins
  <2>2. s2[2] = t1[2]
    BY <1>7, <2>1 DEF Begins
  <2>3. t # <<>>
    BY <2>1
  <2> QED BY <1>2, <1>3, <2>1, <2>2, <2>3
<1> QED BY <1>4, <1>5, <1>6, <1>7 DEF s1, s2, t1, t2

\* The segments of a path: what stands between slashes.
LEMMA ResolvedNames ==
  ASSUME NEW Char, NEW path \in Seq(Seq(Char)), HasNo("/", path)
  PROVE  /\ Resolved(path) \in Seq(Seq(Char)) /\ HasNo("/", Resolved(path))
         /\ \A n \in 1..Len(Resolved(path)) : Len(Resolved(path)[n]) > 0
<1> DEFINE R == Resolved(path)
           Segment == Seq(Char)
<1>1. PICK e \in Seq(Nat) :
        /\ Lists(e, NamesOf(path), UpsOf(path), Len(path))
        /\ R \in Seq(Segment) /\ Len(R) = Len(e)
        /\ \A a \in 1..Len(e) : R[a] = path[e[a]]
  <2>1. path \in Seq(Segment)
    OBVIOUS
  <2> HIDE DEF Segment
  <2> QED BY <2>1, ResolvedIsListed
<1>2. ASSUME NEW a \in 1..Len(e) PROVE e[a] \in 1..Len(path) /\ IsName(path[e[a]])
  <2>1. e[a] \in NamesOf(path)
    BY <1>1 DEF Lists, Remaining
  <2> QED BY <2>1 DEF NamesOf
<1>3. ASSUME NEW i \in 1..Len(path), IsName(path[i]) PROVE Len(path[i]) > 0
  <2>1. path[i] \in Seq(Char) /\ path[i] # <<>>
    BY <1>3 DEF IsName
  <2> DEFINE t == path[i]
  <2> HIDE DEF t
  <2>2. t \in Seq(Char) /\ t # <<>>
    BY <2>1 DEF t
  <2>3. Len(t) > 0
    BY <2>2
  <2> QED BY <2>3 DEF t
<1> HIDE DEF R
<1>4. \A n \in 1..Len(R) : R[n] = path[e[n]] /\ e[n] \in 1..Len(path) /\ Len(R[n]) > 0
  BY <1>1, <1>2, <1>3
<1>5. HasNo("/", R)
  <2>1. ASSUME NEW n \in 1..Len(R), NEW k \in 1..Len(R[n]) PROVE R[n][k] # "/"
    <3>1. R[n] = path[e[n]] /\ e[n] \in 1..Len(path)
      BY <1>4
    <3>2. k \in 1..Len(path[e[n]])
      BY <3>1
    <3> QED BY <3>1, <3>2 DEF HasNo
  <2> QED BY <2>1 DEF HasNo
<1> QED BY <1>1, <1>4, <1>5 DEF R

\* Where texts tell: a path whose text begins with that of another leads below it, and the
\* other way round where neither starts with two slashes.
LEMMA TextsConfine ==
  ASSUME NEW Char, "/" \in Char, NEW p \in Seq(Seq(Char)), NEW q \in Seq(Seq(Char)),
         HasNo("/", p), HasNo("/", q)
  PROVE  /\ IsPrefix(Text(p), Text(q)) => IsPrefix(Leads(p), Leads(q))
         /\ ~KeepsTwo(p) /\ ~KeepsTwo(q) /\ IsPrefix(Leads(p), Leads(q))
              => IsPrefix(Text(p), Text(q))
<1> DEFINE A == Resolved(p)
           U == Resolved(q)
           s == Slashed(A)
           t == Slashed(U)
           x == "/"
           Segment == Seq(Char)
<1>1. p \in Seq(Segment) /\ q \in Seq(Segment)
  OBVIOUS
<1>2. Leads(p) = A /\ Leads(q) = U
  <2> HIDE DEF Segment
  <2> QED BY <1>1, LeadsWhereResolved
<1>3. /\ A \in Seq(Seq(Char)) /\ HasNo("/", A) /\ \A n \in 1..Len(A) : Len(A[n]) > 0
      /\ U \in Seq(Seq(Char)) /\ HasNo("/", U) /\ \A n \in 1..Len(U) : Len(U[n]) > 0
  BY ResolvedNames
<1> HIDE DEF A, U
<1>4. /\ s \in Seq(Char) /\ (s # <<>> => s[1] # x)
      /\ t \in Seq(Char) /\ (t # <<>> => t[1] # x)
      /\ Begins(s, t) <=> Begins(A, U)
  BY <1>3, SlashedStarts, SlashedTells
<1>5. IsPrefix(A, U) <=> Begins(A, U)
  <2>1. A \in Seq(Segment) /\ U \in Seq(Segment)
    BY <1>3
  <2> HIDE DEF Segment
  <2> QED BY <2>1, PrefixByLetter
<1>6. /\ Text(p) = (IF KeepsTwo(p) /\ s # <<>> THEN <<x, x>> ELSE <<x>>) \o s
      /\ Text(q) = (IF KeepsTwo(q) /\ t # <<>> THEN <<x, x>> ELSE <<x>>) \o t
  BY DEF Text, A, U
<1>7. x \in Char
  OBVIOUS
<1>8. s = <<>> => Begins(s, t)
  <2>1. Len(t) \in Nat
    BY <1>4
  <2> QED BY <2>1 DEF Begins
<1> HIDE DEF s, t, x
<1>9. /\ Begins(<<x>> \o s, <<x>> \o t) <=> Begins(s, t)
      /\ Begins(<<x, x>> \o s, <<x, x>> \o t) <=> Begins(s, t)
      /\ Begins(<<x>> \o s, <<x, x>> \o t) => s = <<>> \/ s[1] = x
      /\ Begins(<<x, x>> \o s, <<x>> \o t) => t # <<>> /\ t[1] = x
  BY <1>4, <1>7, SlashesInFront
<1>10. Text(p) \in Seq(Char) /\ Text(q) \in Seq(Char)
  BY <1>4, <1>6, <1>7
<1>11. IsPrefix(Text(p), Text(q)) <=> Begins(Text(p), Text(q))
  BY <1>10, PrefixByLetter
<1>12. Begins(Text(p), Text(q)) => Begins(s, t)
  BY <1>4, <1>6, <1>8, <1>9
<1>13. ~KeepsTwo(p) /\ ~KeepsTwo(q) /\ Begins(s, t) => Begins(Text(p), Text(q))
  BY <1>6, <1>9
<1> QED BY <1>2, <1>4, <1>5, <1>11, <1>12, <1>13

\* The two ways to write the origin of a resource below Api.
AtApi(u) == IsValidResource(u) /\ u.scheme = "https" /\ u.host = "api" /\ Port(u) = 443

BelowApi(u, path) == u = At(Api, path) \/ u = At([Api EXCEPT !.port = 443], path)

LEMMA ApiParts == \A path, x : BelowApi(x, path) => AtApi(x)
<1> SUFFICES ASSUME NEW path, NEW x, BelowApi(x, path) PROVE AtApi(x)
  BY Zenon
<1> DEFINE u == At(Api, path)
           v == At([Api EXCEPT !.port = 443], path)
<1>1. /\ Api.scheme = "https" /\ Api.host = "api" /\ Api.port = 0
      /\ Api.userinfo = FALSE /\ Api.fragment = FALSE
  BY DEF Api
<1>2. /\ u.scheme = Api.scheme /\ u.host = Api.host /\ u.port = Api.port
      /\ u.userinfo = Api.userinfo /\ u.fragment = Api.fragment
  BY DEF At, Api
<1>3. /\ v.scheme = Api.scheme /\ v.host = Api.host /\ v.port = 443
      /\ v.userinfo = Api.userinfo /\ v.fragment = Api.fragment
  BY DEF At, Api
<1> HIDE DEF u, v
<1>4. AtApi(u) /\ AtApi(v)
  BY <1>1, <1>2, <1>3 DEF AtApi, IsValidResource, Port
<1> QED BY <1>4, Zenon DEF BelowApi, u, v

\* A token restricted to a resource is good below it and, but for paths that start with two
\* slashes, everywhere below it, for URIs of any path, whatever its length and its letters
\* (validators.py, validate_resource_as_url_prefix and AccessToken.allows_audience).
THEOREM AudienceMatches ==
  ASSUME NEW Char, "/" \in Char, NEW audience, NEW u,
         audience.path \in Seq(Seq(Char)), u.path \in Seq(Seq(Char)),
         HasNo("/", audience.path), HasNo("/", u.path)
  PROVE  AudienceConfines(audience, u) /\ AudienceReaches(audience, u)
<1> DEFINE p == audience.path
           q == u.path
<1>1. /\ IsPrefix(Text(p), Text(q)) => IsPrefix(Leads(p), Leads(q))
      /\ ~KeepsTwo(p) /\ ~KeepsTwo(q) /\ IsPrefix(Leads(p), Leads(q))
           => IsPrefix(Text(p), Text(q))
  BY TextsConfine
<1>2. AudienceConfines(audience, u)
  BY <1>1 DEF AudienceConfines, AllowsAudience, Covers
<1>3. ASSUME audience = At(Api, p), u = At(Api, q) \/ u = At([Api EXCEPT !.port = 443], q)
      PROVE  /\ IsValidResource(u) /\ IsValidResource(audience)
             /\ audience.scheme = u.scheme /\ audience.host = u.host /\ Port(audience) = Port(u)
  <2>1. BelowApi(audience, p) /\ BelowApi(u, q)
    BY <1>3, Zenon DEF BelowApi
  <2> HIDE DEF p, q
  <2> QED BY <2>1, ApiParts DEF AtApi
<1>4. AudienceReaches(audience, u)
  BY <1>1, <1>3 DEF AudienceReaches, AllowsAudience, Covers
<1> QED BY <1>2, <1>4

\* The paths of the run are made of letters, without a slash in their segments.
LEMMA SomePathsAreSlashed ==
  ASSUME NEW path \in SomePaths
  PROVE  path \in Seq(Seq({"/", ".", "a", "b"})) /\ HasNo("/", path)
<1> DEFINE Char == {"/", ".", "a", "b"}
<1>1. \A segment \in SomeSegments :
        segment \in Seq(Char) /\ \A k \in 1..Len(segment) : segment[k] # "/"
  <2>1. \A c \in Char : <<c>> \in Seq(Char) /\ Len(<<c>>) = 1 /\ <<c>>[1] = c
    OBVIOUS
  <2>2. \A c, d \in Char : /\ <<c, d>> \in Seq(Char) /\ Len(<<c, d>>) = 2
                            /\ <<c, d>>[1] = c /\ <<c, d>>[2] = d
    OBVIOUS
  <2>3. <<>> \in Seq(Char) /\ Len(<<>>) = 0
    OBVIOUS
  <2>4. "." \in Char /\ "a" \in Char /\ "b" \in Char
    OBVIOUS
  <2> HIDE DEF Char
  <2>5. ASSUME NEW segment \in SomeSegments
        PROVE  segment \in Seq(Char) /\ \A k \in 1..Len(segment) : segment[k] # "/"
    <3>1. CASE segment = <<>>
      BY <2>3, <3>1
    <3>2. CASE \E c \in {".", "a"} : segment = <<c>>
      <4>1. PICK c \in {".", "a"} : segment = <<c>>
        BY <3>2
      <4>2. c \in Char /\ c # "/"
        BY <2>4, <4>1
      <4> QED BY <2>1, <4>1, <4>2
    <3>3. CASE \E c \in {".", "a"}, d \in {".", "b"} : segment = <<c, d>>
      <4>1. PICK c \in {".", "a"}, d \in {".", "b"} : segment = <<c, d>>
        BY <3>3
      <4>2. c \in Char /\ c # "/" /\ d \in Char /\ d # "/"
        BY <2>4, <4>1
      <4>3. \A k \in 1..2 : k = 1 \/ k = 2
        OBVIOUS
      <4> QED BY <2>2, <4>1, <4>2, <4>3
    <3> QED BY <3>1, <3>2, <3>3 DEF SomeSegments, Dot, DotDot
  <2> QED BY <2>5
<1>2. PICK n \in 0..3 : path \in [1..n -> SomeSegments]
  BY DEF SomePaths
<1> HIDE DEF Char
<1>3. path \in Seq(Seq(Char)) /\ Len(path) = n
  <2>1. path \in [1..n -> Seq(Char)]
    BY <1>1, <1>2
  <2> DEFINE Segment == Seq(Char)
  <2> HIDE DEF Segment
  <2>2. path \in [1..n -> Segment]
    BY <2>1 DEF Segment
  <2>3. path \in Seq(Segment) /\ Len(path) = n
    BY <1>2, <2>2
  <2> QED BY <2>3 DEF Segment
<1>4. HasNo("/", path)
  BY <1>1, <1>2, <1>3 DEF HasNo
<1> QED BY <1>3, <1>4 DEF Char

\* A URI that is moved to a path has it.
LEMMA PathOfUri ==
  ASSUME NEW base \in SomeBases, NEW path
  PROVE  At(base, path).path = path
<1>1. CASE base \in {Api, [Api EXCEPT !.userinfo = TRUE], [Api EXCEPT !.fragment = TRUE]}
  BY <1>1 DEF At, Api
<1>2. CASE base \in {[Api EXCEPT !.port = n] : n \in BasePorts}
  BY <1>2 DEF At, Api
<1>3. CASE base \in {[Api EXCEPT !.scheme = s] : s \in {"http", "app", ""}}
  BY <1>3 DEF At, Api
<1>4. CASE base \in {[Api EXCEPT !.host = h] : h \in {"other", ""}}
  BY <1>4 DEF At, Api
<1> QED BY <1>1, <1>2, <1>3, <1>4, Zenon DEF SomeBases

----------------------------------------------------------------------------
(* The decisions of the run: what is asked about is one of the above.      *)

\* What is under question are clients as clean() accepts them, or a URI made of parts.
AskedInv ==
  /\ asked.about = "authentication" => AnyClients(asked.clients)
  /\ asked.about = "redirect" => asked.registered \in SomeUris
  /\ asked.about = "audience" => asked.audience.path \in SomePaths

LEMMA SomeTablesAreTables ==
  ASSUME NEW clients \in SomeTables PROVE AnyClients(clients)
<1>1. PICK c \in ClientRecord, d \in ClientRecord :
        clients = [id \in ClientIds |-> IF id = "c" THEN c ELSE d]
  BY DEF SomeTables
<1>2. ClientIds \cap {"absent", ""} = {}
  BY DEF ClientIds
<1> QED BY <1>1, <1>2 DEF AnyClients

LEMMA DecisionsInv == DecisionsSpec => [](RowInv /\ AskedInv)
<1>1. DecisionsInit => RowInv /\ AskedInv
  <2>1. DecisionsInit => RowInv
    BY DEF DecisionsInit, ConfigurationInit, RowInv
  <2>2. DecisionsInit => asked.about = "nothing"
    BY DEF DecisionsInit
  <2> QED BY <2>1, <2>2 DEF AskedInv
<1>2. RowInv /\ AskedInv /\ [DecisionsNext]_decisionsVars => RowInv' /\ AskedInv'
  <2> SUFFICES ASSUME RowInv, AskedInv, [DecisionsNext]_decisionsVars PROVE RowInv' /\ AskedInv'
    OBVIOUS
  <2>1. CASE Configure
    <3>1. Write
      BY <2>1 DEF Configure, Write, ByHand
    <3> QED BY <2>1, <3>1, RowStep DEF Configure, AskedInv
  <2>2. CASE AskAuthentication
    <3>1. PICK clients \in SomeTables, server \in SomeServers :
            asked' = [about |-> "authentication", clients |-> clients, server |-> server]
      BY <2>2 DEF AskAuthentication
    <3>2. AskedInv'
      BY <3>1, SomeTablesAreTables DEF AskedInv
    <3> QED BY <2>2, <3>2, RowStep DEF AskAuthentication
  <2>3. CASE AskRedirect
    <3>1. PICK s \in SomeSettings, reg \in SomeUris :
            asked' = [about |-> "redirect", settings |-> s, registered |-> reg]
      BY <2>3 DEF AskRedirect
    <3>2. AskedInv'
      BY <3>1 DEF AskedInv
    <3> QED BY <2>3, <3>2, RowStep DEF AskRedirect
  <2>4. CASE AskAudience
    <3>1. PICK base \in SomeBases, path \in SomePaths :
            asked' = [about |-> "audience", audience |-> At(base, path)]
      BY <2>4 DEF AskAudience
    <3>2. AskedInv'
      BY <3>1, PathOfUri DEF AskedInv
    <3> QED BY <2>4, <3>2, RowStep DEF AskAudience
  <2>5. CASE UNCHANGED decisionsVars
    BY <2>5, RowStep DEF decisionsVars, AskedInv
  <2> QED BY <2>1, <2>2, <2>3, <2>4, <2>5 DEF DecisionsNext
<1> QED BY <1>1, <1>2, PTL DEF DecisionsSpec

\* Nobody gets in as one of the clients under question without what it registered to show, and
\* nobody who shows it is kept out (OAuth2Validator.authenticate_client).
THEOREM AuthenticationHolds == DecisionsSpec => []AuthenticationIsSound
<1>1. AskedInv => AuthenticationIsSound
  BY AdmissionHolds DEF AskedInv, AuthenticationIsSound
<1> QED BY <1>1, DecisionsInv, PTL

\* What clean() lets a client register is what it is later sent to, and nothing else is
\* (AbstractApplication.redirect_uri_allowed).
THEOREM RedirectsHold == DecisionsSpec => []RedirectsAreRegistered
<1>1. AskedInv => RedirectsAreRegistered
  BY SomeRedirectsMatch DEF AskedInv, RedirectsAreRegistered
<1> QED BY <1>1, DecisionsInv, PTL

\* A token restricted to the resource under question is good below it and nowhere else
\* (AccessToken.allows_audience).
THEOREM AudienceHolds == DecisionsSpec => []AudienceIsRespected
<1>1. ASSUME NEW audience, audience.path \in SomePaths PROVE AudienceIsSound(audience)
  <2>1. ASSUME NEW base \in SomeBases, NEW path \in SomePaths
        PROVE  AudienceConfines(audience, At(base, path)) /\ AudienceReaches(audience, At(base, path))
    <3> DEFINE Char == {"/", ".", "a", "b"}
               u == At(base, path)
    <3>1. "/" \in Char /\ u.path = path
      BY PathOfUri
    <3>2. /\ audience.path \in Seq(Seq(Char)) /\ HasNo("/", audience.path)
          /\ path \in Seq(Seq(Char)) /\ HasNo("/", path)
      BY <1>1, SomePathsAreSlashed
    <3> HIDE DEF Char, u
    <3>3. u.path \in Seq(Seq(Char)) /\ HasNo("/", u.path)
      BY <3>1, <3>2
    <3>4. AudienceConfines(audience, u) /\ AudienceReaches(audience, u)
      BY <3>1, <3>2, <3>3, AudienceMatches
    <3> QED BY <3>4 DEF u
  <2> QED BY <2>1 DEF AudienceIsSound
<1>2. AskedInv => AudienceIsRespected
  BY <1>1 DEF AskedInv, AudienceIsRespected
<1> QED BY <1>2, DecisionsInv, PTL

\* However it is interrupted by questions, a row is configured as by its writers alone.
THEOREM QuestionsConfigureNothing == DecisionsSpec => ConfigurationSpec
<1>1. DecisionsInit => ConfigurationInit
  BY DEF DecisionsInit
<1>2. [DecisionsNext]_decisionsVars => [Write]_configuration
  BY DEF DecisionsNext, decisionsVars, Configure, ByHand, Write, AskAuthentication, AskRedirect, AskAudience
<1> QED BY <1>1, <1>2, PTL DEF DecisionsSpec, ConfigurationSpec

\* So what is proved of any configuration holds of those the decisions are put to the test with
\* (AbstractApplication.clean, DynamicClientRegistrationManagementView.put).
THEOREM ConfigurationHolds ==
  DecisionsSpec => /\ [](KeysAreUsable /\ ReadBackIsStable)
                   /\ OnlyNewNeedsLockOut
BY QuestionsConfigureNothing, KeysStayUsable, ReadBackHolds, LockOutsAreNew, PTL
=============================================================================
