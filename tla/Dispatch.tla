------------------------------ MODULE Dispatch ------------------------------
(***************************************************************************)
(* Dispatch of a call to its handler (service_repo/).  Modules register    *)
(* their endpoints as they are imported, in no particular order, several   *)
(* versions of one name among them.  A call then passes one check after    *)
(* the other; the first that it fails is its answer.  How a token or a     *)
(* password shows who the caller is, is left out: a call comes from a user *)
(* that is known, or from Nobody.                                          *)
(***************************************************************************)
EXTENDS Naturals, Sequences, SequencesExt, Filtering

CONSTANTS
  Declared,        \* endpoints: name, version, authorize ("yes", "no", "try"), allow, required
  Stored,          \* the users: company and role of each
  Nobody,          \* no user
  NoVersion,       \* a path without a version
  BuiltIn,         \* the version that is supported at least
  VersionRequired, \* apiserver.version.required
  CheckMaxVersion, \* apiserver.version.check_max_version
  AskedCalls       \* the calls that may come

\* What is known of a user: its role, and its company, which has users.
Roles == {"system", "root", "admin", "superuser", "user", "annotator", "guest"}
Identities == [role: Roles, company: {Stored[u].company : u \in DOMAIN Stored}]

\* No endpoint is declared twice; versions are pairs of numbers; a call comes from a user
\* that is known, or from Nobody.
ASSUME DispatchAssumption ==
  /\ \A d, e \in Declared : d.name = e.name /\ d.version = e.version => d = e
  /\ BuiltIn \in Nat \X Nat /\ \A d \in Declared : d.version \in Nat \X Nat
  /\ \A u \in DOMAIN Stored : Stored[u] \in Identities
  /\ Nobody \notin DOMAIN Stored \cup Identities
  /\ \A c \in AskedCalls : c.from \in DOMAIN Stored \cup {Nobody}
  /\ {VersionRequired, CheckMaxVersion} \subseteq BOOLEAN

VARIABLES
  registry, \* endpoints by name, as a list
  served    \* the last call, none at first

dispatchVars == <<registry, served>>

Unserved == [name |-> "none"]
EndpointNames == {d.name : d \in Declared}

-----------------------------------------------------------------------------
(* ServiceRepo: versions of endpoints.                                     *)

AtMost(v, w) == v[1] < w[1] \/ (v[1] = w[1] /\ v[2] <= w[2])

\* Mutant of NewestFirst: the list stays in the order of the imports.
AsImported(list, e) == Append(list, e)

\* register: the newest comes first.
NewestOrder(list) ==
  CHOOSE p \in Bijection(DOMAIN list, DOMAIN list) :
    \A i, j \in DOMAIN list : i < j => AtMost(list[p[j]].version, list[p[i]].version)
NewestFirst(list, e) ==
  LET all == Append(list, e) IN [i \in DOMAIN all |-> all[NewestOrder(all)[i]]]

RegisterEndpoint(e) ==
  /\ e \notin ToSet(registry[e.name])
  /\ registry' = [registry EXCEPT ![e.name] = NewestFirst(@, e)]
  /\ UNCHANGED served

MaxVersion ==
  LET versions == {BuiltIn} \cup {e.version : e \in UNION {ToSet(registry[n]) : n \in EndpointNames}}
  IN  CHOOSE v \in versions : \A w \in versions : AtMost(w, v)

\* parse_endpoint_path
Requested(c) == IF c.version = NoVersion THEN MaxVersion ELSE c.version
Malformed(c) ==
  \/ c.version = NoVersion /\ VersionRequired
  \/ c.version # NoVersion /\ CheckMaxVersion /\ ~AtMost(c.version, MaxVersion)

\* _get_endpoint
Fitting(c) ==
  IF c.name \in EndpointNames
  THEN Excluding(registry[c.name], {e \in Declared : ~AtMost(e.version, Requested(c))}) ELSE <<>>

-----------------------------------------------------------------------------
(* Validators.                                                             *)

Identity(u) == IF u = Nobody THEN Nobody ELSE Stored[u]
Privileged == {"system", "root", "admin"} \* who may impersonate

\* validate_auth
Authenticated(e, c) == IF e.authorize = "no" THEN Nobody ELSE Identity(c.from)
LacksAuth(e, c) == e.authorize = "yes" /\ Authenticated(e, c) = Nobody

\* validate_role
RoleRefused(e, who) == e.authorize = "yes" /\ who # Nobody /\ {"*", who.role} \cap e.allow = {}

\* validate_impersonation
Headers(c) == {u \in {c.act_as, c.impersonate_as} : u # Nobody}
BothHeaders(c) == c.act_as # Nobody /\ c.impersonate_as # Nobody
MayImpersonate(who, u) ==
  who.role \in Privileged /\ u \in DOMAIN Stored /\ (who.role = "root" \/ Stored[u].company = who.company)
Effective(c, who) ==
  IF c.act_as # Nobody THEN [Stored[c.act_as] EXCEPT !.role = who.role]
  ELSE IF c.impersonate_as # Nobody THEN Stored[c.impersonate_as]
  ELSE who

-----------------------------------------------------------------------------
Refused(code) == [code |-> code, ran |-> Nobody, who |-> Nobody]

\* handle_call: the checks that follow the one for the name.
Admitted(e, c) ==
  LET who == Authenticated(e, c)
  IN  IF LacksAuth(e, c) THEN Refused(401)
      ELSE IF RoleRefused(e, who) THEN Refused(403)
      ELSE IF BothHeaders(c) THEN Refused(400)
      ELSE IF Headers(c) # {} /\ who = Nobody THEN Refused(500)
      ELSE IF \E u \in Headers(c) : ~MayImpersonate(who, u) THEN Refused(400)
      ELSE IF Headers(c) # {} /\ RoleRefused(e, Effective(c, who)) THEN Refused(403)
      ELSE IF ~c.readable \/ (e.required /\ ~c.complete) THEN Refused(400)
      ELSE [code |-> 200, ran |-> e, who |-> Effective(c, who)]

AnswerTo(c) ==
  IF Malformed(c) THEN Refused(400)
  ELSE IF Fitting(c) = <<>> THEN Refused(404)
  ELSE Admitted(Head(Fitting(c)), c)

\* Calls come when all modules are imported.
ServeCall ==
  /\ served = Unserved /\ \A e \in Declared : e \in ToSet(registry[e.name])
  /\ served' \in AskedCalls
  /\ UNCHANGED registry

DispatchNext == ServeCall \/ \E e \in Declared : RegisterEndpoint(e)

DispatchInit == registry = [n \in EndpointNames |-> <<>>] /\ served = Unserved

-----------------------------------------------------------------------------
Suitable(c) == {d \in Declared : d.name = c.name /\ AtMost(d.version, Requested(c))}

\* Whatever the order of the imports, a call gets the newest version of its endpoint that
\* it is new enough for, and an answer of "not found" only if there is none.  A handler
\* that needs a user has one, whose role is allowed; only root acts for somebody of another
\* company, and one who acts as another keeps the role of its own.  A complete call of a
\* user that is allowed, and that impersonates nobody, is handled.
CallsReachTheirHandlers ==
  served # Unserved =>
    LET c == served
        a == AnswerTo(c)
    IN  /\ ~Malformed(c) => (a.code = 404 <=> Suitable(c) = {})
        /\ a.code = 200 =>
             /\ a.ran \in Suitable(c) /\ \A d \in Suitable(c) : AtMost(d.version, a.ran.version)
             /\ a.ran.required => c.complete
             /\ a.ran.authorize = "yes" =>
                  a.who # Nobody /\ {"*", a.who.role} \cap a.ran.allow # {}
             /\ a.who # Nobody => c.from # Nobody /\ a.ran.authorize # "no"
             /\ Headers(c) # {} =>
                  /\ a.who.company = Stored[c.from].company \/ Stored[c.from].role = "root"
                  /\ c.act_as # Nobody => a.who.role = Stored[c.from].role
        /\ ~Malformed(c) /\ Headers(c) = {} /\ c.readable /\ c.complete /\ c.from # Nobody =>
             \A d \in Suitable(c) :
               /\ \A e \in Suitable(c) : AtMost(e.version, d.version)
               /\ {"*", Stored[c.from].role} \cap d.allow # {}
               => a.code = 200 /\ a.ran = d
=============================================================================
