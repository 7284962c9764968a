------------------------------- MODULE Access -------------------------------
(***************************************************************************)
(* What authentication and access control do with a request on its way     *)
(* inwards: auth.Middleware, auth.OptionalMiddleware and the Require...    *)
(* middlewares of rbac, each of them one layer of the route.  The layers   *)
(* talk to each other only through the request's context; each validates   *)
(* or reads it at its own moment, and the token may begin or cease to be   *)
(* valid in between.                                                       *)
(*                                                                         *)
(* Module Pipeline puts these layers among the others of a route.          *)
(*                                                                         *)
(* The empty string stands for "no user", "no user type" and "no URL       *)
(* parameter", as in the code.                                             *)
(***************************************************************************)
EXTENDS Naturals, Sequences

CONSTANTS
    Stacks,     \* sequences of layers, the outermost first
    Tokens,     \* what the Authorization header may carry as its token
    Params,     \* what chi.URLParam may return for the owner parameter
    NoClaims    \* the absence of claims in a context

AuthKinds == {"auth", "optional"}

RbacKinds == {"role", "permission", "type", "owner", "roleOrOwner"}

\* The kinds of the other layers, which module Pipeline describes.
OtherKinds == {"requestid", "recovery", "log", "cors", "timeout", "maintenance", "ratelimit"}

\* A layer has a kind; need lists what rbac requires or a rate limit goes by,
\* validator is that of an auth layer and what it demands, and excluded says if
\* the layer lets this path pass.  A validator may be nil in two ways: a nil
\* interface, or an interface that holds a nil *Validator.
ASSUME AccessAssumption ==
    /\ \A s \in Stacks : s \in Seq([kind : AuthKinds \cup RbacKinds \cup OtherKinds,
                                    need : SUBSET STRING,
                                    excluded : BOOLEAN,
                                    validator : [nil : {"no", "interface", "pointer"},
                                                 issuer : SUBSET STRING,
                                                 audience : SUBSET STRING]])
    /\ \A t \in Tokens : t.claims # NoClaims

VARIABLES
    stack,   \* the layers of the route
    header,  \* the Authorization header: none, malformed or bearer
    token,   \* the token of a bearer header
    param,   \* the owner in the URL
    clock,   \* where now is in the validity of the token: early, good, expired
    at,      \* the layer the request has reached; on the way back, the last one left
    ctx,     \* the innermost context so far: claims, user, type, roles, request ID
    answer,  \* none, served, the code of the response of a layer, or what has become
             \* of a panic: panicked, recovered, dying, crashed
    log,     \* what the layers have logged, each with what its context told it
    seen     \* history: the phases of the token's validity during the request

Empty == ""

accessVars == <<stack, header, token, param, clock, at, ctx, answer, log, seen>>

layer == stack[at]

-----------------------------------------------------------------------------
\* Claims and tokens.

HasAnyRole(claims, roles) == claims.roles \cap roles # {}

\* Mutation: one permission is enough.
HasAnyPermission(claims, permissions) == claims.permissions \cap permissions # {}

HasAllPermissions(claims, permissions) == permissions \subseteq claims.permissions

\* Validator.Validate with its configured issuer and audiences.  The signature
\* is checked first; of the other faults, expiry takes precedence (mapError),
\* and any one of the configured audiences will do.
Outcome(v) ==
    IF ~token.authentic THEN "TOKEN_INVALID"
    ELSE IF clock = "expired" THEN "TOKEN_EXPIRED"
    ELSE IF \/ clock = "early"
            \/ v.issuer # {} /\ token.issuer \notin v.issuer
            \/ v.audience # {} /\ token.audience \cap v.audience = {}
         THEN "TOKEN_INVALID"
         ELSE "valid"

\* WithClaims, and WithUserID, WithUserType and WithRoles for what is not empty.
Inject(c, claims) ==
    [id     |-> c.id,
     claims |-> claims,
     user   |-> IF claims.user # Empty THEN claims.user ELSE c.user,
     type   |-> IF claims.type # Empty THEN claims.type ELSE c.type,
     roles  |-> IF claims.roles # {} THEN claims.roles ELSE c.roles]

-----------------------------------------------------------------------------

\* A request ID is 0 if there is none.
NoID == 0

EmptyContext == [id |-> NoID, claims |-> NoClaims, user |-> Empty, type |-> Empty, roles |-> {}]

\* An entry of layer k about an event, with the request ID and the user.
Entry(k, event, id, user) == [layer |-> k, event |-> event, id |-> id, user |-> user]

Unlogged == {}

\* The refusals of auth and rbac.
Refusals == {"TOKEN_REQUIRED", "TOKEN_INVALID", "TOKEN_EXPIRED", "INVALID_CREDENTIALS",
             "FORBIDDEN", "VALIDATION_ERROR"}

AccessTypeOK ==
    /\ stack \in Stacks /\ token \in Tokens /\ param \in Params
    /\ header \in {"none", "malformed", "bearer"}
    /\ clock \in {"early", "good", "expired"}
    /\ at \in 1..(Len(stack) + 1)
    /\ ctx.id \in Nat
    /\ ctx.claims \in {t.claims : t \in Tokens} \cup {NoClaims}
    /\ ctx.user \in {t.claims.user : t \in Tokens} \cup {Empty}
    /\ ctx.type \in {t.claims.type : t \in Tokens} \cup {Empty}
    /\ ctx.roles \in {t.claims.roles : t \in Tokens} \cup {{}}
    /\ answer \in Refusals \cup {"none", "served", "panicked", "recovered", "dying", "crashed",
                                "INTERNAL_ERROR", "PREFLIGHT", "SERVICE_UNAVAILABLE",
                                "RATE_LIMITED"}
    /\ \A e \in log : e.layer \in 1..Len(stack) /\ e.id \in Nat
    /\ clock \in seen /\ seen \subseteq {"early", "good", "expired"}

AccessInit ==
    /\ stack \in Stacks /\ token \in Tokens /\ param \in Params
    /\ header \in {"none", "malformed", "bearer"}
    /\ clock \in {"early", "good", "expired"}
    /\ at = 1
    /\ ctx = EmptyContext
    /\ answer = "none"
    /\ log = {}
    /\ seen = {clock}

-----------------------------------------------------------------------------
\* What a layer may do with the request.

Reaches(kind) == answer = "none" /\ at <= Len(stack) /\ layer.kind = kind

Pass(c) ==
    /\ at' = at + 1
    /\ ctx' = c
    /\ UNCHANGED <<stack, header, token, param, clock, answer, log, seen>>

Refuse(code, entries) ==
    /\ answer' = code
    /\ log' = log \cup entries
    /\ UNCHANGED <<stack, header, token, param, clock, at, ctx, seen>>

-----------------------------------------------------------------------------
\* Package auth.

\* Built with a nil interface, auth.Middleware refuses whatever comes, excluded
\* paths too.
AuthNil ==
    /\ Reaches("auth") /\ layer.validator.nil = "interface"
    /\ Refuse("INTERNAL_ERROR", Unlogged)

AuthExcluded ==
    /\ Reaches("auth") /\ layer.validator.nil # "interface" /\ layer.excluded
    /\ Pass(ctx)

Authenticates == Reaches("auth") /\ layer.validator.nil # "interface" /\ ~layer.excluded

LoginFailed == {Entry(at, "authFailed", ctx.id, Empty)}

\* extractBearerToken fails.
AuthHeader ==
    /\ Authenticates /\ header # "bearer"
    /\ Refuse(IF header = "none" THEN "TOKEN_REQUIRED" ELSE "TOKEN_INVALID", LoginFailed)

\* Mutation: a token that has only expired is good enough.
AuthTokenUnlessExpired ==
    /\ Authenticates /\ header = "bearer"
    /\ \/ layer.validator.nil = "pointer" /\ Refuse("panicked", Unlogged)
       \/ /\ layer.validator.nil = "no" /\ Outcome(layer.validator) = "TOKEN_INVALID"
          /\ Refuse("TOKEN_INVALID", LoginFailed)
       \/ /\ layer.validator.nil = "no" /\ Outcome(layer.validator) # "TOKEN_INVALID"
          /\ Pass(Inject(ctx, token.claims))

\* A nil *Validator passes the check for nil and panics when it is used.
AuthToken ==
    /\ Authenticates /\ header = "bearer"
    /\ \/ layer.validator.nil = "pointer" /\ Refuse("panicked", Unlogged)
       \/ /\ layer.validator.nil = "no" /\ Outcome(layer.validator) # "valid"
          /\ Refuse(Outcome(layer.validator), LoginFailed)
       \/ /\ layer.validator.nil = "no" /\ Outcome(layer.validator) = "valid"
          /\ Pass(Inject(ctx, token.claims))

\* Mutation: an invalid token leaves empty claims in the context.
OptionalEmptyClaims ==
    /\ Reaches("optional")
    /\ \/ /\ header = "bearer" /\ layer.validator.nil = "no"
          /\ Pass(Inject(ctx, IF Outcome(layer.validator) = "valid" THEN token.claims
                              ELSE [user |-> Empty, type |-> Empty, roles |-> {}, permissions |-> {}]))
       \/ header # "bearer" /\ Pass(ctx)

\* Mutation: without a valid token the request goes on without any claims.
OptionalClears ==
    /\ Reaches("optional")
    /\ \/ /\ header = "bearer" /\ layer.validator.nil = "no"
          /\ Outcome(layer.validator) = "valid"
          /\ Pass(Inject(ctx, token.claims))
       \/ /\ \/ header # "bearer"
             \/ layer.validator.nil = "no" /\ Outcome(layer.validator) # "valid"
          /\ Pass([EmptyContext EXCEPT !.id = ctx.id])

\* OptionalMiddleware goes on without claims whenever it has none to add; its
\* validator is not checked for nil.
Optional ==
    /\ Reaches("optional")
    /\ \/ /\ header = "bearer" /\ layer.validator.nil # "no"
          /\ Refuse("panicked", Unlogged)
       \/ /\ header = "bearer" /\ layer.validator.nil = "no"
          /\ Outcome(layer.validator) = "valid"
          /\ Pass(Inject(ctx, token.claims))
       \/ /\ \/ header # "bearer"
             \/ layer.validator.nil = "no" /\ Outcome(layer.validator) # "valid"
          /\ Pass(ctx)

-----------------------------------------------------------------------------
\* Package rbac.

\* Mutation: a refusal is logged without the user.
AccessDenialAnonymous == {Entry(at, "accessDenied", ctx.id, Empty)}

\* logAccessDenial takes the user from the context, not from the claims.
AccessDenial == {Entry(at, "accessDenied", ctx.id, ctx.user)}

\* Every rbac middleware first refuses a request without claims.
Unauthenticated(kind) ==
    /\ Reaches(kind) /\ ctx.claims = NoClaims
    /\ Refuse("INVALID_CREDENTIALS", Unlogged)

\* Then it judges the claims.
Judge(kind, allowed) ==
    /\ Reaches(kind) /\ ctx.claims # NoClaims
    /\ \/ allowed /\ Pass(ctx)
       \/ ~allowed /\ Refuse("FORBIDDEN", AccessDenial)

RequireRole ==
    \/ Unauthenticated("role")
    \/ Judge("role", HasAnyRole(ctx.claims, layer.need))

RequirePermission ==
    \/ Unauthenticated("permission")
    \/ Judge("permission", HasAllPermissions(ctx.claims, layer.need))

RequireUserType ==
    \/ Unauthenticated("type")
    \/ Judge("type", ctx.claims.type \in layer.need)

\* Mutation: an absent parameter is compared like any other.
RequireOwnerOfAnything ==
    \/ Unauthenticated("owner")
    \/ Judge("owner", ctx.claims.user = param)

RequireOwner ==
    \/ Unauthenticated("owner")
    \/ /\ Reaches("owner") /\ ctx.claims # NoClaims /\ param = Empty
       /\ Refuse("VALIDATION_ERROR", Unlogged)
    \/ param # Empty /\ Judge("owner", ctx.claims.user = param)

RequireRoleOrOwner ==
    \/ Unauthenticated("roleOrOwner")
    \/ Judge("roleOrOwner", \/ HasAnyRole(ctx.claims, layer.need)
                            \/ param # Empty /\ ctx.claims.user = param)

-----------------------------------------------------------------------------

\* The handler behind all layers.
Serve ==
    /\ answer = "none" /\ at = Len(stack) + 1
    /\ answer' = "served"
    /\ UNCHANGED <<stack, header, token, param, clock, at, ctx, log, seen>>

\* The token becomes valid, or expires, while the request is on its way.
TimePasses ==
    /\ answer = "none"
    /\ \/ clock = "early" /\ clock' = "good"
       \/ clock = "good" /\ clock' = "expired"
    /\ seen' = seen \cup {clock'}
    /\ UNCHANGED <<stack, header, token, param, at, ctx, answer, log>>

AccessStep ==
    \/ AuthNil \/ AuthExcluded \/ AuthHeader \/ AuthToken \/ Optional
    \/ RequireRole \/ RequirePermission \/ RequireUserType \/ RequireOwner
    \/ RequireRoleOrOwner \/ Serve \/ TimePasses

-----------------------------------------------------------------------------
\* Properties.

IsGuard(l) == l.kind \in RbacKinds

\* Does an identity, as the helpers of context.go would show it, meet layer l?
Meets(l, id) ==
    CASE l.kind = "role"        -> id.roles \cap l.need # {}
      [] l.kind = "permission"  -> l.need \subseteq id.claims.permissions
      [] l.kind = "type"        -> id.type \in l.need
      [] l.kind = "owner"       -> param # Empty /\ id.user = param
      [] l.kind = "roleOrOwner" -> id.roles \cap l.need # {} \/ (param # Empty /\ id.user = param)
      [] OTHER                  -> TRUE

\* The user, type and roles a handler reads from its context meet the demands
\* of every rbac layer it is behind, although rbac judged the claims at another
\* moment and in another representation.
ServedIdentityMeetsGuards ==
    answer = "served" =>
        \A i \in 1..Len(stack) : IsGuard(stack[i]) =>
            ctx.claims # NoClaims /\ Meets(stack[i], ctx)

\* Does the validator of an auth layer that is in force accept the token, as
\* far as its contents go?
Accepts(l) ==
    /\ l.kind \in {"auth", "optional"} /\ l.validator.nil = "no"
    /\ ~(l.kind = "auth" /\ l.excluded)
    /\ l.validator.issuer # {} => token.issuer \in l.validator.issuer
    /\ l.validator.audience # {} => token.audience \cap l.validator.audience # {}

\* Nobody gets through a route that demands an identity without an authentic
\* token that some layer accepts and that was valid at a moment of the request.
ServedWasAuthenticated ==
    answer = "served" /\ (\E i \in 1..Len(stack) :
                             IsGuard(stack[i]) \/ (stack[i].kind = "auth" /\ ~stack[i].excluded))
    => /\ header = "bearer" /\ token.authentic /\ "good" \in seen
       /\ \E i \in 1..Len(stack) : Accepts(stack[i])

\* Is the token good all along and accepted by every auth layer, and do its
\* claims meet every rbac layer, each of them behind an auth layer?
GoodRequest ==
    /\ header = "bearer" /\ token.authentic /\ seen = {"good"}
    /\ \A i \in 1..Len(stack) :
          /\ stack[i].kind \in AuthKinds => Accepts(stack[i])
          /\ IsGuard(stack[i]) =>
                /\ Meets(stack[i], Inject(EmptyContext, token.claims))
                /\ \E j \in 1..(i - 1) : stack[j].kind \in AuthKinds

\* A good request is refused by no layer of auth or rbac, however they are
\* nested and whatever the layers between them do.
GoodRequestsAreServed == GoodRequest => answer \notin Refusals

\* A request is logged as denied just if claims were judged and FORBIDDEN is its
\* answer.  The entry names the user and the request whose claims were judged,
\* although it reads both from other places of the context, and a layer whose
\* demand the identity in the context does not meet (logAccessDenial).
DenialNamesTheActor ==
    LET denials == {e \in log : e.event = "accessDenied"}
    IN  /\ answer = "FORBIDDEN" <=> denials # {}
        /\ \A e \in denials :
              /\ e.user = ctx.claims.user /\ e.id = ctx.id
              /\ IsGuard(stack[e.layer]) /\ ~Meets(stack[e.layer], ctx)

WithoutID(c) == <<c.claims, c.user, c.type, c.roles>>

\* Once a layer has established who the request is from, no later layer changes
\* it or takes it away, even if the token has expired since.
IdentityIsStable == [][ctx.claims # NoClaims => WithoutID(ctx') = WithoutID(ctx)]_accessVars

=============================================================================
