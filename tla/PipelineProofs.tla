--------------------------- MODULE PipelineProofs ---------------------------
(***************************************************************************)
(* What module Pipeline promises of a request, for every set of routes,    *)
(* tokens and parameters.                                                  *)
(*                                                                         *)
(* A step of a request is one of four: it goes on to the next layer, it is *)
(* answered, it leaves a layer on the way back, or time passes.  Most of   *)
(* what follows needs to know no more of a step than that; a layer is      *)
(* looked at only where its own decision matters.                          *)
(***************************************************************************)
EXTENDS Pipeline, FiniteSetTheorems, TLAPS

\* The request goes on to the next layer.
GoesOn ==
    /\ answer = "none" /\ at <= Len(stack)
    /\ at' = at + 1 /\ held' = Append(held, ctx)
    /\ UNCHANGED <<inputs, clock, seen, answer, log>>

\* What a layer that lets the request go on does to its context: a new ID,
\* the identity of the token, or nothing.
Numbers ==
    /\ layer.kind = "requestid"
    /\ issued' = (IF incoming # NoID THEN incoming ELSE GeneratedID(at))
    /\ ctx' = [ctx EXCEPT !.id = issued']
    /\ UNCHANGED counted

Names ==
    /\ layer.kind \in AuthKinds
    /\ header = "bearer" /\ layer.validator.nil = "no"
    /\ layer.kind = "auth" => ~layer.excluded
    /\ Outcome(layer.validator) = "valid"
    /\ ctx' = Inject(ctx, token.claims)
    /\ UNCHANGED <<issued, counted>>

\* The judgement of rbac on the claims.
Allows(l, claims) ==
    CASE l.kind = "role"        -> HasAnyRole(claims, l.need)
      [] l.kind = "permission"  -> HasAllPermissions(claims, l.need)
      [] l.kind = "type"        -> claims.type \in l.need
      [] l.kind = "owner"       -> param # Empty /\ claims.user = param
      [] l.kind = "roleOrOwner" -> HasAnyRole(claims, l.need) \/ (param # Empty /\ claims.user = param)
      [] OTHER                  -> TRUE

\* A rate limit counts the request, if it does not skip it.
Counts ==
    \/ UNCHANGED counted
    \/ /\ layer.kind = "ratelimit"
       /\ counted' = counted \cup {[layer |-> at, key |-> Key(layer.need)]}

Keeps ==
    /\ layer.kind # "requestid"
    /\ layer.kind = "auth" => layer.excluded
    /\ layer.kind = "optional" => header # "bearer" \/ Outcome(layer.validator) # "valid"
    /\ layer.kind = "cors" => ~preflight
    /\ IsGuard(layer) => ctx.claims # NoClaims /\ Allows(layer, ctx.claims)
    /\ UNCHANGED <<ctx, issued>>
    /\ Counts

\* The layer the request has reached, or the handler, answers it or panics.
IsAnswered ==
    /\ answer = "none" /\ answer' # "none"
    /\ UNCHANGED <<inputs, clock, seen, at, ctx, held, issued>>

Handles ==
    /\ at = Len(stack) + 1
    /\ answer' \in {"served", "panicked"}
    /\ UNCHANGED <<log, counted>>

\* A layer answers for a reason that is not the identity of the client.
Rejects ==
    /\ at <= Len(stack)
    /\ answer' \in {"PREFLIGHT", "SERVICE_UNAVAILABLE", "RATE_LIMITED", "INTERNAL_ERROR",
                    "panicked"}
    /\ UNCHANGED log
    /\ Counts

\* The reasons of auth and rbac to refuse.
Unwelcome ==
    \/ /\ layer.kind = "auth" /\ ~layer.excluded
       /\ header # "bearer" \/ Outcome(layer.validator) # "valid"
    \/ IsGuard(layer) /\ (ctx.claims = NoClaims \/ ~Allows(layer, ctx.claims))

Denies ==
    /\ at <= Len(stack)
    /\ answer' \in Refusals
    /\ Unwelcome
    /\ \/ /\ answer' # "FORBIDDEN"
          /\ log' = log \/ log' = log \cup LoginFailed
       \/ /\ answer' = "FORBIDDEN"
          /\ log' = log \cup AccessDenial
          /\ IsGuard(layer) /\ ctx.claims # NoClaims /\ ~Allows(layer, ctx.claims)
    /\ UNCHANGED counted

\* A layer the request has passed is left on the way back.
ComesBack ==
    /\ answer # "none" /\ answer' # "none" /\ at > 1 /\ at' = at - 1
    /\ UNCHANGED <<inputs, clock, seen, ctx, held, issued, counted>>

\* The token becomes valid or expires, or the process of a panic ends.
Waits == (TimePasses \/ Crash) /\ UNCHANGED <<incoming, preflight, held, issued, counted>>

AtIsNatural == at \in Nat /\ at >= 1

-----------------------------------------------------------------------------
\* The kinds of steps.

LEMMA PassGoesOn ==
    ASSUME AtIsNatural, NEW c, answer = "none", at <= Len(stack), Pass(c), Inwards,
           UNCHANGED <<incoming, preflight>>
    PROVE  GoesOn /\ ctx' = c
BY DEF AtIsNatural, Pass, Inwards, GoesOn, inputs

LEMMA RefuseAnswers ==
    ASSUME AtIsNatural, NEW code, NEW entries, code # "none", answer = "none",
           Refuse(code, entries), Inwards, UNCHANGED <<incoming, preflight, issued>>
    PROVE  IsAnswered /\ answer' = code /\ log' = log \cup entries
BY DEF AtIsNatural, Refuse, Inwards, IsAnswered, inputs

LEMMA RefuseUnlogged ==
    ASSUME AtIsNatural, NEW code, code # "none", answer = "none",
           Refuse(code, Unlogged), Inwards, UNCHANGED <<incoming, preflight, issued>>
    PROVE  IsAnswered /\ answer' = code /\ log' = log
<1>1. IsAnswered /\ answer' = code /\ log' = log \cup Unlogged
  BY RefuseAnswers
<1>2. log \cup Unlogged = log
  BY DEF Unlogged
<1> QED
  BY <1>1, <1>2

LEMMA OutcomeIsNotNone == \A v : Outcome(v) # "none"
BY DEF Outcome

\* Request ID, recovery, log, CORS, maintenance and rate limit.
LEMMA OtherLayers ==
    ASSUME AtIsNatural, RequestID \/ Wrap \/ Cors \/ Maintenance \/ RateLimit
    PROVE  (GoesOn /\ (Numbers \/ Keeps)) \/ (IsAnswered /\ Rejects)
<1> USE DEF Reaches, IsGuard, RbacKinds, AuthKinds, Counts, Rejects
<1>1. CASE RequestID
  <2> DEFINE id == IF incoming # NoID THEN incoming ELSE GeneratedID(at)
  <2>1. Pass([ctx EXCEPT !.id = id]) /\ issued' = id
    BY <1>1 DEF RequestID
  <2>2. GoesOn /\ ctx' = [ctx EXCEPT !.id = id]
    BY <1>1, <2>1, PassGoesOn DEF RequestID
  <2> QED
    BY <1>1, <2>1, <2>2 DEF RequestID, Numbers
<1>2. CASE Wrap
  BY <1>2, PassGoesOn DEF Wrap, Keeps
<1>3. CASE Cors
  <2>1. CASE preflight /\ Refuse("PREFLIGHT", Unlogged)
    BY <1>3, <2>1, RefuseUnlogged DEF Cors
  <2>2. CASE ~preflight /\ Pass(ctx)
    BY <1>3, <2>2, PassGoesOn DEF Cors, Keeps
  <2> QED
    BY <1>3, <2>1, <2>2 DEF Cors
<1>4. CASE Maintenance
  <2>1. CASE Refuse("SERVICE_UNAVAILABLE", Unlogged)
    BY <1>4, <2>1, RefuseUnlogged DEF Maintenance
  <2>2. CASE Pass(ctx)
    BY <1>4, <2>2, PassGoesOn DEF Maintenance, Keeps
  <2> QED
    BY <1>4, <2>1, <2>2 DEF Maintenance
<1>5. CASE RateLimit
  <2>1. CASE Refuse("RATE_LIMITED", Unlogged)
    BY <1>5, <2>1, RefuseUnlogged DEF RateLimit
  <2>2. CASE Pass(ctx)
    BY <1>5, <2>2, PassGoesOn DEF RateLimit, Keeps
  <2> QED
    BY <1>5, <2>1, <2>2 DEF RateLimit
<1> QED
  BY <1>1, <1>2, <1>3, <1>4, <1>5

\* The layers of package auth.
LEMMA AuthLayers ==
    ASSUME AtIsNatural, AuthNil \/ AuthExcluded \/ AuthHeader \/ AuthToken \/ Optional,
           Inwards, UNCHANGED <<incoming, preflight, issued, counted>>
    PROVE  (GoesOn /\ (Names \/ Keeps)) \/ (IsAnswered /\ (Rejects \/ Denies))
<1> USE DEF Reaches, IsGuard, RbacKinds, AuthKinds, Counts
<1>1. CASE AuthNil
  BY <1>1, RefuseUnlogged DEF AuthNil, Rejects
<1>2. CASE AuthExcluded
  BY <1>2, PassGoesOn DEF AuthExcluded, Keeps
<1>3. CASE AuthHeader
  <2>1. PICK code \in {"TOKEN_REQUIRED", "TOKEN_INVALID"} : Refuse(code, LoginFailed)
    BY <1>3 DEF AuthHeader
  <2>2. IsAnswered /\ answer' = code /\ log' = log \cup LoginFailed
    BY <1>3, <2>1, RefuseAnswers DEF AuthHeader, Authenticates
  <2> QED
    BY <1>3, <2>2 DEF AuthHeader, Authenticates, Denies, Refusals, Unwelcome
<1>4. CASE AuthToken
  <2>0. CASE Refuse("panicked", Unlogged)
    BY <1>4, <2>0, RefuseUnlogged DEF AuthToken, Authenticates, Rejects
  <2>1. CASE Outcome(layer.validator) # "valid" /\ Refuse(Outcome(layer.validator), LoginFailed)
    <3>1. IsAnswered /\ answer' = Outcome(layer.validator) /\ log' = log \cup LoginFailed
      BY <1>4, <2>1, RefuseAnswers, OutcomeIsNotNone DEF AuthToken, Authenticates
    <3>2. Outcome(layer.validator) \in (Refusals \ {"FORBIDDEN"}) \cup {"valid"}
      BY DEF Outcome, Refusals
    <3> QED
      BY <1>4, <2>1, <3>1, <3>2 DEF AuthToken, Authenticates, Denies, Unwelcome
  <2>2. CASE /\ layer.validator.nil = "no" /\ Outcome(layer.validator) = "valid"
             /\ Pass(Inject(ctx, token.claims))
    <3>1. GoesOn /\ ctx' = Inject(ctx, token.claims)
      BY <1>4, <2>2, PassGoesOn DEF AuthToken, Authenticates
    <3> QED
      BY <1>4, <2>2, <3>1 DEF AuthToken, Authenticates, Names
  <2> QED
    BY <1>4, <2>0, <2>1, <2>2 DEF AuthToken
<1>5. CASE Optional
  <2>1. CASE Refuse("panicked", Unlogged)
    BY <1>5, <2>1, RefuseUnlogged DEF Optional, Rejects
  <2>2. CASE /\ header = "bearer" /\ layer.validator.nil = "no"
             /\ Outcome(layer.validator) = "valid"
             /\ Pass(Inject(ctx, token.claims))
    <3>1. GoesOn /\ ctx' = Inject(ctx, token.claims)
      BY <1>5, <2>2, PassGoesOn DEF Optional
    <3> QED
      BY <1>5, <2>2, <3>1 DEF Optional, Names
  <2>3. CASE /\ header # "bearer" \/ Outcome(layer.validator) # "valid"
             /\ Pass(ctx)
    BY <1>5, <2>3, PassGoesOn DEF Optional, Keeps
  <2> QED
    BY <1>5, <2>1, <2>2, <2>3 DEF Optional
<1> QED
  BY <1>1, <1>2, <1>3, <1>4, <1>5

\* One layer of package rbac, by its judgement.
LEMMA JudgeDecides ==
    ASSUME AtIsNatural, NEW kind \in RbacKinds, NEW allowed \in BOOLEAN,
           Reaches(kind) /\ ctx.claims # NoClaims => (allowed <=> Allows(layer, ctx.claims)),
           Unauthenticated(kind) \/ Judge(kind, allowed),
           Inwards, UNCHANGED <<incoming, preflight, issued, counted>>
    PROVE  (GoesOn /\ Keeps) \/ (IsAnswered /\ Denies)
<1> USE DEF Reaches, IsGuard, RbacKinds, AuthKinds, Counts
<1>1. CASE Unauthenticated(kind)
  BY <1>1, RefuseUnlogged DEF Unauthenticated, Denies, Unwelcome, Refusals
<1>2. CASE Judge(kind, allowed) /\ Pass(ctx) /\ allowed
  BY <1>2, PassGoesOn DEF Judge, Keeps
<1>3. CASE Judge(kind, allowed) /\ ~allowed /\ Refuse("FORBIDDEN", AccessDenial)
  <2>1. IsAnswered /\ answer' = "FORBIDDEN" /\ log' = log \cup AccessDenial
    BY <1>3, RefuseAnswers DEF Judge
  <2> QED
    BY <1>3, <2>1 DEF Judge, Denies, Unwelcome, Refusals
<1> QED
  BY <1>1, <1>2, <1>3 DEF Judge

LEMMA RbacLayers ==
    ASSUME AtIsNatural,
           RequireRole \/ RequirePermission \/ RequireUserType \/ RequireOwner \/ RequireRoleOrOwner,
           Inwards, UNCHANGED <<incoming, preflight, issued, counted>>
    PROVE  (GoesOn /\ Keeps) \/ (IsAnswered /\ Denies)
<1> USE DEF RbacKinds, Allows, Reaches
<1>1. CASE RequireRole
  <2>1. HasAnyRole(ctx.claims, layer.need) \in BOOLEAN
    BY DEF HasAnyRole
  <2> QED
    BY <1>1, <2>1, JudgeDecides DEF RequireRole
<1>2. CASE RequirePermission
  <2>1. HasAllPermissions(ctx.claims, layer.need) \in BOOLEAN
    BY DEF HasAllPermissions
  <2> QED
    BY <1>2, <2>1, JudgeDecides DEF RequirePermission
<1>3. CASE RequireUserType
  <2>1. (ctx.claims.type \in layer.need) \in BOOLEAN
    OBVIOUS
  <2> QED
    BY <1>3, <2>1, JudgeDecides DEF RequireUserType
<1>4. CASE RequireOwner
  <2>1. CASE Reaches("owner") /\ ctx.claims # NoClaims /\ param = Empty
             /\ Refuse("VALIDATION_ERROR", Unlogged)
    BY <2>1, RefuseUnlogged DEF Denies, Unwelcome, Refusals, IsGuard
  <2>2. CASE Unauthenticated("owner") \/ (param # Empty /\ Judge("owner", ctx.claims.user = param))
    <3>1. CASE param # Empty
      BY <2>2, <3>1, JudgeDecides
    <3>2. CASE Unauthenticated("owner")
      BY <3>2, JudgeDecides
    <3> QED
      BY <2>2, <3>1, <3>2
  <2> QED
    BY <1>4, <2>1, <2>2 DEF RequireOwner
<1>5. CASE RequireRoleOrOwner
  <2>1. (HasAnyRole(ctx.claims, layer.need) \/ (param # Empty /\ ctx.claims.user = param)) \in BOOLEAN
    OBVIOUS
  <2> QED
    BY <1>5, <2>1, JudgeDecides DEF RequireRoleOrOwner
<1> QED
  BY <1>1, <1>2, <1>3, <1>4, <1>5

\* The steps that answer or go on, and those that come back.
LEMMA StepKinds ==
    ASSUME AtIsNatural, Next
    PROVE  \/ GoesOn /\ (Numbers \/ Names \/ Keeps)
           \/ IsAnswered /\ (Handles \/ Rejects \/ Denies)
           \/ ComesBack /\ (LeaveLog \/ LeaveRecovery \/ LeaveTimeout \/ LeaveOther)
           \/ Waits
<1>1. CASE RequestID \/ Wrap \/ Cors \/ Maintenance \/ RateLimit
  BY <1>1, OtherLayers
<1>2. CASE Authorize
  <2>1. CASE AuthNil \/ AuthExcluded \/ AuthHeader \/ AuthToken \/ Optional
    BY <1>2, <2>1, AuthLayers DEF Authorize
  <2>2. CASE RequireRole \/ RequirePermission \/ RequireUserType \/ RequireOwner
             \/ RequireRoleOrOwner
    BY <1>2, <2>2, RbacLayers DEF Authorize
  <2>3. CASE Serve
    BY <1>2, <2>3 DEF Authorize, Serve, Inwards, IsAnswered, Handles, inputs, AtIsNatural
  <2>4. CASE TimePasses
    BY <1>2, <2>4 DEF Authorize, TimePasses, Waits, Inwards, AtIsNatural
  <2> QED
    BY <1>2, <2>1, <2>2, <2>3, <2>4 DEF Authorize, AccessStep
<1>3. CASE HandlerPanic
  BY <1>3 DEF HandlerPanic, IsAnswered, Handles, inputs
<1>4. CASE LeaveLog
  BY <1>4 DEF LeaveLog, Leaves, ComesBack
<1>5. CASE LeaveRecovery
  BY <1>5 DEF LeaveRecovery, Leaves, ComesBack
<1>6. CASE LeaveTimeout \/ LeaveOther
  BY <1>6 DEF LeaveTimeout, LeaveOther, Leaves, ComesBack
<1>7. CASE Crash
  BY <1>7 DEF Crash, Waits, inputs
<1> QED
  BY <1>1, <1>2, <1>3, <1>4, <1>5, <1>6, <1>7 DEF Next

-----------------------------------------------------------------------------
\* Types.

Claims == {t.claims : t \in Tokens}

Contexts ==
    [id     : Nat,
     claims : Claims \cup {NoClaims},
     user   : {c.user : c \in Claims} \cup {Empty},
     type   : {c.type : c \in Claims} \cup {Empty},
     roles  : {c.roles : c \in Claims} \cup {{}}]

\* What was given at the beginning, and stays.
GivenOK ==
    /\ stack \in Stacks /\ token \in Tokens /\ param \in Params
    /\ header \in {"none", "malformed", "bearer"}
    /\ incoming \in {NoID, ClientID} /\ preflight \in BOOLEAN

\* As deep as the request has gone, so many contexts have been kept.
DepthOK ==
    /\ at \in 1..(Len(stack) + 1)
    /\ held \in Seq(Contexts) /\ Len(held) <= Len(stack) /\ at <= Len(held) + 1
    /\ answer = "none" => at = Len(held) + 1

TimeOK ==
    /\ clock \in {"early", "good", "expired"}
    /\ clock \in seen /\ seen \subseteq {"early", "good", "expired"}

AnswerOK ==
    answer \in Refusals \cup {"none", "served", "panicked", "recovered", "dying", "crashed",
                             "INTERNAL_ERROR", "PREFLIGHT", "SERVICE_UNAVAILABLE", "RATE_LIMITED"}

LogOK == \A e \in log : e.layer \in 1..Len(stack) /\ e.id \in Nat

CountedOK == \A c \in counted : c.layer \in 1..Len(stack) /\ stack[c.layer].kind = "ratelimit"

Typed ==
    /\ GivenOK /\ DepthOK /\ TimeOK /\ AnswerOK /\ LogOK /\ CountedOK
    /\ ctx \in Contexts /\ issued \in Nat

LEMMA StackIsSeq ==
    ASSUME stack \in Stacks
    PROVE  Len(stack) \in Nat /\ stack \in [1..Len(stack) -> Range(stack)]
BY AccessAssumption DEF Range

LEMMA IDOfContext == \A c \in Contexts : c.id \in Nat
BY DEF Contexts

LEMMA FieldsOfEntry ==
    \A k, event, id, user :
        /\ Entry(k, event, id, user).layer = k
        /\ Entry(k, event, id, user).event = event
        /\ Entry(k, event, id, user).id = id
        /\ Entry(k, event, id, user).user = user
BY DEF Entry

\* Refusals are logged with the context the layer was given.
LEMMA RefusalEntries ==
    /\ \A e \in LoginFailed : e.layer = at /\ e.event = "authFailed" /\ e.id = ctx.id
    /\ \A e \in AccessDenial :
          e.layer = at /\ e.event = "accessDenied" /\ e.id = ctx.id /\ e.user = ctx.user
<1>1. ASSUME NEW e \in LoginFailed
      PROVE  e.layer = at /\ e.event = "authFailed" /\ e.id = ctx.id
  <2> DEFINE f == Entry(at, "authFailed", ctx.id, Empty)
  <2>1. f.layer = at /\ f.event = "authFailed" /\ f.id = ctx.id /\ f.user = Empty
    BY FieldsOfEntry
  <2>2. e = f
    BY DEF LoginFailed
  <2> QED
    BY <2>1, <2>2
<1>2. ASSUME NEW e \in AccessDenial
      PROVE  e.layer = at /\ e.event = "accessDenied" /\ e.id = ctx.id /\ e.user = ctx.user
  <2> DEFINE f == Entry(at, "accessDenied", ctx.id, ctx.user)
  <2>1. f.layer = at /\ f.event = "accessDenied" /\ f.id = ctx.id /\ f.user = ctx.user
    BY FieldsOfEntry
  <2>2. e = f
    BY DEF AccessDenial
  <2> QED
    BY <2>1, <2>2
<1> QED
  BY <1>1, <1>2

LEMMA EmptyContextOK == EmptyContext \in Contexts
BY DEF EmptyContext, Contexts, NoID

LEMMA InitTyped == Init => Typed
<1> SUFFICES ASSUME Init PROVE Typed
  OBVIOUS
<1> USE DEF Init, AccessInit
<1>1. GivenOK /\ TimeOK /\ AnswerOK /\ CountedOK
  BY DEF GivenOK, TimeOK, AnswerOK, CountedOK
<1>2. DepthOK
  BY StackIsSeq DEF DepthOK
<1>3. ctx \in Contexts /\ issued \in Nat /\ LogOK
  BY EmptyContextOK DEF NoID, LogOK
<1> QED
  BY <1>1, <1>2, <1>3 DEF Typed

LEMMA TypedImpliesTypeOK == Typed => TypeOK
<1> SUFFICES ASSUME Typed PROVE TypeOK
  OBVIOUS
<1> USE DEF Typed
<1>1. /\ ctx.id \in Nat
      /\ ctx.claims \in {t.claims : t \in Tokens} \cup {NoClaims}
      /\ ctx.user \in {t.claims.user : t \in Tokens} \cup {Empty}
      /\ ctx.type \in {t.claims.type : t \in Tokens} \cup {Empty}
      /\ ctx.roles \in {t.claims.roles : t \in Tokens} \cup {{}}
  BY DEF Contexts, Claims
<1>2. AccessTypeOK
  BY <1>1, StackIsSeq DEF GivenOK, DepthOK, TimeOK, AnswerOK, LogOK, AccessTypeOK
<1> QED
  BY <1>2, StackIsSeq DEF GivenOK, DepthOK, CountedOK, TypeOK

LEMMA GoesOnContext ==
    ASSUME Typed, GoesOn, Numbers \/ Names \/ Keeps
    PROVE  ctx' \in Contexts /\ issued' \in Nat
<1> USE DEF Typed
<1>1. CASE Numbers
  <2>1. issued' \in Nat
    BY <1>1 DEF Numbers, GivenOK, DepthOK, NoID, ClientID, GeneratedID
  <2> QED
    BY <1>1, <2>1 DEF Numbers, Contexts
<1>2. CASE Names
  <2>1. token.claims \in Claims
    BY DEF GivenOK, Claims
  <2> QED
    BY <1>2, <2>1 DEF Names, Inject, Contexts
<1>3. CASE Keeps
  BY <1>3 DEF Keeps
<1> QED
  BY <1>1, <1>2, <1>3

LEMMA CountsOK ==
    ASSUME Typed, Counts, at <= Len(stack), UNCHANGED stack
    PROVE  CountedOK'
BY StackIsSeq DEF Typed, GivenOK, DepthOK, Counts, CountedOK, layer

LEMMA TypedNext == Typed /\ [Next]_vars => Typed'
<1> SUFFICES ASSUME Typed, [Next]_vars PROVE Typed'
  OBVIOUS
<1> USE DEF Typed
<1>0. AtIsNatural /\ Len(stack) \in Nat
  BY StackIsSeq DEF GivenOK, DepthOK, AtIsNatural
<1>1. CASE GoesOn /\ (Numbers \/ Names \/ Keeps)
  <2>1. ctx' \in Contexts /\ issued' \in Nat
    BY <1>1, GoesOnContext
  <2>2. GivenOK' /\ TimeOK' /\ AnswerOK' /\ LogOK'
    BY <1>1 DEF GoesOn, inputs, GivenOK, TimeOK, AnswerOK, LogOK
  <2>3. DepthOK'
    BY <1>0, <1>1 DEF GoesOn, inputs, DepthOK
  <2>4. CountedOK'
    BY <1>1, CountsOK DEF GoesOn, inputs, Numbers, Names, Keeps, CountedOK
  <2> QED
    BY <2>1, <2>2, <2>3, <2>4
<1>2. CASE IsAnswered /\ (Handles \/ Rejects \/ Denies)
  <2>1. GivenOK' /\ TimeOK' /\ DepthOK' /\ ctx' \in Contexts /\ issued' \in Nat
    BY <1>2 DEF IsAnswered, inputs, GivenOK, TimeOK, DepthOK
  <2>2. AnswerOK'
    BY <1>2 DEF Handles, Rejects, Denies, AnswerOK
  <2>3. LogOK'
    <3>1. CASE Denies
      <4>1. at \in 1..Len(stack) /\ ctx.id \in Nat
        BY <1>0, <3>1, IDOfContext DEF Denies, DepthOK
      <4>2. \A e \in LoginFailed \cup AccessDenial : e.layer = at /\ e.id = ctx.id
        BY RefusalEntries
      <4>3. log' \subseteq log \cup LoginFailed \cup AccessDenial
        BY <3>1 DEF Denies
      <4> QED
        BY <1>2, <4>1, <4>2, <4>3 DEF IsAnswered, inputs, LogOK
    <3> QED
      BY <1>2, <3>1 DEF IsAnswered, inputs, Handles, Rejects, LogOK
  <2>4. CountedOK'
    BY <1>2, CountsOK DEF IsAnswered, inputs, Handles, Rejects, Denies, CountedOK
  <2> QED
    BY <2>1, <2>2, <2>3, <2>4
<1>3. CASE ComesBack /\ (LeaveLog \/ LeaveRecovery \/ LeaveTimeout \/ LeaveOther)
  <2>1. GivenOK' /\ TimeOK' /\ ctx' \in Contexts /\ issued' \in Nat
    BY <1>3 DEF ComesBack, inputs, GivenOK, TimeOK
  <2>2. DepthOK'
    BY <1>0, <1>3 DEF ComesBack, inputs, DepthOK
  <2>3. AnswerOK'
    BY <1>3 DEF LeaveLog, LeaveRecovery, LeaveTimeout, LeaveOther, AnswerOK
  <2>4. LogOK'
    <3>1. \A event : EntryOf(event).layer \in 1..Len(stack) /\ EntryOf(event).id \in Nat
      <4>1. at - 1 \in 1..Len(held)
        BY <1>3 DEF ComesBack, DepthOK
      <4>2. held[at - 1] \in Contexts
        BY <4>1 DEF DepthOK
      <4>3. held[at - 1].id \in Nat
        BY <4>2, IDOfContext
      <4>4. at - 1 \in 1..Len(stack)
        BY <1>0, <4>1 DEF DepthOK
      <4> QED
        BY <4>3, <4>4, FieldsOfEntry DEF EntryOf
    <3> QED
      BY <1>3, <3>1 DEF ComesBack, inputs, LeaveLog, LeaveRecovery, LeaveTimeout, LeaveOther, LogOK
  <2>5. CountedOK'
    BY <1>3 DEF ComesBack, inputs, CountedOK
  <2> QED
    BY <2>1, <2>2, <2>3, <2>4, <2>5
<1>4. CASE Waits
  <2>1. GivenOK' /\ DepthOK' /\ AnswerOK' /\ LogOK' /\ CountedOK'
    BY <1>4 DEF Waits, TimePasses, Crash, inputs, GivenOK, DepthOK, AnswerOK, LogOK, CountedOK
  <2>2. TimeOK'
    BY <1>4 DEF Waits, TimePasses, Crash, inputs, TimeOK
  <2> QED
    BY <1>4, <2>1, <2>2 DEF Waits, TimePasses, Crash, inputs
<1>5. CASE UNCHANGED vars
  <2>1. GivenOK' /\ DepthOK' /\ TimeOK' /\ AnswerOK' /\ LogOK' /\ CountedOK'
    BY <1>5 DEF vars, accessVars, GivenOK, DepthOK, TimeOK, AnswerOK, LogOK, CountedOK
  <2> QED
    BY <1>5, <2>1 DEF vars, accessVars
<1> QED
  BY <1>0, <1>1, <1>2, <1>3, <1>4, <1>5, StepKinds

LEMMA AlwaysTyped == Spec => []Typed
BY InitTyped, TypedNext, PTL DEF Spec

\* The variables keep their types: the request is as deep in its route as
\* contexts have been kept, and only rate limits count it.
THEOREM TypeCorrect == Spec => []TypeOK
BY AlwaysTyped, TypedImpliesTypeOK, PTL

-----------------------------------------------------------------------------
\* Identity: a context shows nobody, or in all its parts the token's bearer.

Nobody ==
    ctx.claims = NoClaims /\ ctx.user = Empty /\ ctx.type = Empty /\ ctx.roles = {}

Bearer ==
    /\ ctx.claims = token.claims /\ ctx.user = token.claims.user
    /\ ctx.type = token.claims.type /\ ctx.roles = token.claims.roles

\* What a layer has found out before it put the identity into the context.
Proven ==
    /\ header = "bearer" /\ token.authentic /\ "good" \in seen
    /\ \E i \in 1..Len(stack) : Accepts(stack[i])

Identity == Nobody \/ (Bearer /\ Proven)

LEMMA ClaimsAreClaims == ASSUME Typed PROVE token.claims # NoClaims
BY AccessAssumption DEF Typed, GivenOK

LEMMA ValidMeansGood ==
    ASSUME Typed, NEW v, Outcome(v) = "valid"
    PROVE  /\ token.authentic /\ clock = "good" /\ "good" \in seen
           /\ v.issuer # {} => token.issuer \in v.issuer
           /\ v.audience # {} => token.audience \cap v.audience # {}
BY DEF Outcome, Typed, TimeOK

\* Who the context shows changes only from nobody to the bearer.
LEMMA StepOfIdentity ==
    ASSUME Typed, Identity, [Next]_vars
    PROVE  \/ WithoutID(ctx') = WithoutID(ctx)
           \/ Nobody /\ Bearer' /\ Proven' /\ GoesOn /\ Names
<1>0. AtIsNatural
  BY StackIsSeq DEF Typed, GivenOK, DepthOK, AtIsNatural
<1>1. CASE GoesOn /\ Numbers
  BY <1>1 DEF Numbers, Typed, Contexts, WithoutID
<1>2. CASE GoesOn /\ Names
  <2>1. CASE Nobody
    <3>1. Bearer'
      BY <1>2, <2>1 DEF GoesOn, inputs, Names, Nobody, Bearer, Inject
    <3>2. Accepts(layer)
      BY <1>2, ValidMeansGood DEF Names, Accepts, AuthKinds
    <3>3. at \in 1..Len(stack) /\ Accepts(stack[at])
      BY <1>0, <1>2, <3>2, StackIsSeq DEF GoesOn, Typed, GivenOK, AtIsNatural, layer
    <3>4. Proven
      BY <1>2, <3>3, ValidMeansGood DEF Names, Proven
    <3>5. Proven'
      BY <1>2, <3>4 DEF GoesOn, inputs, Proven, Accepts
    <3> QED
      BY <1>2, <2>1, <3>1, <3>5
  <2>2. CASE Bearer
    BY <1>2, <2>2 DEF Names, Bearer, Inject, WithoutID
  <2> QED
    BY <2>1, <2>2 DEF Identity
<1>3. CASE ctx' = ctx
  BY <1>3
<1> QED
  BY <1>0, <1>1, <1>2, <1>3, StepKinds
     DEF Keeps, IsAnswered, ComesBack, Waits, TimePasses, Crash, inputs, vars, accessVars

LEMMA IdentityNext == Typed /\ Identity /\ [Next]_vars => Identity'
<1> SUFFICES ASSUME Typed, Identity, [Next]_vars PROVE Identity'
  OBVIOUS
<1>1. UNCHANGED inputs /\ seen \subseteq seen'
  <2>1. AtIsNatural
    BY StackIsSeq DEF Typed, GivenOK, DepthOK, AtIsNatural
  <2> QED
    BY <2>1, StepKinds
       DEF GoesOn, IsAnswered, ComesBack, Waits, TimePasses, Crash, vars, accessVars, inputs
<1>2. CASE WithoutID(ctx') = WithoutID(ctx)
  <2>1. Nobody => Nobody'
    BY <1>2 DEF WithoutID, Nobody
  <2>2. Bearer => Bearer'
    BY <1>1, <1>2 DEF WithoutID, Bearer, inputs
  <2>3. Proven => Proven'
    BY <1>1 DEF Proven, Accepts, inputs
  <2> QED
    BY <2>1, <2>2, <2>3 DEF Identity
<1> QED
  BY <1>2, StepOfIdentity DEF Identity

LEMMA AlwaysIdentity == Spec => [](Typed /\ Identity)
<1>1. Init => Identity
  BY DEF Init, AccessInit, EmptyContext, Identity, Nobody
<1> QED
  BY <1>1, InitTyped, TypedNext, IdentityNext, PTL DEF Spec

\* Once the context shows somebody, it shows the same to the end.
THEOREM IdentityStays == Spec => IdentityIsStable
<1>1. ASSUME Typed, Identity, [Next]_vars
      PROVE  [ctx.claims # NoClaims => WithoutID(ctx') = WithoutID(ctx)]_accessVars
  BY <1>1, StepOfIdentity DEF Nobody
<1> QED
  BY <1>1, AlwaysIdentity, PTL DEF Spec, IdentityIsStable

-----------------------------------------------------------------------------
\* Guards: what the layers the request has passed have established.

Behind(l) ==
    /\ IsGuard(l) => ctx.claims # NoClaims /\ Meets(l, ctx)
    /\ l.kind = "auth" /\ ~l.excluded => ctx.claims # NoClaims

GuardsMet(n) == \A i \in 1..n : Behind(stack[i])

Guarded ==
    /\ answer = "none" => GuardsMet(at - 1)
    /\ answer = "served" => GuardsMet(Len(stack))

LEMMA AllowedMeets ==
    ASSUME NEW l, IsGuard(l), Bearer
    PROVE  Meets(l, ctx) <=> Allows(l, ctx.claims)
BY DEF IsGuard, RbacKinds, Bearer, Allows, Meets, HasAnyRole, HasAllPermissions

LEMMA GivenStays == ASSUME Typed, [Next]_vars PROVE UNCHANGED inputs
<1>1. AtIsNatural
  BY StackIsSeq DEF Typed, GivenOK, DepthOK, AtIsNatural
<1> QED
  BY <1>1, StepKinds
     DEF GoesOn, IsAnswered, ComesBack, Waits, TimePasses, Crash, vars, accessVars, inputs

LEMMA StaysBehind ==
    ASSUME Typed, Identity, [Next]_vars, NEW l, Behind(l)
    PROVE  Behind(l)'
<1>1. param' = param
  BY GivenStays DEF inputs
<1>2. CASE ctx.claims = NoClaims
  BY <1>2 DEF Behind
<1>3. CASE WithoutID(ctx') = WithoutID(ctx)
  BY <1>1, <1>3 DEF Behind, WithoutID, Meets
<1> QED
  BY <1>2, <1>3, StepOfIdentity DEF Nobody

\* A layer that lets the request go on is behind it.
LEMMA ComesBehind ==
    ASSUME Typed, Identity, GoesOn, Numbers \/ Names \/ Keeps, NEW l, l = layer
    PROVE  Behind(l)'
<1>1. param' = param
  BY DEF GoesOn, inputs
<1>2. CASE Numbers
  BY <1>2 DEF Numbers, Behind, IsGuard, RbacKinds
<1>3. CASE Names
  BY <1>3, ClaimsAreClaims DEF Names, Inject, Behind, IsGuard, RbacKinds, AuthKinds
<1>4. CASE Keeps /\ IsGuard(layer)
  <2>1. Meets(l, ctx) /\ ctx.claims # NoClaims /\ ctx' = ctx /\ l.kind # "auth"
    BY <1>4, AllowedMeets DEF Keeps, Identity, Nobody, IsGuard, RbacKinds
  <2> QED
    BY <1>1, <2>1 DEF Behind, Meets
<1>5. CASE Keeps /\ ~IsGuard(layer)
  BY <1>5 DEF Keeps, Behind, IsGuard
<1> QED
  BY <1>2, <1>3, <1>4, <1>5

LEMMA GuardedNext == Typed /\ Identity /\ Guarded /\ [Next]_vars => Guarded'
<1> SUFFICES ASSUME Typed, Identity, Guarded, [Next]_vars PROVE Guarded'
  OBVIOUS
<1>0. AtIsNatural /\ Len(stack) \in Nat
  BY StackIsSeq DEF Typed, GivenOK, DepthOK, AtIsNatural
<1>1. ASSUME NEW n \in Nat, GuardsMet(n)
      PROVE  \A i \in 1..n : Behind(stack[i])'
  <2> SUFFICES ASSUME NEW i \in 1..n PROVE Behind(stack[i])'
    OBVIOUS
  <2>1. PICK l : l = stack[i]
    OBVIOUS
  <2>2. Behind(l)'
    BY <1>1, <2>1, StaysBehind DEF GuardsMet
  <2>3. stack'[i] = l
    BY <2>1, GivenStays DEF inputs
  <2> QED
    BY <2>2, <2>3 DEF Behind
<1>2. CASE GoesOn /\ (Numbers \/ Names \/ Keeps)
  <2>1. GuardsMet(at - 1) /\ at - 1 \in Nat /\ at' - 1 = at /\ stack' = stack /\ answer' = "none"
    BY <1>0, <1>2 DEF Guarded, GoesOn, inputs, AtIsNatural
  <2>2. PICK l : l = layer
    OBVIOUS
  <2>3. PICK k \in Nat : k = at
    BY <1>0 DEF AtIsNatural
  <2>4. Behind(l)' /\ stack'[k] = l
    BY <1>2, <2>1, <2>2, <2>3, ComesBehind DEF layer
  <2>5. Behind(stack[k])'
    BY <2>4 DEF Behind
  <2>6. \A i \in 1..(k - 1) : Behind(stack[i])'
    BY <1>0, <1>1, <2>1, <2>3
  <2>7. \A i \in 1..k : i \in 1..(k - 1) \/ i = k
    BY <2>3
  <2>8. GuardsMet(k)'
    BY <2>5, <2>6, <2>7 DEF GuardsMet
  <2> QED
    BY <2>1, <2>3, <2>8 DEF Guarded, GuardsMet
<1>3. CASE IsAnswered /\ (Handles \/ Rejects \/ Denies)
  <2>1. CASE answer' # "served"
    BY <1>3, <2>1 DEF IsAnswered, Guarded
  <2>2. CASE answer' = "served"
    <3>1. at - 1 = Len(stack) /\ stack' = stack
      BY <1>0, <1>3, <2>2 DEF IsAnswered, inputs, Handles, Rejects, Denies, Refusals, AtIsNatural
    <3>2. GuardsMet(Len(stack))
      BY <1>3, <3>1 DEF IsAnswered, Guarded
    <3> QED
      BY <1>0, <1>1, <1>3, <2>2, <3>1, <3>2 DEF IsAnswered, Guarded, GuardsMet
  <2> QED
    BY <2>1, <2>2
<1>4. CASE ComesBack /\ (LeaveLog \/ LeaveRecovery \/ LeaveTimeout \/ LeaveOther)
  <2>1. answer' = "served" => answer = "served"
    BY <1>4 DEF LeaveLog, LeaveRecovery, LeaveTimeout, LeaveOther
  <2> QED
    BY <1>0, <1>1, <1>4, <2>1, GivenStays DEF ComesBack, inputs, Guarded, GuardsMet
<1>5. CASE Waits \/ UNCHANGED vars
  BY <1>0, <1>1, <1>5
     DEF Waits, TimePasses, Crash, inputs, vars, accessVars, Guarded, GuardsMet, AtIsNatural
<1> QED
  BY <1>0, <1>2, <1>3, <1>4, <1>5, StepKinds

LEMMA AlwaysGuarded == Spec => [](Typed /\ Identity /\ Guarded)
<1>1. Init => Guarded
  BY DEF Init, AccessInit, Guarded, GuardsMet
<1> QED
  BY <1>1, AlwaysIdentity, GuardedNext, PTL DEF Spec

\* A handler is reached only with an identity that meets every rbac layer.
THEOREM GuardsAreMet == Spec => []ServedIdentityMeetsGuards
<1>1. Guarded => ServedIdentityMeetsGuards
  BY DEF Guarded, GuardsMet, Behind, ServedIdentityMeetsGuards
<1> QED
  BY <1>1, AlwaysGuarded, PTL

\* A handler that is behind auth or rbac is reached only with a token that is
\* authentic, was valid at a moment of the request, and that a layer accepts.
THEOREM IdentitiesAreProven == Spec => []ServedWasAuthenticated
<1>1. Typed /\ Identity /\ Guarded => ServedWasAuthenticated
  <2> SUFFICES ASSUME Typed, Identity, Guarded, answer = "served", NEW i \in 1..Len(stack),
                      IsGuard(stack[i]) \/ (stack[i].kind = "auth" /\ ~stack[i].excluded)
               PROVE  Proven
    BY DEF ServedWasAuthenticated, Proven
  <2>1. ctx.claims # NoClaims
    BY DEF Guarded, GuardsMet, Behind
  <2> QED
    BY <2>1 DEF Identity, Nobody
<1> QED
  BY <1>1, AlwaysGuarded, PTL

-----------------------------------------------------------------------------
\* On the way back the answer changes only if a panic ends.
LEMMA AnswerOnTheWayBack ==
    ASSUME LeaveLog \/ LeaveRecovery \/ LeaveTimeout \/ LeaveOther
    PROVE  answer' = answer \/ answer' \in {"recovered", "dying"}
BY DEF LeaveLog, LeaveRecovery, LeaveTimeout, LeaveOther

-----------------------------------------------------------------------------
\* Good requests.

\* An auth layer lets a good request go on only with its bearer.
BearerIsKnown ==
    /\ answer \notin Refusals
    /\ answer = "none" =>
          \A i \in 1..(at - 1) : stack[i].kind \in AuthKinds => ctx.claims # NoClaims

GoodPasses == GoodRequest => BearerIsKnown

LEMMA GoodIsValid ==
    ASSUME Typed, GoodRequest, NEW v,
           v.issuer # {} => token.issuer \in v.issuer,
           v.audience # {} => token.audience \cap v.audience # {}
    PROVE  Outcome(v) = "valid"
<1>1. clock = "good"
  BY DEF Typed, TimeOK, GoodRequest
<1> QED
  BY <1>1 DEF Outcome, GoodRequest

LEMMA GoodWasGood == ASSUME Typed, [Next]_vars, GoodRequest' PROVE GoodRequest
<1>1. UNCHANGED inputs
  BY GivenStays
<1>2. seen \subseteq seen'
  <2>1. AtIsNatural
    BY StackIsSeq DEF Typed, GivenOK, DepthOK, AtIsNatural
  <2> QED
    BY <2>1, StepKinds
       DEF GoesOn, IsAnswered, ComesBack, Waits, TimePasses, Crash, inputs, vars, accessVars
<1>3. seen = {"good"}
  BY <1>2 DEF Typed, TimeOK, GoodRequest
<1> QED
  BY <1>1, <1>3 DEF GoodRequest, inputs, Accepts, Meets

\* What auth and rbac refuse for does not apply to a good request.
LEMMA GoodIsWelcome ==
    ASSUME Typed, Identity, GoodRequest, BearerIsKnown, answer = "none", at <= Len(stack)
    PROVE  ~Unwelcome
<1>0. at \in 1..Len(stack) /\ layer = stack[at]
  BY StackIsSeq DEF Typed, GivenOK, DepthOK, layer
<1>1. CASE layer.kind \in AuthKinds
  <2>1. Accepts(layer)
    BY <1>0, <1>1 DEF GoodRequest
  <2>2. Outcome(layer.validator) = "valid"
    BY <2>1, GoodIsValid DEF Accepts
  <2> QED
    BY <1>1, <2>1, <2>2 DEF Unwelcome, GoodRequest, IsGuard, RbacKinds, AuthKinds
<1>2. CASE IsGuard(layer)
  <2>1. PICK j \in 1..(at - 1) : stack[j].kind \in AuthKinds
    BY <1>0, <1>2 DEF GoodRequest
  <2>2. ctx.claims # NoClaims
    BY <2>1 DEF BearerIsKnown
  <2>3. ctx.claims = token.claims
    BY <2>2 DEF Identity, Nobody, Bearer
  <2>4. Meets(layer, Inject(EmptyContext, token.claims))
    BY <1>0, <1>2 DEF GoodRequest
  <2>5. Allows(layer, token.claims)
    BY <2>4 DEF Meets, Allows, Inject, EmptyContext, HasAnyRole, HasAllPermissions
  <2> QED
    BY <1>2, <2>2, <2>3, <2>5 DEF Unwelcome, IsGuard, RbacKinds
<1>3. CASE layer.kind \notin AuthKinds /\ ~IsGuard(layer)
  BY <1>3 DEF Unwelcome, AuthKinds
<1> QED
  BY <1>1, <1>2, <1>3

LEMMA GoodPassesNext == Typed /\ Identity /\ GoodPasses /\ [Next]_vars => GoodPasses'
<1> SUFFICES ASSUME Typed, Identity, GoodPasses, [Next]_vars, GoodRequest' PROVE BearerIsKnown'
  BY DEF GoodPasses
<1>0. AtIsNatural /\ Len(stack) \in Nat /\ GoodRequest /\ BearerIsKnown /\ stack' = stack
  BY StackIsSeq, GoodWasGood, GivenStays DEF Typed, GivenOK, DepthOK, AtIsNatural, GoodPasses, inputs
<1>1. CASE GoesOn /\ (Numbers \/ Names \/ Keeps)
  <2>1. ctx.claims # NoClaims => ctx'.claims # NoClaims
    BY StepOfIdentity DEF WithoutID, Nobody
  <2>2. layer.kind \in AuthKinds => ctx'.claims # NoClaims
    <3>1. CASE Names
      BY <3>1, ClaimsAreClaims DEF Names, Inject
    <3>2. CASE layer.kind \in AuthKinds
      <4>1. at \in 1..Len(stack) /\ layer = stack[at]
        BY <1>0, <1>1 DEF GoesOn, AtIsNatural, layer
      <4>2. Accepts(layer)
        BY <1>0, <3>2, <4>1 DEF GoodRequest
      <4>3. Outcome(layer.validator) = "valid"
        BY <1>0, <4>2, GoodIsValid DEF Accepts
      <4> QED
        BY <1>0, <1>1, <3>1, <3>2, <4>2, <4>3 DEF Keeps, Numbers, Accepts, AuthKinds, GoodRequest
    <3> QED
      BY <3>2
  <2>3. \A i \in 1..at : i \in 1..(at - 1) \/ i = at
    BY <1>0 DEF AtIsNatural
  <2>4. \A i \in 1..at : stack[i].kind \in AuthKinds => ctx'.claims # NoClaims
    BY <1>0, <1>1, <2>1, <2>2, <2>3 DEF BearerIsKnown, GoesOn, layer
  <2>5. at' - 1 = at
    BY <1>0, <1>1 DEF GoesOn, AtIsNatural
  <2> QED
    BY <1>0, <1>1, <2>4, <2>5 DEF BearerIsKnown, GoesOn
<1>2. CASE IsAnswered /\ (Handles \/ Rejects)
  BY <1>2 DEF IsAnswered, Handles, Rejects, BearerIsKnown, Refusals
<1>3. CASE IsAnswered /\ Denies
  BY <1>0, <1>3, GoodIsWelcome DEF IsAnswered, Denies
<1>4. CASE ComesBack /\ (LeaveLog \/ LeaveRecovery \/ LeaveTimeout \/ LeaveOther)
  <2>1. answer' \notin Refusals /\ answer' # "none"
    BY <1>0, <1>4, AnswerOnTheWayBack DEF ComesBack, BearerIsKnown, Refusals
  <2> QED
    BY <2>1 DEF BearerIsKnown
<1>5. CASE Waits \/ UNCHANGED vars
  BY <1>0, <1>5 DEF Waits, TimePasses, Crash, inputs, vars, accessVars, BearerIsKnown, Refusals
<1> QED
  BY <1>0, <1>1, <1>2, <1>3, <1>4, <1>5, StepKinds

\* On no route is a good request refused by auth or rbac.
THEOREM GoodRequestsPass == Spec => []GoodRequestsAreServed
<1>1. Init => GoodPasses
  BY DEF Init, AccessInit, GoodPasses, BearerIsKnown, Refusals
<1>2. GoodPasses => GoodRequestsAreServed
  BY DEF GoodPasses, BearerIsKnown, GoodRequestsAreServed
<1> QED
  BY <1>1, <1>2, AlwaysIdentity, GoodPassesNext, PTL DEF Spec

-----------------------------------------------------------------------------
\* The log.

\* Nothing is logged as long as the request is on its way inwards.
Quiet == answer = "none" => log = {}

LEMMA QuietNext == Quiet /\ Typed /\ [Next]_vars => Quiet'
<1> SUFFICES ASSUME Quiet, Typed, [Next]_vars PROVE Quiet'
  OBVIOUS
<1>1. AtIsNatural
  BY StackIsSeq DEF Typed, GivenOK, DepthOK, AtIsNatural
<1> QED
  BY <1>1, StepKinds
     DEF GoesOn, IsAnswered, ComesBack, Waits, TimePasses, Crash, inputs, vars, accessVars, Quiet

\* What recovery and log add to the log when they are left.
LEMMA EntriesOnTheWayBack ==
    ASSUME LeaveLog \/ LeaveRecovery \/ LeaveTimeout \/ LeaveOther
    PROVE  \/ log' = log
           \/ \E event \in {"httpRequest", "panicRecovered"} : log' = log \cup {EntryOf(event)}
BY DEF LeaveLog, LeaveRecovery, LeaveTimeout, LeaveOther

LEMMA FieldsOfEntryOf ==
    \A event : /\ EntryOf(event).layer = at - 1 /\ EntryOf(event).event = event
               /\ EntryOf(event).id = held[at - 1].id /\ EntryOf(event).user = held[at - 1].user
BY FieldsOfEntry DEF EntryOf

Denials == {e \in log : e.event = "accessDenied"}

\* The denial is right about who was judged, and for what.
Deserved(e) ==
    /\ e.user = ctx.claims.user /\ e.id = ctx.id
    /\ IsGuard(stack[e.layer]) /\ ~Meets(stack[e.layer], ctx)

\* An rbac layer that judges claims logs its own refusal.
LEMMA DenialIsDeserved ==
    ASSUME Typed, Identity, Quiet, IsAnswered, Denies
    PROVE  /\ answer' = "FORBIDDEN" <=> Denials' # {}
           /\ \A e \in Denials' : Deserved(e)'
<1>1. log = {}
  BY DEF IsAnswered, Quiet
<1>2. UNCHANGED <<ctx, stack, param>>
  BY DEF IsAnswered, inputs
<1>3. CASE answer' # "FORBIDDEN"
  <2>1. log' \subseteq LoginFailed
    BY <1>1, <1>3 DEF Denies
  <2>2. Denials' = {}
    BY <2>1, RefusalEntries DEF Denials
  <2> QED
    BY <1>3, <2>2
<1>4. CASE answer' = "FORBIDDEN"
  <2>1. /\ log' = AccessDenial
        /\ IsGuard(layer) /\ ctx.claims # NoClaims /\ ~Allows(layer, ctx.claims)
    BY <1>1, <1>4 DEF Denies
  <2>2. Bearer
    BY <2>1 DEF Identity, Nobody
  <2>3. ~Meets(layer, ctx)
    BY <2>1, <2>2, AllowedMeets
  <2>4. PICK f : f = Entry(at, "accessDenied", ctx.id, ctx.user)
    OBVIOUS
  <2>5. f.layer = at /\ f.event = "accessDenied" /\ f.id = ctx.id /\ f.user = ctx.user
    BY <2>4, FieldsOfEntry
  <2>6. Denials' = {f}
    BY <2>1, <2>4, <2>5 DEF AccessDenial, Denials
  <2>7. ctx.user = ctx.claims.user
    BY <2>2 DEF Bearer
  <2>8. IsGuard(stack[f.layer]) /\ ~Meets(stack[f.layer], ctx)
    BY <2>1, <2>3, <2>5 DEF layer
  <2>9. Deserved(f)'
    BY <1>2, <2>5, <2>7, <2>8 DEF Deserved, Meets
  <2> QED
    BY <1>4, <2>6, <2>9
<1> QED
  BY <1>3, <1>4

LEMMA DenialNext ==
    Typed /\ Identity /\ Quiet /\ DenialNamesTheActor /\ [Next]_vars => DenialNamesTheActor'
<1> SUFFICES ASSUME Typed, Identity, Quiet, DenialNamesTheActor, [Next]_vars
             PROVE  DenialNamesTheActor'
  OBVIOUS
<1>0. AtIsNatural /\ UNCHANGED inputs
  BY StackIsSeq, GivenStays DEF Typed, GivenOK, DepthOK, AtIsNatural
<1>1. /\ answer = "FORBIDDEN" <=> Denials # {}
      /\ \A e \in Denials : Deserved(e)
  BY DEF DenialNamesTheActor, Denials, Deserved
<1>2. SUFFICES /\ answer' = "FORBIDDEN" <=> Denials' # {}
               /\ \A e \in Denials' : Deserved(e)'
  BY DEF DenialNamesTheActor, Denials, Deserved
<1>3. CASE GoesOn \/ (IsAnswered /\ (Handles \/ Rejects))
  <2>1. log' = {} /\ answer' # "FORBIDDEN"
    BY <1>3 DEF GoesOn, IsAnswered, Handles, Rejects, Quiet
  <2> QED
    BY <2>1 DEF Denials
<1>4. CASE IsAnswered /\ Denies
  BY <1>4, DenialIsDeserved
<1>5. CASE UNCHANGED ctx /\ Denials' = Denials /\ (answer' = "FORBIDDEN" <=> answer = "FORBIDDEN")
  <2>1. \A e : Deserved(e)' <=> Deserved(e)
    BY <1>0, <1>5 DEF Deserved, Meets, inputs
  <2> QED
    BY <1>1, <1>5, <2>1
<1>6. CASE ComesBack /\ (LeaveLog \/ LeaveRecovery \/ LeaveTimeout \/ LeaveOther)
  <2>1. \A event \in {"httpRequest", "panicRecovered"} : EntryOf(event).event # "accessDenied"
    BY FieldsOfEntryOf
  <2>2. Denials' = Denials
    BY <1>6, <2>1, EntriesOnTheWayBack DEF Denials
  <2>3. answer' = "FORBIDDEN" <=> answer = "FORBIDDEN"
    BY <1>6 DEF LeaveLog, LeaveRecovery, LeaveTimeout, LeaveOther
  <2> QED
    BY <1>5, <1>6, <2>2, <2>3 DEF ComesBack
<1>7. CASE Waits \/ UNCHANGED vars
  <2>1. UNCHANGED <<ctx, log>> /\ (answer' = "FORBIDDEN" <=> answer = "FORBIDDEN")
    BY <1>7 DEF Waits, TimePasses, Crash, vars, accessVars
  <2> QED
    BY <1>5, <2>1 DEF Denials
<1> QED
  BY <1>0, <1>3, <1>4, <1>6, <1>7, StepKinds

\* A request is logged as denied just if its claims were judged and did not do,
\* with the user whose claims they are and the layer whose demand they miss.
THEOREM DenialsNameTheActor == Spec => []DenialNamesTheActor
<1>1. Init => Quiet /\ DenialNamesTheActor
  BY DEF Init, AccessInit, Quiet, DenialNamesTheActor
<1> QED
  BY <1>1, AlwaysIdentity, QuietNext, DenialNext, PTL DEF Spec

-----------------------------------------------------------------------------
\* Request IDs.

\* What a context of depth k, the one given to layer k, may show.
Traced(k, id) ==
    IF Inside(k, "requestid") THEN id # NoID /\ (OneID => id = issued) ELSE id = NoID

Traceable ==
    /\ answer = "none" => Traced(at, ctx.id)
    /\ \A i \in 1..Len(held) : Traced(i, held[i].id)
    /\ \A e \in log : Traced(e.layer, e.id)
    /\ incoming # NoID => issued \in {NoID, incoming}

\* If all request IDs agree, a second layer puts in the same one again.
LEMMA SecondIDIsTheSame ==
    ASSUME Typed, OneID, at <= Len(stack), layer.kind = "requestid", Inside(at, "requestid")
    PROVE  incoming # NoID
<1>1. PICK j \in 1..(at - 1) : stack[j].kind = "requestid"
  BY DEF Inside
<1> DEFINE ids == {k \in 1..Len(stack) : stack[k].kind = "requestid"}
<1>2. at \in Nat /\ at <= Len(stack) /\ Len(stack) \in Nat
  BY StackIsSeq DEF Typed, GivenOK, DepthOK
<1>3. j \in ids /\ at \in ids /\ j # at
  BY <1>1, <1>2 DEF layer
<1>4. IsFiniteSet(ids)
  <2>1. IsFiniteSet(1..Len(stack))
    BY <1>2, FS_Interval
  <2>2. ids \in SUBSET (1..Len(stack))
    OBVIOUS
  <2> QED
    BY <2>1, <2>2, FS_Subset
<1>5. Cardinality(ids) # 1
  <2>1. Cardinality(ids) = 1 <=> \E x : ids = {x}
    BY <1>4, FS_Singleton
  <2> HIDE DEF ids
  <2> QED
    BY <1>3, <2>1
<1> QED
  BY <1>5 DEF OneID

\* Where a request ID is known, no later one replaces it, if all agree.
LEMMA IssuedStays ==
    ASSUME Typed, Traceable, [Next]_vars, OneID, NEW k \in 1..at, Inside(k, "requestid")
    PROVE  issued' = issued
<1>0. AtIsNatural
  BY StackIsSeq DEF Typed, GivenOK, DepthOK, AtIsNatural
<1>1. CASE GoesOn /\ Numbers
  <2>1. Inside(at, "requestid")
    BY <1>0 DEF Inside, AtIsNatural
  <2>2. incoming # NoID
    BY <1>1, <2>1, SecondIDIsTheSame DEF GoesOn, Numbers
  <2>3. issued # NoID
    BY <1>1, <2>1 DEF GoesOn, Traceable, Traced
  <2> QED
    BY <1>1, <2>2, <2>3 DEF Numbers, Traceable
<1> QED
  BY <1>0, <1>1, StepKinds
     DEF Names, Keeps, IsAnswered, ComesBack, Waits, vars, accessVars

LEMMA StaysTraced ==
    ASSUME Typed, Traceable, [Next]_vars, NEW k \in 1..at, NEW id, Traced(k, id)
    PROVE  Traced(k, id)'
<1>1. (Inside(k, "requestid")' <=> Inside(k, "requestid")) /\ (OneID' <=> OneID)
  BY GivenStays DEF inputs, Inside, OneID
<1>2. OneID /\ Inside(k, "requestid") => issued' = issued
  BY IssuedStays
<1> QED
  BY <1>1, <1>2 DEF Traced

\* The context for the next layer.
LEMMA NextContextTraced ==
    ASSUME Typed, Traceable, [Next]_vars, GoesOn, Numbers \/ Names \/ Keeps,
           NEW k, k = at + 1, NEW id, id = ctx'.id
    PROVE  Traced(k, id)'
<1>0. AtIsNatural /\ at \in 1..Len(stack) /\ Len(stack) \in Nat /\ stack' = stack
  BY StackIsSeq, GivenStays DEF Typed, GivenOK, DepthOK, AtIsNatural, GoesOn, inputs
<1>1. CASE Numbers
  <2>1. id = issued'
    BY <1>1 DEF Numbers, Typed, Contexts
  <2>2. issued' # NoID
    BY <1>0, <1>1 DEF Numbers, NoID, GeneratedID, ClientID
  <2>3. at \in 1..(k - 1) /\ stack'[at].kind = "requestid"
    BY <1>0, <1>1 DEF Numbers, layer
  <2>4. Inside(k, "requestid")'
    BY <2>3 DEF Inside
  <2> QED
    BY <2>1, <2>2, <2>4 DEF Traced
<1>2. CASE Names \/ Keeps
  <2>1. id = ctx.id /\ issued' = issued
    BY <1>2 DEF Names, Keeps, Inject
  <2>2. layer.kind # "requestid"
    BY <1>2 DEF Names, Keeps, AuthKinds
  <2>3. \A i : i \in 1..(k - 1) <=> i \in 1..(at - 1) \/ i = at
    BY <1>0
  <2>4. Inside(k, "requestid")' <=> Inside(at, "requestid")
    BY <1>0, <2>2, <2>3 DEF Inside, layer
  <2>5. OneID' <=> OneID
    BY GivenStays DEF inputs, OneID
  <2>6. Traced(at, ctx.id)
    BY DEF Traceable, GoesOn
  <2> QED
    BY <2>1, <2>4, <2>5, <2>6 DEF Traced
<1> QED
  BY <1>1, <1>2

LEMMA TraceableNext == Typed /\ Quiet /\ Traceable /\ [Next]_vars => Traceable'
<1> SUFFICES ASSUME Typed, Quiet, Traceable, [Next]_vars PROVE Traceable'
  OBVIOUS
<1>0. /\ AtIsNatural /\ UNCHANGED inputs /\ at <= Len(held) + 1
      /\ held \in Seq(Contexts) /\ Len(held) \in Nat
  BY StackIsSeq, GivenStays DEF Typed, GivenOK, DepthOK, AtIsNatural
<1>1. CASE GoesOn /\ (Numbers \/ Names \/ Keeps)
  <2>1. PICK k \in Nat : k = at /\ k = Len(held) + 1
    BY <1>0, <1>1 DEF GoesOn, Typed, DepthOK
  <2>2. PICK next : next = ctx'.id
    OBVIOUS
  <2>3. Traced(k + 1, next)'
    BY <1>1, <2>1, <2>2, NextContextTraced
  <2>4. held' = Append(held, ctx) /\ Len(held') = k
    BY <1>0, <1>1, <2>1 DEF GoesOn
  <2>5. ASSUME NEW i \in 1..k PROVE Traced(i, held[i].id)'
    <3>1. PICK id : id = held'[i].id
      OBVIOUS
    <3>2. Traced(i, id)
      <4>1. CASE i = k
        BY <1>0, <1>1, <2>1, <2>4, <3>1, <4>1 DEF GoesOn, Traceable
      <4>2. CASE i # k
        BY <1>0, <2>1, <2>4, <3>1, <4>2 DEF Traceable
      <4> QED
        BY <4>1, <4>2
    <3>3. Traced(i, id)'
      BY <2>1, <3>2, StaysTraced
    <3> QED
      BY <3>1, <3>3
  <2>6. log' = {}
    BY <1>1 DEF GoesOn, Quiet
  <2>7. incoming' # NoID => issued' \in {NoID, incoming'}
    BY <1>0, <1>1 DEF Numbers, Names, Keeps, Traceable, inputs
  <2>8. at' = k + 1
    BY <1>1, <2>1 DEF GoesOn
  <2> QED
    BY <2>2, <2>3, <2>4, <2>5, <2>6, <2>7, <2>8 DEF Traceable
<1>2. CASE \/ IsAnswered /\ (Handles \/ Rejects \/ Denies)
           \/ ComesBack /\ (LeaveLog \/ LeaveRecovery \/ LeaveTimeout \/ LeaveOther)
  <2>1. /\ answer' # "none" /\ UNCHANGED <<held, issued>>
        /\ answer = "none" \/ at > 1
    BY <1>2 DEF IsAnswered, ComesBack
  <2>2. ASSUME NEW k, NEW id PROVE Traced(k, id)' <=> Traced(k, id)
    BY <1>0, <2>1 DEF Traced, Inside, OneID, inputs
  <2>3. \A e \in log' : Traced(e.layer, e.id)
    <3>1. CASE IsAnswered /\ (Handles \/ Rejects)
      BY <3>1 DEF Handles, Rejects, Traceable
    <3>2. CASE IsAnswered /\ Denies
      BY <3>2, RefusalEntries DEF IsAnswered, Denies, Traceable
    <3>3. CASE ComesBack /\ (LeaveLog \/ LeaveRecovery \/ LeaveTimeout \/ LeaveOther)
      <4>1. at - 1 \in 1..Len(held)
        BY <1>0, <3>3 DEF ComesBack, AtIsNatural
      <4>2. \A event : Traced(EntryOf(event).layer, EntryOf(event).id)
        BY <4>1, FieldsOfEntryOf DEF Traceable
      <4> QED
        BY <3>3, <4>2, EntriesOnTheWayBack DEF Traceable
    <3> QED
      BY <1>2, <3>1, <3>2, <3>3
  <2>4. ASSUME NEW i \in 1..Len(held) PROVE Traced(i, held[i].id)'
    <3>1. PICK id : id = held[i].id
      OBVIOUS
    <3>2. Traced(i, id)'
      BY <2>2, <3>1 DEF Traceable
    <3> QED
      BY <2>1, <3>1, <3>2
  <2>5. ASSUME NEW e \in log' PROVE Traced(e.layer, e.id)'
    BY <2>2, <2>3
  <2> QED
    BY <1>0, <2>1, <2>4, <2>5 DEF Traceable, inputs
<1>3. CASE Waits \/ UNCHANGED vars
  BY <1>3 DEF Waits, TimePasses, Crash, vars, accessVars, inputs, Traceable, Traced, Inside, OneID
<1> QED
  BY <1>0, <1>1, <1>2, <1>3, StepKinds

\* The ID in the response leads to every entry, on every route whose request ID
\* layers agree.
THEOREM EntriesLeadBack == Spec => []EntriesAreTraceable
<1>1. ASSUME Init PROVE Quiet /\ Traceable
  <2>1. at = 1 /\ held = <<>> /\ log = {} /\ issued = NoID
    BY <1>1 DEF Init, AccessInit
  <2>2. ~Inside(at, "requestid") /\ Len(held) = 0
    BY <2>1 DEF Inside
  <2>3. ctx.id = NoID
    BY <1>1 DEF Init, AccessInit, EmptyContext
  <2> QED
    BY <2>1, <2>2, <2>3 DEF Quiet, Traceable, Traced
<1>2. Traceable => EntriesAreTraceable
  BY DEF Traceable, Traced, EntriesAreTraceable
<1> QED
  BY <1>1, <1>2, AlwaysTyped, QuietNext, TraceableNext, PTL DEF Spec

-----------------------------------------------------------------------------
\* Preflight requests.

\* Is i a CORS layer outside all auth and rbac?
CorsFirst(i) ==
    /\ stack[i].kind = "cors"
    /\ \A j \in 1..(i - 1) : stack[j].kind \notin AuthKinds \cup RbacKinds

\* A preflight request comes no further than such a layer, and shows nobody.
PreflightStops ==
    \A i \in 1..Len(stack) :
        preflight /\ CorsFirst(i) =>
            at <= i /\ Nobody /\ answer \notin Refusals \cup {"served"}

LEMMA PreflightNext == Typed /\ Identity /\ PreflightStops /\ [Next]_vars => PreflightStops'
<1> SUFFICES ASSUME Typed, Identity, PreflightStops, [Next]_vars, NEW i \in 1..Len(stack),
                    preflight, CorsFirst(i)
             PROVE  at' <= i /\ Nobody' /\ answer' \notin Refusals \cup {"served"}
  BY GivenStays DEF PreflightStops, inputs, CorsFirst
<1>0. /\ AtIsNatural /\ Len(stack) \in Nat
      /\ at <= i /\ Nobody /\ answer \notin Refusals \cup {"served"}
  BY StackIsSeq DEF Typed, GivenOK, DepthOK, AtIsNatural, PreflightStops
<1>1. layer.kind \notin AuthKinds \cup RbacKinds /\ (at = i => layer.kind = "cors")
  BY <1>0 DEF CorsFirst, layer, AtIsNatural, AuthKinds, RbacKinds
<1>2. CASE GoesOn /\ (Numbers \/ Names \/ Keeps)
  <2>1. at # i
    BY <1>1, <1>2 DEF Numbers, Names, Keeps, AuthKinds
  <2>2. at' <= i /\ answer' = answer
    BY <1>0, <1>2, <2>1 DEF GoesOn, AtIsNatural
  <2>3. ~Names
    BY <1>1 DEF Names
  <2>4. Nobody'
    BY <1>0, <2>3, StepOfIdentity DEF Nobody, WithoutID
  <2> QED
    BY <1>0, <2>2, <2>4
<1>3. CASE IsAnswered /\ (Handles \/ Rejects)
  <2>1. ~Handles
    BY <1>0 DEF Handles, AtIsNatural
  <2> QED
    BY <1>0, <1>3, <2>1 DEF IsAnswered, Rejects, Nobody, Refusals
<1>4. CASE IsAnswered /\ Denies
  BY <1>1, <1>4 DEF Denies, Unwelcome, IsGuard, AuthKinds
<1>5. CASE ComesBack /\ (LeaveLog \/ LeaveRecovery \/ LeaveTimeout \/ LeaveOther)
  <2>1. answer' \notin Refusals \cup {"served"}
    BY <1>0, <1>5, AnswerOnTheWayBack DEF Refusals
  <2>2. at' <= i /\ Nobody'
    BY <1>0, <1>5 DEF ComesBack, Nobody, AtIsNatural
  <2> QED
    BY <2>1, <2>2
<1>6. CASE Waits \/ UNCHANGED vars
  BY <1>0, <1>6 DEF Waits, TimePasses, Crash, inputs, vars, accessVars, Nobody, Refusals
<1> QED
  BY <1>0, <1>2, <1>3, <1>4, <1>5, <1>6, StepKinds

\* CORS outside authentication keeps preflight requests away from it.
THEOREM PreflightsPassBeforeAuth == Spec => []PreflightNeedsNoIdentity
<1>1. Typed /\ Init => PreflightStops
  BY DEF Init, AccessInit, EmptyContext, Nobody, Refusals, PreflightStops
<1>2. PreflightStops => PreflightNeedsNoIdentity
  BY DEF PreflightStops, CorsFirst, Nobody, PreflightNeedsNoIdentity
<1> QED
  BY <1>1, <1>2, InitTyped, AlwaysIdentity, PreflightNext, PTL DEF Spec

-----------------------------------------------------------------------------
\* Panics.

Panics == {e \in log : e.event = "panicRecovered"}

\* The layer at which a panic ends.
EndsAt(i, kind) == Stops(i) /\ Exposed(i) /\ stack[i].kind = kind

\* A panic that is under way has met no layer that stops it; one that has ended
\* has done so at a layer the request has left, the innermost that stops it.
Stopped ==
    /\ answer # "recovered" => Panics = {}
    /\ answer = "panicked" => \A i \in at..Len(held) : ~Stops(i)
    /\ answer = "recovered" =>
          \E i \in at..Len(held) :
              /\ EndsAt(i, "recovery")
              /\ Panics = {Entry(i, "panicRecovered", held[i].id, held[i].user)}
    /\ answer \in {"dying", "crashed"} => \E i \in at..Len(held) : EndsAt(i, "timeout")

LEMMA StoppedNext == Typed /\ Quiet /\ Stopped /\ [Next]_vars => Stopped'
<1> SUFFICES ASSUME Typed, Quiet, Stopped, [Next]_vars PROVE Stopped'
  OBVIOUS
<1>0. AtIsNatural /\ UNCHANGED inputs /\ Len(held) \in Nat
  BY StackIsSeq, GivenStays DEF Typed, GivenOK, DepthOK, AtIsNatural
<1>1. CASE GoesOn
  BY <1>1 DEF GoesOn, Quiet, Stopped, Panics
<1>2. CASE IsAnswered /\ (Handles \/ Rejects \/ Denies)
  <2>1. Panics' = {} /\ answer' \notin {"recovered", "dying", "crashed"}
    <3>1. \A e \in LoginFailed \cup AccessDenial : e.event # "panicRecovered"
      BY RefusalEntries
    <3> QED
      BY <1>2, <3>1 DEF IsAnswered, Handles, Rejects, Denies, Refusals, Stopped, Panics
  <2>2. at = Len(held) + 1 /\ UNCHANGED <<at, held>>
    BY <1>2 DEF IsAnswered, Typed, DepthOK
  <2>3. at'..Len(held') = {}
    BY <1>0, <2>2
  <2> QED
    BY <2>1, <2>3 DEF Stopped
<1>3. \A i : UNCHANGED held => /\ Stops(i)' <=> Stops(i)
                               /\ \A kind : EndsAt(i, kind)' <=> EndsAt(i, kind)
  BY <1>0 DEF inputs, Stops, Exposed, EndsAt
<1>4. CASE ComesBack /\ (LeaveLog \/ LeaveRecovery \/ LeaveTimeout \/ LeaveOther)
  <2>1. /\ UNCHANGED held /\ at' = at - 1 /\ at - 1 \in at'..Len(held')
        /\ at..Len(held) \subseteq at'..Len(held')
        /\ \A i \in at'..Len(held') : i \in at..Len(held) \/ i = at - 1
    BY <1>0, <1>4 DEF ComesBack, Typed, DepthOK, AtIsNatural
  <2>2. PICK j : j = at - 1
    OBVIOUS
  <2>3. answer = "panicked" => Exposed(j)
    BY <1>0, <2>2 DEF Stopped, Exposed, AtIsNatural
  <2>4. CASE LeaveRecovery /\ answer = "panicked"
    <3>1. /\ log' = log \cup {EntryOf("panicRecovered")} /\ answer' = "recovered"
          /\ stack[j].kind = "recovery"
      BY <2>2, <2>4 DEF LeaveRecovery, Leaves
    <3>2. Panics' = {EntryOf("panicRecovered")}
      BY <2>4, <3>1, FieldsOfEntryOf DEF Stopped, Panics
    <3>3. EndsAt(j, "recovery")'
      BY <1>3, <2>1, <2>3, <2>4, <3>1 DEF EndsAt, Stops
    <3>4. Panics' = {Entry(j, "panicRecovered", held'[j].id, held'[j].user)}
      BY <2>1, <2>2, <3>2 DEF EntryOf
    <3> QED
      BY <2>1, <2>2, <3>1, <3>3, <3>4 DEF Stopped
  <2>5. CASE LeaveTimeout /\ answer = "panicked" /\ ~stack[j].excluded
    <3>1. log' = log /\ answer' = "dying" /\ stack[j].kind = "timeout"
      BY <2>2, <2>5 DEF LeaveTimeout, Leaves
    <3>2. EndsAt(j, "timeout")'
      BY <1>3, <2>1, <2>3, <2>5, <3>1 DEF EndsAt, Stops
    <3> QED
      BY <2>1, <2>2, <2>5, <3>1, <3>2 DEF Stopped, Panics
  <2>6. CASE ~(LeaveRecovery /\ answer = "panicked")
             /\ ~(LeaveTimeout /\ answer = "panicked" /\ ~stack[j].excluded)
    <3>1. answer' = answer
      BY <1>4, <2>2, <2>6 DEF LeaveLog, LeaveRecovery, LeaveTimeout, LeaveOther
    <3>2. Panics' = Panics
      BY <1>4, <2>6, FieldsOfEntryOf
         DEF LeaveLog, LeaveRecovery, LeaveTimeout, LeaveOther, Panics
    <3>3. answer = "panicked" => ~Stops(j)
      BY <1>4, <2>2, <2>6
         DEF LeaveLog, LeaveRecovery, LeaveTimeout, LeaveOther, Leaves, Stops, AuthKinds, RbacKinds
    <3> QED
      BY <1>3, <2>1, <2>2, <3>1, <3>2, <3>3 DEF Stopped
  <2> QED
    BY <2>4, <2>5, <2>6
<1>5. CASE Waits \/ UNCHANGED vars
  <2>1. /\ UNCHANGED <<at, held, log>>
        /\ answer' = answer \/ (answer = "dying" /\ answer' = "crashed")
    BY <1>5 DEF Waits, TimePasses, Crash, vars, accessVars
  <2> QED
    BY <1>3, <2>1 DEF Stopped, Panics
<1> QED
  BY <1>0, <1>1, <1>2, <1>4, <1>5, StepKinds

\* A panic ends at the innermost recovery or timeout layer: it is logged by that
\* recovery layer alone, or it ends the process.
THEOREM PanicsAreStopped == Spec => []PanicsEndAtInnermost
<1>1. Init => Quiet /\ Stopped
  BY DEF Init, AccessInit, Quiet, Stopped, Panics
<1>2. Typed /\ Stopped => PanicsEndAtInnermost
  <2> SUFFICES ASSUME Typed, Stopped PROVE PanicsEndAtInnermost
    OBVIOUS
  <2> DEFINE innermost(kind) ==
               {i \in 1..Len(held) : Stops(i) /\ Exposed(i) /\ stack[i].kind = kind}
  <2>1. at \in Nat /\ at >= 1 /\ Len(held) \in Nat
    BY StackIsSeq DEF Typed, GivenOK, DepthOK
  <2>2. \A i \in at..Len(held) : \A kind : EndsAt(i, kind) => i \in innermost(kind)
    BY <2>1 DEF EndsAt
  <2>3. answer = "recovered" =>
          \E i \in innermost("recovery") :
              Panics = {Entry(i, "panicRecovered", held[i].id, held[i].user)}
    BY <2>2 DEF Stopped
  <2>4. answer \in {"dying", "crashed"} => innermost("timeout") # {}
    BY <2>2 DEF Stopped
  <2>5. Finished /\ answer = "panicked" => Exposed(0)
    BY DEF Stopped, Finished, Exposed
  <2> QED
    BY <2>3, <2>4, <2>5 DEF Stopped, PanicsEndAtInnermost, Panics
<1> QED
  BY <1>1, <1>2, AlwaysTyped, QuietNext, StoppedNext, PTL DEF Spec

-----------------------------------------------------------------------------
\* Log layers.

\* Of layer i: it has logged the request just if it should.
Logged(i) ==
    stack[i].kind = "log" =>
        ((\E e \in log : e.layer = i) <=> ~stack[i].excluded /\ ~(Panicked /\ Exposed(i)))

\* The layers that have been left have logged, and no others but the one that
\* refused the request.
LogsOnTheWayBack ==
    answer # "none" =>
        /\ \A i \in at..Len(held) : Logged(i)
        /\ \A e \in log : e.layer >= at

\* A panic comes past the layer that is being left just if it is under way.
LEMMA PanicComesPast ==
    ASSUME Typed, Stopped, answer # "none", at > 1, at - 1 \in 1..Len(held)
    PROVE  Panicked /\ Exposed(at - 1) <=> answer = "panicked"
<1>1. at \in Nat /\ Len(held) \in Nat
  BY StackIsSeq DEF Typed, GivenOK, DepthOK
<1>2. Exposed(at - 1) <=> \A j \in at..Len(held) : ~Stops(j)
  BY <1>1 DEF Exposed
<1> QED
  BY <1>2 DEF Stopped, Panicked, EndsAt

LEMMA LogsNext ==
    Typed /\ Quiet /\ Stopped /\ LogsOnTheWayBack /\ [Next]_vars => LogsOnTheWayBack'
<1> SUFFICES ASSUME Typed, Quiet, Stopped, LogsOnTheWayBack, [Next]_vars PROVE LogsOnTheWayBack'
  OBVIOUS
<1>0. /\ AtIsNatural /\ UNCHANGED inputs /\ Len(held) \in Nat /\ Len(stack) \in Nat
      /\ Len(held) <= Len(stack) /\ at <= Len(held) + 1
  BY StackIsSeq, GivenStays DEF Typed, GivenOK, DepthOK, AtIsNatural
<1>1. CASE GoesOn
  BY <1>1 DEF GoesOn, LogsOnTheWayBack
<1>2. CASE IsAnswered /\ (Handles \/ Rejects \/ Denies)
  <2>1. \A e \in log' : e.layer >= at
    <3>1. \A e \in LoginFailed \cup AccessDenial : e.layer = at
      BY RefusalEntries
    <3> QED
      BY <1>0, <1>2, <3>1
         DEF IsAnswered, Handles, Rejects, Denies, Quiet, AtIsNatural
  <2>2. at = Len(held) + 1 /\ UNCHANGED <<at, held>>
    BY <1>2 DEF IsAnswered, Typed, DepthOK
  <2>3. at'..Len(held') = {}
    BY <1>0, <2>2
  <2> QED
    BY <2>1, <2>2, <2>3 DEF LogsOnTheWayBack
<1>3. CASE ComesBack /\ (LeaveLog \/ LeaveRecovery \/ LeaveTimeout \/ LeaveOther)
  <2>0. /\ at' = at - 1 /\ held' = held /\ stack' = stack /\ answer # "none"
        /\ at - 1 \in 1..Len(held)
    BY <1>0, <1>3 DEF ComesBack, inputs, AtIsNatural
  <2>1. \A e \in log : e.layer \in Int /\ e.layer >= at
    BY <2>0 DEF Typed, LogOK, LogsOnTheWayBack
  <2>2. \A e \in log' : e \in log \/ e.layer = at - 1
    BY <1>3, EntriesOnTheWayBack, FieldsOfEntryOf
  <2>3. log \subseteq log'
    BY <1>3, EntriesOnTheWayBack
  <2>4. /\ Panicked' <=> Panicked
        /\ \A i : Exposed(i)' <=> Exposed(i)
    BY <1>3, <2>0
       DEF LeaveLog, LeaveRecovery, LeaveTimeout, LeaveOther, Panicked, Exposed, Stops
  <2>5. ASSUME NEW i \in at..Len(held) PROVE Logged(i)'
    <3>1. Logged(i) /\ i \in Int /\ i # at - 1
      BY <1>0, <2>0, <2>5 DEF LogsOnTheWayBack, AtIsNatural
    <3>2. (\E e \in log' : e.layer = i) <=> (\E e \in log : e.layer = i)
      BY <2>2, <2>3, <3>1
    <3> QED
      BY <2>0, <2>4, <3>1, <3>2 DEF Logged
  <2>6. PICK j : j = at - 1
    OBVIOUS
  <2>7. Logged(j)'
    <3>1. SUFFICES ASSUME stack[j].kind = "log"
                   PROVE  (\E e \in log' : e.layer = j)
                            <=> ~stack[j].excluded /\ answer # "panicked"
      <4>1. Panicked /\ Exposed(j) <=> answer = "panicked"
        BY <1>3, <2>0, <2>6, PanicComesPast DEF ComesBack
      <4> QED
        BY <2>0, <2>4, <4>1 DEF Logged
    <3>2. LeaveLog
      BY <1>3, <2>6, <3>1
         DEF LeaveRecovery, LeaveTimeout, LeaveOther, Leaves, AuthKinds, RbacKinds
    <3>3. CASE stack[j].excluded \/ answer = "panicked"
      <4>1. log' = log
        BY <2>6, <3>2, <3>3 DEF LeaveLog
      <4>2. \A e \in log : e.layer # j
        BY <1>0, <2>1, <2>6 DEF AtIsNatural
      <4> QED
        BY <3>3, <4>1, <4>2
    <3>4. CASE ~stack[j].excluded /\ answer # "panicked"
      <4>1. EntryOf("httpRequest") \in log'
        BY <2>6, <3>2, <3>4 DEF LeaveLog
      <4> QED
        BY <2>6, <3>4, <4>1, FieldsOfEntryOf
    <3> QED
      BY <3>3, <3>4
  <2>8. \A i \in j..Len(held) : i \in at..Len(held) \/ i = j
    BY <1>0, <2>6 DEF AtIsNatural
  <2>9. \A i \in j..Len(held) : Logged(i)'
    BY <2>5, <2>7, <2>8
  <2>10. \A e \in log' : e.layer >= j
    BY <1>0, <2>1, <2>2, <2>6 DEF AtIsNatural
  <2> QED
    BY <2>0, <2>6, <2>9, <2>10 DEF LogsOnTheWayBack
<1>4. CASE Waits \/ UNCHANGED vars
  <2>1. /\ UNCHANGED <<at, held, log, stack>>
        /\ answer' = answer \/ (answer = "dying" /\ answer' = "crashed")
    BY <1>0, <1>4 DEF Waits, TimePasses, Crash, vars, accessVars, inputs
  <2>2. /\ Panicked' <=> Panicked
        /\ \A i : Logged(i)' <=> Logged(i)
    BY <2>1 DEF Panicked, Logged, Exposed, Stops
  <2> QED
    BY <2>1, <2>2 DEF LogsOnTheWayBack
<1> QED
  BY <1>0, <1>1, <1>2, <1>3, <1>4, StepKinds

\* Every log layer logs the requests it should and no others, whoever answered
\* them, and wherever a panic ended.
THEOREM EveryLogLayerLogs == Spec => []RequestsAreLogged
<1>1. Init => Quiet /\ Stopped /\ LogsOnTheWayBack
  BY DEF Init, AccessInit, Quiet, Stopped, Panics, LogsOnTheWayBack
<1>2. Typed /\ LogsOnTheWayBack => RequestsAreLogged
  BY DEF LogsOnTheWayBack, Logged, RequestsAreLogged, Finished
<1> QED
  BY <1>1, <1>2, AlwaysTyped, QuietNext, StoppedNext, LogsNext, PTL DEF Spec

-----------------------------------------------------------------------------
\* Rate limits by user.

\* Is layer k inside an auth layer that is in force?
InsideAuth(k) ==
    \E i \in 1..(k - 1) : stack[i].kind = "auth" /\ ~stack[i].excluded

\* What layer k, which demands need, has counted under key is not wrong.
RightlyNamed(k, need, key) ==
    "user" \in need =>
        /\ token.claims.user # Empty /\ InsideAuth(k)
           => [by |-> "user", value |-> token.claims.user] \in key
        /\ [by |-> "user", value |-> Empty] \notin key

LEMMA KeyNames ==
    ASSUME Typed, Identity, Guarded, answer = "none"
    PROVE  RightlyNamed(at, layer.need, Key(layer.need))
<1> SUFFICES ASSUME "user" \in layer.need
             PROVE  /\ token.claims.user # Empty /\ InsideAuth(at)
                       => [by |-> "user", value |-> token.claims.user] \in Key(layer.need)
                    /\ [by |-> "user", value |-> Empty] \notin Key(layer.need)
  BY DEF RightlyNamed
<1>1. Who \in Key(layer.need)
  BY DEF Key
<1>2. \A k \in Key(layer.need) : k = Who \/ k.by = "path"
  BY DEF Key
<1>3. [by |-> "user", value |-> Empty] # Who
  BY DEF Who, Address
<1>4. ASSUME token.claims.user # Empty, InsideAuth(at)
      PROVE  Who = [by |-> "user", value |-> token.claims.user]
  <2>1. ctx.claims # NoClaims
    BY <1>4 DEF InsideAuth, Guarded, GuardsMet, Behind
  <2>2. ctx.user = token.claims.user
    BY <2>1 DEF Identity, Nobody, Bearer
  <2> QED
    BY <1>4, <2>2 DEF Who
<1>5. [by |-> "user", value |-> Empty] \notin Key(layer.need)
  BY <1>2, <1>3
<1> QED
  BY <1>1, <1>4, <1>5

LEMMA LimitedNext ==
    Typed /\ Identity /\ Guarded /\ LimitedByName /\ [Next]_vars => LimitedByName'
<1> SUFFICES ASSUME Typed, Identity, Guarded, LimitedByName, [Next]_vars PROVE LimitedByName'
  OBVIOUS
<1>0. AtIsNatural /\ UNCHANGED inputs
  BY StackIsSeq, GivenStays DEF Typed, GivenOK, DepthOK, AtIsNatural
<1>1. CASE counted' = counted
  BY <1>0, <1>1 DEF LimitedByName, inputs
<1>2. CASE answer = "none" /\ counted' = counted \cup {[layer |-> at, key |-> Key(layer.need)]}
  <2>1. RightlyNamed(at, stack[at].need, Key(layer.need))
    BY <1>2, KeyNames DEF layer
  <2>2. \A c \in counted : RightlyNamed(c.layer, stack[c.layer].need, c.key)
    BY DEF LimitedByName, RightlyNamed, InsideAuth
  <2>3. \A c \in counted' : RightlyNamed(c.layer, stack[c.layer].need, c.key)
    BY <1>2, <2>1, <2>2
  <2> QED
    BY <1>0, <2>3 DEF LimitedByName, RightlyNamed, InsideAuth, inputs
<1> QED
  BY <1>0, <1>1, <1>2, StepKinds
     DEF GoesOn, IsAnswered, Numbers, Names, Keeps, Counts, Handles, Rejects, Denies,
         ComesBack, Waits, vars

\* A limit by user inside authentication goes by the name of the user.
THEOREM LimitsGoByName == Spec => []LimitedByName
<1>1. Init => LimitedByName
  BY DEF Init, LimitedByName
<1> QED
  BY <1>1, AlwaysGuarded, LimitedNext, PTL DEF Spec

=============================================================================
