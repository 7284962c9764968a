----------------------------- MODULE PipelineMC -----------------------------
(***************************************************************************)
(* Routes and tokens for model checking: the routes of auth and rbac alone *)
(* (nested authentication, excluded paths, validators with different       *)
(* demands, every kind of rbac layer), and routes that put the other       *)
(* layers around them in different orders.                                 *)
(***************************************************************************)
EXTENDS Pipeline

Nil      == [nil |-> "interface", issuer |-> {}, audience |-> {}]
TypedNil == [nil |-> "pointer", issuer |-> {}, audience |-> {}]
Any      == [nil |-> "no", issuer |-> {}, audience |-> {}]
Strict   == [nil |-> "no", issuer |-> {"txova"}, audience |-> {"api", "admin"}]

Auth(v)          == [kind |-> "auth", need |-> {}, excluded |-> FALSE, validator |-> v]
AuthOff(v)       == [kind |-> "auth", need |-> {}, excluded |-> TRUE, validator |-> v]
OptionalAuth(v)  == [kind |-> "optional", need |-> {}, excluded |-> FALSE, validator |-> v]
Layer(k, need)   == [kind |-> k, need |-> need, excluded |-> FALSE, validator |-> Nil]
Plain(k)         == Layer(k, {})
Off(k)           == [kind |-> k, need |-> {}, excluded |-> TRUE, validator |-> Nil]

Firsts == {<<>>, <<Auth(Nil)>>, <<Auth(TypedNil)>>, <<AuthOff(TypedNil)>>, <<Auth(Strict)>>,
           <<AuthOff(Any)>>, <<OptionalAuth(Nil)>>,
           <<OptionalAuth(Strict)>>, <<OptionalAuth(Any), Auth(Strict)>>,
           <<Auth(Any), OptionalAuth(Strict)>>, <<AuthOff(Strict), OptionalAuth(Any)>>}

Lasts == {<<>>, <<Layer("role", {"ops", "support"})>>,
          <<Layer("permission", {"read", "write"})>>, <<Layer("permission", {})>>,
          <<Layer("type", {"rider"})>>, <<Layer("owner", {})>>,
          <<Layer("roleOrOwner", {"ops"})>>,
          <<Layer("type", {"rider", "driver"}), Layer("owner", {})>>}

RequestIDs == Plain("requestid")
Recovery   == Plain("recovery")
Logs       == Plain("log")
CORS       == Plain("cors")

\* The order of README.md and USAGE.md, with a guard on the route.
Recommended ==
    <<RequestIDs, Recovery, Logs, CORS, Plain("timeout"), Plain("maintenance"),
      Layer("ratelimit", {"user"}), Auth(Strict), Layer("role", {"ops"})>>

\* The order of PRD.md; limits, CORS and logs inside authentication; nested
\* request IDs, logs, recoveries and timeouts, one of them for other paths; and
\* auth layers that panic.
Others ==
    {<<Recovery, RequestIDs, Logs, Plain("timeout"), CORS, Plain("maintenance"),
       Layer("ratelimit", {"ip"}), Auth(Any), Layer("owner", {})>>,
     <<RequestIDs, Logs, Recovery, Auth(Any), Layer("ratelimit", {"user", "path"})>>,
     <<Logs, Auth(Any), RequestIDs, CORS, Layer("ratelimit", {"path"}), Logs>>,
     <<OptionalAuth(Any), RequestIDs, Off("log"), RequestIDs, Logs, Layer("ratelimit", {"user"})>>,
     <<Logs, Recovery, RequestIDs, Logs, OptionalAuth(Nil), Recovery>>,
     <<Logs, Plain("timeout"), Recovery, Off("timeout"), Logs, Auth(TypedNil)>>,
     <<Recovery, Logs, Plain("timeout"), Logs, Plain("timeout"), Off("log")>>,
     <<RequestIDs, Recovery, OptionalAuth(Nil), Off("ratelimit"), Layer("ratelimit", {"ip", "path"})>>}

MCStacks == {f \o l : f \in Firsts, l \in Lasts} \cup {Recommended} \cup Others

MCRecommended == {Recommended}

Rider == [user |-> "u1", type |-> "rider", roles |-> {}, permissions |-> {"read"}]
Ops   == [user |-> "u2", type |-> "driver", roles |-> {"ops"}, permissions |-> {"read", "write"}]
Robot == [user |-> "", type |-> "", roles |-> {"support"}, permissions |-> {}]

MCTokens ==
    {[authentic |-> a, issuer |-> i, audience |-> {d}, claims |-> c] :
        a \in BOOLEAN, i \in {"txova", "other"}, d \in {"api", "web"}, c \in {Rider, Ops, Robot}}

MCParams == {"", "u1"}
=============================================================================
