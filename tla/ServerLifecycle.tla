---------------------------- MODULE ServerLifecycle ----------------------------
(***************************************************************************)
(* The life of one server process: cmd/server (run), config.Load, the pool *)
(* of platform/postgres, and the readiness handler.  run goes through its  *)
(* stages in order and defers a call for what each of them has opened; a   *)
(* failed stage, a signal or a failed listener makes it return, and the    *)
(* calls it has deferred by then, no others, run in reverse order.         *)
(* Requests run beside it, with or without a connection of the pool.       *)
(***************************************************************************)
EXTENDS Integers, Sequences, FiniteSets

CONSTANTS
    Proc,          \* requests the server can have in flight
    MaxConns,      \* connections of the pool
    Environments   \* the environments it may be started in

(* The variables Load refuses to do without, and the durations run uses.   *)
Required == {"DATABASE_URL", "REDIS_ADDR", "AUTH_JWKS_URL", "INTERNAL_SERVICE_TOKEN",
             "PUBLIC_BASE_URL", "HIVE_SERVICE_URL", "MEDIA_SERVICE_URL",
             "SUBSCRIPTION_SERVICE_URL", "NOTIFICATION_SERVICE_URL"}
Durations == {"DATABASE_CONNECT_TIMEOUT", "REDIS_CONNECT_TIMEOUT"}

(* A value is not set, well formed, malformed, or a duration of zero.      *)
Setting == {"unset", "good", "bad", "zero"}
ASSUME EnvironmentsAssumption == Environments \subseteq [Required \cup Durations -> Setting]
ASSUME PoolAssumption == MaxConns \in Nat \ {0}

VARIABLES
    env,          \* the environment
    stage,        \* where run is
    deferred,     \* the calls run has deferred, the last one first
    signalled,    \* SIGINT or SIGTERM has been received
    redis, db,    \* the redis client, the pool: "none", "open", "closing", "closed"
    listener,     \* the HTTP server: "off", "starting", "on", "failed", "shut"
    inflight,     \* the requests: "none", "app", or "conn" while one holds a connection
    dbUp,         \* the database can be reached
    probe,        \* the last answer of /ready
    code,         \* exit code, -1 before run returns
    expired,      \* history: the shutdown timeout ran out
    cut           \* history: a request met a closed pool or the end of the process

serverVars == <<env, stage, deferred, signalled, redis, db, listener, inflight, dbUp, probe,
                code, expired, cut>>

Stages == {"load", "database", "redis", "verifier", "serving", "shutdown",
           "unwind", "exited"}
Conns == {p \in Proc : inflight[p] = "conn"}
(* Fault: a connection for every statement. *)
Unpooled == TRUE
ConnFree == Cardinality(Conns) < MaxConns
Active == {p \in Proc : inflight[p] # "none"}

ServerInit ==
    /\ env \in Environments
    /\ stage = "load" /\ deferred = <<>> /\ signalled = FALSE
    /\ redis = "none" /\ db = "none" /\ listener = "off"
    /\ inflight = [p \in Proc |-> "none"]
    /\ dbUp \in BOOLEAN /\ probe = "none"
    /\ code = -1 /\ expired = FALSE /\ cut = FALSE

-----------------------------------------------------------------------------
(* getDuration: what cannot be parsed is replaced by the default.          *)
Positive(key) == env[key] # "zero"

(* validateHTTPURL, for the one URL Load looks into. *)
ValidHTTPURL(key) == env[key] = "good"
Loads == /\ \A key \in Required : env[key] # "unset"
         /\ ValidHTTPURL("NOTIFICATION_SERVICE_URL")

Defer(call) == deferred' = <<call>> \o deferred
(* run returns: the deferred calls are next. *)
Return(c) == stage' = "unwind" /\ code' = c

Load ==
    /\ stage = "load"
    /\ IF Loads THEN stage' = "database" /\ UNCHANGED code ELSE Return(1)
    /\ UNCHANGED <<env, deferred, signalled, redis, db, listener, inflight, dbUp, probe, expired, cut>>

(* Fault: defer db.Close() was forgotten. *)
ConnectAndForget ==
    /\ stage = "database"
    /\ \/ /\ dbUp /\ ~signalled /\ Positive("DATABASE_CONNECT_TIMEOUT")
          /\ db' = "open" /\ stage' = "redis" /\ UNCHANGED code
       \/ Return(1) /\ UNCHANGED db
    /\ UNCHANGED <<env, deferred, signalled, redis, listener, inflight, dbUp, probe, expired, cut>>
(* postgres.New: a pool that cannot be pinged is closed before it returns. *)
(* The signal cancels the context of the connect, as does its timeout.     *)
ConnectDatabase ==
    /\ stage = "database"
    /\ \/ /\ dbUp /\ ~signalled /\ Positive("DATABASE_CONNECT_TIMEOUT")
          /\ db' = "open" /\ Defer("db.Close") /\ stage' = "redis" /\ UNCHANGED code
       \/ Return(1) /\ UNCHANGED <<db, deferred>>
    /\ UNCHANGED <<env, signalled, redis, listener, inflight, dbUp, probe, expired, cut>>

(* Fault: the call is deferred before the error is looked at, and so also  *)
(* for a client that was never made.                                       *)
DeferUnchecked ==
    /\ stage = "redis"
    /\ Defer("redis.Close")
    /\ \/ /\ ~signalled /\ Positive("REDIS_CONNECT_TIMEOUT")
          /\ redis' = "open" /\ stage' = "verifier" /\ UNCHANGED code
       \/ Return(1) /\ UNCHANGED redis
    /\ UNCHANGED <<env, signalled, db, listener, inflight, dbUp, probe, expired, cut>>
ConnectRedis ==
    /\ stage = "redis"
    /\ \/ /\ ~signalled /\ Positive("REDIS_CONNECT_TIMEOUT")
          /\ redis' = "open" /\ Defer("redis.Close") /\ stage' = "verifier" /\ UNCHANGED code
       \/ Return(1) /\ UNCHANGED <<redis, deferred>>
    /\ UNCHANGED <<env, signalled, db, listener, inflight, dbUp, probe, expired, cut>>

(* The JWKS document is fetched without a timeout of run's own, ...        *)
BuildVerifier ==
    /\ stage = "verifier" /\ ~signalled
    /\ \/ stage' = "serving" /\ listener' = "starting" /\ UNCHANGED code
       \/ Return(1) /\ UNCHANGED listener
    /\ UNCHANGED <<env, deferred, signalled, redis, db, inflight, dbUp, probe, expired, cut>>
(* Fault: context.Background() instead of ctx. *)
VerifierHangs == FALSE /\ UNCHANGED serverVars
(* ... but a signal ends the wait. *)
VerifierCancelled ==
    /\ stage = "verifier" /\ signalled
    /\ Return(1)
    /\ UNCHANGED <<env, deferred, signalled, redis, db, listener, inflight, dbUp, probe, expired, cut>>

(* srv.Run in its goroutine: it listens, unless the port cannot be had or  *)
(* Shutdown came first, and may fail later.                                *)
Listen ==
    /\ listener = "starting" /\ stage # "exited"
    /\ listener' \in {"on", "failed"}
    /\ UNCHANGED <<env, stage, deferred, signalled, redis, db, inflight, dbUp, probe, code, expired, cut>>
ListenerFails ==
    /\ listener = "on" /\ stage # "exited"
    /\ listener' = "failed"
    /\ UNCHANGED <<env, stage, deferred, signalled, redis, db, inflight, dbUp, probe, code, expired, cut>>

(* The select of run; with both ready it takes either.  Run of the server  *)
(* (beebase-common) is taken to return nil only when it has been shut      *)
(* down, which here nothing does before the signal is seen.                *)
ServerEnded ==
    /\ stage = "serving" /\ listener \in {"failed", "shut"}
    /\ Return(IF listener = "failed" THEN 1 ELSE 0)
    /\ UNCHANGED <<env, deferred, signalled, redis, db, listener, inflight, dbUp, probe, expired, cut>>
SignalSeen ==
    /\ stage = "serving" /\ signalled
    /\ stage' = "shutdown" /\ listener' = "shut"
    /\ UNCHANGED <<env, deferred, signalled, redis, db, inflight, dbUp, probe, code, expired, cut>>

(* Shutdown has nothing left to wait for. *)
Drained == Active = {}

(* Fault: its error is dropped. *)
ShutdownUnchecked ==
    /\ stage = "shutdown"
    /\ Return(0) /\ expired' = (expired \/ ~Drained)
    /\ UNCHANGED <<env, deferred, signalled, redis, db, listener, inflight, dbUp, probe, cut>>
Shutdown ==
    /\ stage = "shutdown"
    /\ \/ Drained /\ Return(0) /\ UNCHANGED expired
       \/ Return(1) /\ expired' = TRUE
    /\ UNCHANGED <<env, deferred, signalled, redis, db, listener, inflight, dbUp, probe, cut>>

(* The deferred calls, one after the other. *)
Deferred(call) == stage = "unwind" /\ deferred # <<>> /\ Head(deferred) = call
Done == deferred' = Tail(deferred)
CloseRedis ==
    /\ Deferred("redis.Close")
    /\ redis' = "closed" /\ Done
    /\ UNCHANGED <<env, stage, signalled, db, listener, inflight, dbUp, probe, code, expired, cut>>

(* pool.Close refuses new acquires and waits for the connections that are  *)
(* out.                                                                    *)
CloseDatabase ==
    /\ Deferred("db.Close")
    /\ \/ db # "closing" /\ db' = "closing" /\ UNCHANGED deferred
       \/ db = "closing" /\ Conns = {} /\ db' = "closed" /\ Done
    /\ UNCHANGED <<env, stage, signalled, redis, listener, inflight, dbUp, probe, code, expired, cut>>

(* run has returned: the process ends, and with it every request still     *)
(* running.                                                                *)
Exit ==
    /\ stage = "unwind" /\ deferred = <<>>
    /\ stage' = "exited"
    /\ cut' = (cut \/ Active # {})
    /\ inflight' = [p \in Proc |-> "none"]
    /\ UNCHANGED <<env, deferred, signalled, redis, db, listener, dbUp, probe, code, expired>>

RunStep == \/ Load \/ ConnectDatabase \/ ConnectRedis \/ BuildVerifier
           \/ VerifierCancelled \/ ServerEnded \/ SignalSeen \/ Shutdown
           \/ CloseRedis \/ CloseDatabase \/ Exit

-----------------------------------------------------------------------------
Accept(p) ==
    /\ listener = "on" /\ stage # "exited"
    /\ inflight[p] = "none"
    /\ inflight' = [inflight EXCEPT ![p] = "app"]
    /\ UNCHANGED <<env, stage, deferred, signalled, redis, db, listener, dbUp, probe, code, expired, cut>>

(* A statement takes a connection; a closed pool gives none and the        *)
(* request ends in an error.                                               *)
Acquire(p) ==
    /\ inflight[p] = "app"
    /\ \/ /\ db = "open" /\ ConnFree
          /\ inflight' = [inflight EXCEPT ![p] = "conn"]
          /\ UNCHANGED cut
       \/ /\ db # "open"
          /\ inflight' = [inflight EXCEPT ![p] = "none"]
          /\ cut' = TRUE
    /\ UNCHANGED <<env, stage, deferred, signalled, redis, db, listener, dbUp, probe, code, expired>>

Release(p) ==
    /\ inflight[p] = "conn"
    /\ inflight' = [inflight EXCEPT ![p] = "app"]
    /\ UNCHANGED <<env, stage, deferred, signalled, redis, db, listener, dbUp, probe, code, expired, cut>>

Finish(p) ==
    /\ inflight[p] = "app"
    /\ inflight' = [inflight EXCEPT ![p] = "none"]
    /\ UNCHANGED <<env, stage, deferred, signalled, redis, db, listener, dbUp, probe, code, expired, cut>>

(* Fault: no timeout. *)
NeverTimesOut(p) == FALSE /\ UNCHANGED serverVars
(* middleware.Timeout cancels whatever the request waits for.              *)
RequestTimesOut(p) ==
    /\ inflight[p] # "none"
    /\ inflight' = [inflight EXCEPT ![p] = "none"]
    /\ UNCHANGED <<env, stage, deferred, signalled, redis, db, listener, dbUp, probe, code, expired, cut>>

(* ReadyHandler: a ping, with a connection of the pool, within 2 seconds.  *)
Ready ==
    /\ listener = "on" /\ stage # "exited"
    /\ probe' = IF db = "open" /\ dbUp /\ ConnFree
                THEN "ok" ELSE "unavailable"
    /\ UNCHANGED <<env, stage, deferred, signalled, redis, db, listener, inflight, dbUp, code, expired, cut>>

(* The environment of the process; a change of the database leaves what    *)
(* /ready answered behind.                                                 *)
Signal ==
    /\ ~signalled /\ stage \notin {"load", "exited"}
    /\ signalled' = TRUE
    /\ UNCHANGED <<env, stage, deferred, redis, db, listener, inflight, dbUp, probe, code, expired, cut>>
DatabaseChanges ==
    /\ stage # "exited"
    /\ dbUp' = ~dbUp /\ probe' = "none"
    /\ UNCHANGED <<env, stage, deferred, signalled, redis, db, listener, inflight, code, expired, cut>>

ServerNext ==
    \/ RunStep \/ Listen \/ ListenerFails \/ Ready \/ Signal \/ DatabaseChanges
    \/ \E p \in Proc : Accept(p) \/ Acquire(p) \/ Release(p) \/ Finish(p)
                       \/ RequestTimesOut(p)

ServerSpec == ServerInit /\ [][ServerNext]_serverVars

(* run's own steps and timeouts come in time; the fetch of the JWKS        *)
(* document, a client or the database need not.                            *)
FairServerSpec ==
    /\ ServerSpec
    /\ WF_serverVars(RunStep /\ stage # "verifier")
    /\ WF_serverVars(VerifierCancelled)
    /\ \A p \in Proc : WF_serverVars(RequestTimesOut(p))

-----------------------------------------------------------------------------
ServerTypeOK ==
    /\ env \in Environments /\ stage \in Stages
    /\ deferred \in Seq({"db.Close", "redis.Close"})
    /\ signalled \in BOOLEAN /\ expired \in BOOLEAN /\ cut \in BOOLEAN /\ dbUp \in BOOLEAN
    /\ redis \in {"none", "open", "closed"}
    /\ db \in {"none", "open", "closing", "closed"}
    /\ listener \in {"off", "starting", "on", "failed", "shut"}
    /\ inflight \in [Proc -> {"none", "app", "conn"}]
    /\ Cardinality(Conns) <= MaxConns
    /\ probe \in {"none", "ok", "unavailable"} /\ code \in {-1, 0, 1}

(* Exit code 0 tells the truth: the process was asked to stop and no       *)
(* request was cut short, neither by its end nor by a pool closed under    *)
(* it.  A request may only suffer when the timeout ran out or the listener *)
(* failed, and then the code is 1 (run, "server stopped cleanly").         *)
CleanExit ==
    /\ code = 0 => signalled /\ ~cut /\ ~expired
    /\ cut => code = 1 /\ (expired \/ listener = "failed")

(* Whatever stage fails and whenever the signal comes, every way out of    *)
(* run has deferred what it owes and nothing else: the process ends with   *)
(* nothing open, and no deferred call closes what was never opened, or has *)
(* been closed, which a nil client would not survive (the defers of run).  *)
IsOpen(call) == IF call = "redis.Close" THEN redis = "open" ELSE db \in {"open", "closing"}
NothingLeftOpen ==
    /\ stage = "exited" => ~IsOpen("redis.Close") /\ ~IsOpen("db.Close")
    /\ \A k \in DOMAIN deferred : IsOpen(deferred[k])

(* A signal ends the process, in every stage, however many requests hang.  *)
SignalEnds == signalled ~> stage = "exited"
=============================================================================
