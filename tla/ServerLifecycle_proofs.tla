------------------------ MODULE ServerLifecycle_proofs ------------------------
(***************************************************************************)
(* The lifecycle of the server is safe for every number of requests, every *)
(* size of the pool and every environment it may be started in.            *)
(*                                                                         *)
(* What makes the exit code truthful is spread over the stages of run: how *)
(* far it came says what is open, how it came to its deferred calls says   *)
(* who may still be in flight, and what is open says which calls it has    *)
(* still deferred.  LifeInv spells these out.                              *)
(***************************************************************************)
EXTENDS ServerLifecycle, FiniteSetTheorems, SequenceTheorems, TLAPS

(* On the way up, each stage finds open what those before it opened, and   *)
(* nothing has gone wrong yet; requests come in only while it serves, ...  *)
Rising == {"load", "database", "redis", "verifier"}
Up == Rising \cup {"serving", "shutdown"}
OnTheWayUp ==
    /\ stage \in Up => code = -1 /\ ~cut /\ ~expired
    /\ stage \in Rising => listener = "off"
    /\ stage \in {"load", "database"} => db = "none"
    /\ stage \in {"redis", "verifier", "serving", "shutdown"} => db = "open"
    /\ stage \in {"load", "database", "redis"} => redis = "none"
    /\ stage \in {"verifier", "serving", "shutdown"} => redis = "open"
    /\ stage = "serving" => listener \in {"starting", "on", "failed"}
    /\ stage = "shutdown" => listener = "shut" /\ signalled
    /\ listener = "off" => Active = {}

(* ... and when it unwinds, one of four things has happened: it never      *)
(* served, its listener failed, it drained, or it gave up draining.        *)
NeverServed == listener = "off" /\ code = 1 /\ ~cut /\ Active = {}
CameDown    == listener = "failed" /\ code = 1
WoundDown   == listener = "shut" /\ code = 0 /\ signalled /\ ~cut /\ ~expired /\ Active = {}
GaveUp      == listener = "shut" /\ code = 1 /\ expired
OnTheWayDown ==
    /\ stage \in {"unwind", "exited"} => NeverServed \/ CameDown \/ WoundDown \/ GaveUp
    /\ stage = "exited" => Active = {} /\ deferred = <<>>

(* Wherever run is, it has deferred a call for each thing that is open, in *)
(* the order of closing, and for nothing else.                             *)
Owes ==
    \/ deferred = <<>> /\ ~IsOpen("redis.Close") /\ ~IsOpen("db.Close")
    \/ deferred = <<"db.Close">> /\ ~IsOpen("redis.Close") /\ IsOpen("db.Close")
    \/ deferred = <<"redis.Close", "db.Close">> /\ IsOpen("redis.Close") /\ IsOpen("db.Close")

Staged == OnTheWayUp /\ OnTheWayDown
LifeInv == Staged /\ Owes

(* The pool is finite although the requests need not be. *)
PoolInv == ServerTypeOK /\ IsFiniteSet(Conns)

(* A step of p touches no request but p's, and leaves run where it was.    *)
OfRequest(p) == Accept(p) \/ Acquire(p) \/ Release(p) \/ Finish(p) \/ RequestTimesOut(p)
OfRun == RunStep \/ Listen \/ ListenerFails \/ Ready \/ Signal \/ DatabaseChanges

-----------------------------------------------------------------------------
(* The stack of deferred calls. *)
LEMMA BothCalls == <<"redis.Close">> \o <<"db.Close">> = <<"redis.Close", "db.Close">>
<1> DEFINE joined == <<"redis.Close">> \o <<"db.Close">>
           both == <<"redis.Close", "db.Close">>
           Calls == {"db.Close", "redis.Close"}
<1>1. <<"redis.Close">> \in Seq(Calls) /\ <<"db.Close">> \in Seq(Calls) /\ both \in Seq(Calls)
  OBVIOUS
<1>2. joined \in Seq(Calls) /\ Len(joined) = 2
      /\ joined[1] = "redis.Close" /\ joined[2] = "db.Close"
  BY <1>1, ConcatProperties
<1>3. Len(both) = 2 /\ both[1] = "redis.Close" /\ both[2] = "db.Close"
  OBVIOUS
<1> HIDE DEF joined, both
<1>4. \A k \in 1..Len(joined) : joined[k] = both[k]
  <2>1. \A k \in 1..2 : k = 1 \/ k = 2
    OBVIOUS
  <2> QED
    BY <1>2, <1>3, <2>1
<1>5. joined = both
  BY <1>1, <1>2, <1>3, <1>4, SeqEqual
<1> QED
  BY <1>5 DEF joined, both

LEMMA StackOfCalls ==
    /\ <<"db.Close">> \o <<>> = <<"db.Close">>
    /\ <<"redis.Close">> \o <<"db.Close">> = <<"redis.Close", "db.Close">>
    /\ Tail(<<"db.Close">>) = <<>>
    /\ Tail(<<"redis.Close", "db.Close">>) = <<"db.Close">>
    /\ Head(<<"db.Close">>) = "db.Close"
    /\ Head(<<"redis.Close", "db.Close">>) = "redis.Close"
<1>1. <<"db.Close">> \o <<>> = <<"db.Close">>
  OBVIOUS
<1>2. Tail(<<"db.Close">>) = <<>> /\ Tail(<<"redis.Close", "db.Close">>) = <<"db.Close">>
  OBVIOUS
<1>3. Head(<<"db.Close">>) = "db.Close" /\ Head(<<"redis.Close", "db.Close">>) = "redis.Close"
  OBVIOUS
<1> QED
  BY <1>1, <1>2, <1>3, BothCalls

LEMMA StackType ==
    ASSUME NEW Calls, NEW s \in Seq(Calls), NEW call \in Calls
    PROVE  <<call>> \o s \in Seq(Calls) /\ (s # <<>> => Tail(s) \in Seq(Calls))
<1>1. <<call>> \o s \in Seq(Calls)
  OBVIOUS
<1>2. ASSUME s # <<>> PROVE Tail(s) \in Seq(Calls)
  BY <1>2, HeadTailProperties
<1> QED
  BY <1>1, <1>2

-----------------------------------------------------------------------------
(* The connections. *)
LEMMA ConnsShrink ==
    ASSUME PoolInv, Conns' \subseteq Conns
    PROVE  IsFiniteSet(Conns') /\ Cardinality(Conns') <= MaxConns
<1>1. IsFiniteSet(Conns') /\ Cardinality(Conns') <= Cardinality(Conns)
  BY FS_Subset DEF PoolInv
<1>2. Cardinality(Conns) \in Nat /\ Cardinality(Conns') \in Nat
  BY <1>1, FS_CardinalityType DEF PoolInv
<1> QED
  BY <1>1, <1>2, PoolAssumption DEF PoolInv, ServerTypeOK

LEMMA ConnsGrow ==
    ASSUME PoolInv, NEW p \in Proc, ConnFree, Conns' = Conns \cup {p}
    PROVE  IsFiniteSet(Conns') /\ Cardinality(Conns') <= MaxConns
<1>1. IsFiniteSet(Conns') /\ Cardinality(Conns') \in {Cardinality(Conns), Cardinality(Conns) + 1}
  BY FS_AddElement DEF PoolInv
<1>2. Cardinality(Conns) \in Nat
  BY FS_CardinalityType DEF PoolInv
<1> QED
  BY <1>1, <1>2, PoolAssumption DEF ConnFree

LEMMA PoolInit == ServerInit => PoolInv
<1> SUFFICES ASSUME ServerInit PROVE PoolInv
  OBVIOUS
<1>1. Conns = {}
  BY DEF ServerInit, Conns
<1>2. IsFiniteSet(Conns) /\ Cardinality(Conns) <= MaxConns
  BY <1>1, FS_EmptySet, PoolAssumption
<1>3. inflight \in [Proc -> {"none", "app", "conn"}] /\ code \in {-1, 0, 1}
  BY DEF ServerInit
<1>4. deferred \in Seq({"db.Close", "redis.Close"})
  BY DEF ServerInit
<1> QED
  BY <1>2, <1>3, <1>4 DEF ServerInit, PoolInv, ServerTypeOK, Stages

LEMMA PoolNext == PoolInv /\ [ServerNext]_serverVars => PoolInv'
<1> SUFFICES ASSUME PoolInv, [ServerNext]_serverVars PROVE PoolInv'
  OBVIOUS
<1> USE DEF PoolInv, ServerTypeOK
<1>1. ASSUME NEW p \in Proc, OfRequest(p) PROVE PoolInv'
  <2>1. CASE Accept(p)
    <3>1. Conns' \subseteq Conns
      BY <2>1 DEF Accept, Conns
    <3> QED
      BY <2>1, <3>1, ConnsShrink DEF Accept
  <2>2. CASE Acquire(p)
    <3>1. Conns' \subseteq Conns \/ (ConnFree /\ Conns' = Conns \cup {p})
      BY <2>2 DEF Acquire, Conns
    <3>2. IsFiniteSet(Conns') /\ Cardinality(Conns') <= MaxConns
      BY <3>1, ConnsShrink, ConnsGrow
    <3>3. inflight' \in [Proc -> {"none", "app", "conn"}]
      BY <2>2 DEF Acquire
    <3>4. cut' \in BOOLEAN
      BY <2>2 DEF Acquire
    <3> QED
      BY <2>2, <3>2, <3>3, <3>4 DEF Acquire
  <2>3. CASE Release(p) \/ Finish(p) \/ RequestTimesOut(p)
    <3>1. Conns' \subseteq Conns
      BY <2>3 DEF Release, Finish, RequestTimesOut, Conns
    <3> QED
      BY <2>3, <3>1, ConnsShrink DEF Release, Finish, RequestTimesOut
  <2> QED
    BY <1>1, <2>1, <2>2, <2>3 DEF OfRequest
<1>2. CASE OfRun
  <2>1. Conns' \subseteq Conns
    BY <1>2 DEF Conns, OfRun, RunStep, Load, ConnectDatabase, ConnectRedis, BuildVerifier,
                VerifierCancelled, ServerEnded, SignalSeen, Shutdown, CloseRedis, CloseDatabase,
                Exit, Listen, ListenerFails, Ready, Signal, DatabaseChanges
  <2>2. IsFiniteSet(Conns') /\ Cardinality(Conns') <= MaxConns
    BY <2>1, ConnsShrink
  <2> USE DEF Return, Stages
  <2>0. deferred' \in Seq({"db.Close", "redis.Close"})
    BY <1>2, StackType
       DEF OfRun, RunStep, Load, ConnectDatabase, ConnectRedis, BuildVerifier,
           VerifierCancelled, ServerEnded, SignalSeen, Shutdown, CloseRedis, CloseDatabase,
           Exit, Listen, ListenerFails, Ready, Signal, DatabaseChanges, Defer, Deferred, Done
  <2>3. CASE Load \/ ConnectDatabase \/ ConnectRedis \/ BuildVerifier \/ VerifierCancelled
    BY <2>0, <2>2, <2>3 DEF Load, ConnectDatabase, ConnectRedis, BuildVerifier, VerifierCancelled
  <2>4. CASE ServerEnded \/ SignalSeen \/ Shutdown \/ CloseRedis \/ CloseDatabase
    <3>1. CASE ServerEnded \/ SignalSeen
      BY <2>0, <2>2, <3>1 DEF ServerEnded, SignalSeen
    <3>2. CASE Shutdown
      <4>1. expired' \in BOOLEAN /\ code' \in {-1, 0, 1} /\ stage' \in Stages
        BY <3>2 DEF Shutdown
      <4>2. UNCHANGED <<env, signalled, redis, db, listener, inflight, dbUp, probe, cut>>
        BY <3>2 DEF Shutdown
      <4> QED
        BY <2>0, <2>2, <4>1, <4>2
    <3>3. CASE CloseRedis \/ CloseDatabase
      BY <2>0, <2>2, <3>3 DEF CloseRedis, CloseDatabase
    <3> QED
      BY <2>4, <3>1, <3>2, <3>3
  <2>5. CASE Exit
    BY <2>0, <2>2, <2>5 DEF Exit
  <2>6. CASE Listen \/ ListenerFails
    <3>1. listener' \in {"on", "failed"}
      BY <2>6 DEF Listen, ListenerFails
    <3> QED
      BY <2>0, <2>2, <2>6, <3>1 DEF Listen, ListenerFails
  <2>7. CASE Ready
    <3>1. probe' \in {"none", "ok", "unavailable"}
      BY <2>7 DEF Ready
    <3> QED
      BY <2>0, <2>2, <2>7, <3>1 DEF Ready
  <2>8. CASE Signal
    BY <2>0, <2>2, <2>8 DEF Signal
  <2>9. CASE DatabaseChanges
    <3>1. dbUp' \in BOOLEAN
      BY <2>9, Zenon DEF DatabaseChanges
    <3> QED
      BY <2>0, <2>2, <2>9, <3>1 DEF DatabaseChanges
  <2> QED
    BY <1>2, <2>3, <2>4, <2>5, <2>6, <2>7, <2>8, <2>9 DEF OfRun, RunStep
<1>3. CASE UNCHANGED serverVars
  BY <1>3 DEF serverVars, Conns
<1> QED
  BY <1>1, <1>2, <1>3 DEF ServerNext, OfRequest, OfRun

(* The server stays in its types, and takes no connection beyond those of  *)
(* its pool.                                                               *)
THEOREM ServerTypeCorrect == ServerSpec => []ServerTypeOK
<1>1. ServerInit => PoolInv
  BY PoolInit
<1>2. PoolInv /\ [ServerNext]_serverVars => PoolInv'
  BY PoolNext
<1>3. PoolInv => ServerTypeOK
  BY DEF PoolInv
<1> QED
  BY <1>1, <1>2, <1>3, PTL DEF ServerSpec

-----------------------------------------------------------------------------
(* The stages. *)
LEMMA LifeInit == ServerInit => LifeInv
<1>1. ServerInit => Staged
  BY DEF ServerInit, Staged, OnTheWayUp, OnTheWayDown, Up, Rising, Active, Conns
<1>2. ServerInit => Owes
  BY DEF ServerInit, Owes, IsOpen
<1> QED
  BY <1>1, <1>2 DEF LifeInv

(* A request comes in only while the server serves, and finds the pool     *)
(* closed only when its drain timed out or its listener failed.            *)
LEMMA RequestKeepsStage ==
    ASSUME ServerTypeOK, Staged, NEW p \in Proc, OfRequest(p)
    PROVE  Staged'
<1> USE DEF Staged, OnTheWayUp, OnTheWayDown, Up, Rising, NeverServed, CameDown, WoundDown, GaveUp
<1>1. CASE Accept(p)
  <2>1. stage = "serving"
    BY <1>1 DEF Accept, ServerTypeOK, Stages
  <2>2. Conns' = Conns
    BY <1>1 DEF Accept, Conns, ServerTypeOK
  <2> QED
    BY <1>1, <2>1, <2>2 DEF Accept
<1>2. CASE Release(p) \/ Finish(p) \/ RequestTimesOut(p)
  <2>1. Active' \subseteq Active /\ Conns' \subseteq Conns
    BY <1>2 DEF Release, Finish, RequestTimesOut, Active, Conns, ServerTypeOK
  <2> QED
    BY <1>2, <2>1 DEF Release, Finish, RequestTimesOut
<1>3. CASE Acquire(p)
  <2>1. p \in Active /\ Active' \subseteq Active
    BY <1>3 DEF Acquire, Active, ServerTypeOK
  <2>2. CASE db = "open" /\ UNCHANGED cut
    BY <1>3, <2>1, <2>2 DEF Acquire
  <2>3. CASE db # "open" /\ cut' = TRUE /\ inflight' = [inflight EXCEPT ![p] = "none"]
    <3>1. stage \in {"unwind", "exited"} /\ (CameDown \/ GaveUp)
      BY <2>1, <2>3 DEF ServerTypeOK, Stages
    <3>2. Conns' \subseteq Conns
      BY <2>3 DEF Conns, ServerTypeOK
    <3> QED
      BY <1>3, <2>1, <2>3, <3>1, <3>2 DEF Acquire
  <2> QED
    BY <1>3, <2>2, <2>3 DEF Acquire
<1> QED
  BY <1>1, <1>2, <1>3 DEF OfRequest

(* A stage that succeeds goes on to the next, and one that fails unwinds.  *)
LEMMA RunKeepsStage ==
    ASSUME ServerTypeOK, Staged, OfRun
    PROVE  Staged'
<1> USE DEF Staged, OnTheWayUp, OnTheWayDown, Up, Rising, NeverServed, CameDown, WoundDown, GaveUp
<1> USE DEF ServerTypeOK, Stages, Return
<1>1. CASE UNCHANGED inflight
  <2>1. Active' = Active /\ Conns' = Conns
    BY <1>1 DEF Active, Conns
  <2>2. CASE Load
    BY <2>1, <2>2 DEF Load
  <2>3. CASE ConnectDatabase
    BY <2>1, <2>3 DEF ConnectDatabase
  <2>4. CASE ConnectRedis
    BY <2>1, <2>4 DEF ConnectRedis
  <2>5. CASE BuildVerifier \/ VerifierCancelled
    BY <2>1, <2>5 DEF BuildVerifier, VerifierCancelled
  <2>6. CASE ServerEnded
    BY <2>1, <2>6 DEF ServerEnded
  <2>7. CASE SignalSeen
    BY <2>1, <2>7 DEF SignalSeen
  <2>8. CASE Shutdown
    BY <2>1, <2>8 DEF Shutdown, Drained
  <2>9. CASE CloseRedis
    BY <2>1, <2>9 DEF CloseRedis, Deferred
  <2>10. CASE CloseDatabase
    BY <2>1, <2>10 DEF CloseDatabase, Deferred
  <2>11. CASE Listen \/ ListenerFails
    BY <2>1, <2>11 DEF Listen, ListenerFails
  <2>12. CASE Ready \/ Signal \/ DatabaseChanges
    BY <2>1, <2>12 DEF Ready, Signal, DatabaseChanges
  <2>13. CASE Exit
    BY <1>1, <2>1, <2>13 DEF Exit, Active, Conns
  <2> QED
    BY <2>2, <2>3, <2>4, <2>5, <2>6, <2>7, <2>8, <2>9, <2>10, <2>11, <2>12, <2>13
       DEF OfRun, RunStep
<1>2. CASE Exit
  <2>1. Active' = {} /\ Conns' = {}
    BY <1>2 DEF Exit, Active, Conns
  <2> QED
    BY <1>2, <2>1 DEF Exit
<1>3. Exit \/ UNCHANGED inflight
  BY DEF OfRun, RunStep, Load, ConnectDatabase, ConnectRedis, BuildVerifier, VerifierCancelled,
         ServerEnded, SignalSeen, Shutdown, CloseRedis, CloseDatabase, Listen, ListenerFails,
         Ready, Signal, DatabaseChanges
<1> QED
  BY <1>1, <1>2, <1>3

(* What a stage opens it defers the closing of, and a deferred call closes *)
(* what it was deferred for.                                               *)
LEMMA StepKeepsOwes ==
    ASSUME ServerTypeOK, Staged, Owes, ServerNext
    PROVE  Owes'
<1> USE StackOfCalls DEF Owes, IsOpen
<1>1. CASE UNCHANGED <<deferred, redis, db>>
  BY <1>1
<1>2. CASE ConnectDatabase /\ db' # db
  <2>1. db = "none" /\ deferred = <<>>
    BY <1>2 DEF ConnectDatabase, Staged, OnTheWayUp
  <2> QED
    BY <1>2, <2>1 DEF ConnectDatabase, Defer
<1>3. CASE ConnectRedis /\ redis' # redis
  <2>1. redis = "none" /\ db = "open" /\ deferred = <<"db.Close">>
    BY <1>3 DEF ConnectRedis, Staged, OnTheWayUp
  <2> QED
    BY <1>3, <2>1 DEF ConnectRedis, Defer
<1>4. CASE CloseRedis
  <2>1. deferred = <<"redis.Close", "db.Close">> /\ IsOpen("db.Close")
    BY <1>4 DEF CloseRedis, Deferred
  <2> QED
    BY <1>4, <2>1 DEF CloseRedis, Done
<1>5. CASE CloseDatabase
  <2>1. deferred = <<"db.Close">> /\ ~IsOpen("redis.Close")
    BY <1>5 DEF CloseDatabase, Deferred
  <2> QED
    BY <1>5, <2>1 DEF CloseDatabase, Done
<1>6. \/ UNCHANGED <<deferred, redis, db>>
      \/ ConnectDatabase /\ db' # db
      \/ ConnectRedis /\ redis' # redis
      \/ CloseRedis \/ CloseDatabase
  BY DEF ServerNext, RunStep, Load, ConnectDatabase, ConnectRedis, BuildVerifier,
         VerifierCancelled, ServerEnded, SignalSeen, Shutdown, Exit, Listen, ListenerFails,
         Ready, Signal, DatabaseChanges, Accept, Acquire, Release, Finish, RequestTimesOut,
         Staged, OnTheWayUp
<1> QED
  BY <1>1, <1>2, <1>3, <1>4, <1>5, <1>6

LEMMA LifeNext == ServerTypeOK /\ LifeInv /\ [ServerNext]_serverVars => LifeInv'
<1> SUFFICES ASSUME ServerTypeOK, LifeInv, [ServerNext]_serverVars PROVE LifeInv'
  OBVIOUS
<1>1. CASE UNCHANGED serverVars
  BY <1>1 DEF serverVars, LifeInv, Staged, OnTheWayUp, OnTheWayDown, NeverServed, CameDown,
              WoundDown, GaveUp, Active, Conns, Owes, IsOpen
<1>2. CASE ServerNext
  <2>1. Staged'
    BY <1>2, RequestKeepsStage, RunKeepsStage DEF LifeInv, ServerNext, OfRequest, OfRun
  <2>2. Owes'
    BY <1>2, StepKeepsOwes DEF LifeInv
  <2> QED
    BY <2>1, <2>2 DEF LifeInv
<1> QED
  BY <1>1, <1>2

(* How far run has come says what is open, and which calls it still has to *)
(* make; and it returns an error from the moment a stage of it fails or a  *)
(* request is cut short.                                                   *)
THEOREM LifeInvHolds == ServerSpec => []LifeInv
<1>1. ServerInit => LifeInv
  BY LifeInit
<1>2. ServerTypeOK /\ LifeInv /\ [ServerNext]_serverVars => LifeInv'
  BY LifeNext
<1> QED
  BY <1>1, <1>2, ServerTypeCorrect, PTL DEF ServerSpec

(* Exit code 0 means that the server was asked to stop and cut no request  *)
(* short.                                                                  *)
THEOREM ExitsTruthfully == ServerSpec => []CleanExit
<1>1. ServerTypeOK /\ LifeInv => CleanExit
  BY DEF LifeInv, Staged, OnTheWayUp, OnTheWayDown, Up, Rising, NeverServed, CameDown,
         WoundDown, GaveUp, CleanExit, ServerTypeOK, Stages
<1> QED
  BY <1>1, ServerTypeCorrect, LifeInvHolds, PTL

(* Every way out of run has deferred what it owes: the process ends with   *)
(* nothing open, and no deferred call meets what is not.                   *)
THEOREM EverythingClosed == ServerSpec => []NothingLeftOpen
<1>1. LifeInv => NothingLeftOpen
  <2> SUFFICES ASSUME LifeInv PROVE NothingLeftOpen
    OBVIOUS
  <2>1. stage = "exited" => deferred = <<>>
    BY DEF LifeInv, Staged, OnTheWayDown
  <2>2. deferred = <<>> => ~IsOpen("redis.Close") /\ ~IsOpen("db.Close")
    BY DEF LifeInv, Owes
  <2>3. ASSUME NEW k \in DOMAIN deferred PROVE IsOpen(deferred[k])
    <3>1. CASE deferred = <<>>
      BY <2>3, <3>1
    <3>2. CASE deferred = <<"db.Close">> /\ IsOpen("db.Close")
      <4>1. k = 1
        BY <2>3, <3>2
      <4> QED
        BY <3>2, <4>1
    <3>3. CASE deferred = <<"redis.Close", "db.Close">> /\ IsOpen("redis.Close") /\ IsOpen("db.Close")
      <4>1. k = 1 \/ k = 2
        BY <2>3, <3>3
      <4> QED
        BY <3>3, <4>1
    <3> QED
      BY <3>1, <3>2, <3>3 DEF LifeInv, Owes
  <2> QED
    BY <2>1, <2>2, <2>3 DEF NothingLeftOpen
<1> QED
  BY <1>1, LifeInvHolds, PTL
=============================================================================
