------------------------------ MODULE Lifecycle ------------------------------
(***************************************************************************)
(* Starting and stopping the process: main, the constructors and           *)
(* destructors of Server, crest::Cache, MarketOrdersCache and              *)
(* ConnectionPool, and the threads that use the cache meanwhile.           *)
(*                                                                         *)
(* The HTTP threads belong to the base class http::CoreServer, an external *)
(* library, and so do the workers of http::AsyncClient, the member of      *)
(* ConnectionPool.  Members are destroyed before bases, and in the reverse *)
(* order of their declaration.                                             *)
(***************************************************************************)
EXTENDS Naturals, FiniteSets

CONSTANTS Handlers   \* the HTTP threads

VARIABLES
  main,          \* where the main thread is
  cacheAlive,    \* Server::cache and all its members are not yet destroyed
  poolAlive,     \* ConnectionPool::http_client is not yet destroyed
  thread,        \* update_thread: "none", "update", "request", "done", "joined"
  exitFlag,      \* update_thread_exit
  accepting,     \* http::CoreServer takes requests
  handler        \* each HTTP thread: "idle", "cache" (in get_orders), "pool"

vars == <<main, cacheAlive, poolAlive, thread, exitFlag, accepting, handler>>

Init ==
  /\ main = "init"
  /\ cacheAlive = FALSE /\ poolAlive = FALSE
  /\ thread = "none" /\ exitFlag = FALSE
  /\ accepting = FALSE
  /\ handler = [h \in Handlers |-> "idle"]

Main(from, to) == main = from /\ main' = to

-----------------------------------------------------------------------------
(* main *)

\* Server's constructor: the pool first, then the cache with its thread.
Construct ==
  /\ Main("init", "run")
  /\ cacheAlive' = TRUE /\ poolAlive' = TRUE
  /\ thread' = "update"
  /\ UNCHANGED <<exitFlag, accepting, handler>>

\* server.run() starts to take requests and returns.
Run ==
  /\ Main("run", "sigwait")
  /\ accepting' = TRUE
  /\ UNCHANGED <<cacheAlive, poolAlive, thread, exitFlag, handler>>

\* sigwait returns.  server.stop() is commented out: requests are still taken.
Signal ==
  /\ Main("sigwait", "exit")
  /\ UNCHANGED <<cacheAlive, poolAlive, thread, exitFlag, accepting, handler>>

\* ~Server, ~Cache, Cache::exit, MarketOrdersCache::exit up to the join.
SetExitFlag ==
  /\ Main("exit", "join")
  /\ exitFlag' = TRUE
  /\ UNCHANGED <<cacheAlive, poolAlive, thread, accepting, handler>>

\* update_thread.join() returns, and ConnectionPool::exit does nothing.
Join ==
  /\ Main("join", "destroyCache")
  /\ thread = "done"
  /\ thread' = "joined"
  /\ UNCHANGED <<cacheAlive, poolAlive, exitFlag, accepting, handler>>

\* The members of Cache: market_orders, whose exit() finds nothing to join,
\* and then conn_pool.
DestroyCache ==
  /\ Main("destroyCache", "destroyPool")
  /\ cacheAlive' = FALSE
  /\ UNCHANGED <<poolAlive, thread, exitFlag, accepting, handler>>

DestroyPool ==
  /\ Main("destroyPool", "destroyServer")
  /\ poolAlive' = FALSE
  /\ UNCHANGED <<cacheAlive, thread, exitFlag, accepting, handler>>

\* ~CoreServer: no more requests, and the handlers have returned.
DestroyServer ==
  /\ Main("destroyServer", "exited")
  /\ \A h \in Handlers : handler[h] = "idle"
  /\ accepting' = FALSE
  /\ UNCHANGED <<cacheAlive, poolAlive, thread, exitFlag, handler>>

-----------------------------------------------------------------------------
(* update_thread_main: download, store, sleep, without end *)

UpdateThread ==
  /\ \/ thread = "update" /\ thread' = "request"
     \/ thread = "request" /\ thread' = "update"
  /\ UNCHANGED <<main, cacheAlive, poolAlive, exitFlag, accepting, handler>>

-----------------------------------------------------------------------------
(* Server::handle_request in an HTTP thread *)

HandleRequest(h, part) ==
  /\ accepting
  /\ handler[h] = "idle"
  /\ handler' = [handler EXCEPT ![h] = part]
  /\ UNCHANGED <<main, cacheAlive, poolAlive, thread, exitFlag, accepting>>

Respond(h) ==
  /\ handler[h] # "idle"
  /\ handler' = [handler EXCEPT ![h] = "idle"]
  /\ UNCHANGED <<main, cacheAlive, poolAlive, thread, exitFlag, accepting>>

-----------------------------------------------------------------------------
Stopping == SetExitFlag \/ Join \/ DestroyCache \/ DestroyPool \/ DestroyServer

Next ==
  \/ Construct \/ Run \/ Signal \/ Stopping
  \/ UpdateThread
  \/ \E h \in Handlers : Respond(h) \/ \E part \in {"cache", "pool"} : HandleRequest(h, part)

Spec == Init /\ [][Next]_vars

\* Every thread runs on, the signal may never come.
FairSpec ==
  /\ Spec
  /\ WF_vars(Construct) /\ WF_vars(Run) /\ WF_vars(Stopping)
  /\ WF_vars(UpdateThread)
  /\ \A h \in Handlers : WF_vars(Respond(h))

-----------------------------------------------------------------------------
(* Properties *)

\* When sigwait returns main logs "Stopping" and "Stopped" and returns; ~Server asks the
\* update thread to exit and joins it: the process ends.
StopsAfterSignal == main = "exit" ~> main = "exited"

=============================================================================
