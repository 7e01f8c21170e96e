----------------------------- MODULE MCStores -----------------------------
(***************************************************************************)
(* What the processes of one site do without being asked: servers prepare  *)
(* the schema (SchemaTool) and the store of the captchas (Captcha) of      *)
(* their database, one of them opens and closes its listeners (NNTPServer) *)
(* and a puller looks for new articles elsewhere (PullerScan).  These      *)
(* share no table and no goroutine, so a behaviour follows one of them and *)
(* leaves the others alone.                                                *)
(***************************************************************************)
EXTENDS SchemaTool, Captcha, NNTPServer, PullerScan

CONSTANTS s1, s2, s3, l1, l2

\* Two listeners; two goroutines that serve the first of them.
MCServers == {s1, s2, s3}
MCListeners == {l1, l2}
MCListenerOf == [t \in MCServers |-> IF t = s3 THEN l2 ELSE l1]

Release(c, s, m) == [current |-> c, seeds |-> s, migrations |-> m]

\* A first release; one with a seed and a migration; a later one that brings both
\* migrations and leads on from the first alone.  The version of the last one is
\* behind its migration: it does not load.
MCReleases ==
    {Release(1, {}, {}), Release(-1, {1}, {2}), Release(3, {}, {2, 3}), Release(1, {}, {2})}

VARIABLE subject    \* "schema", "captcha", "server" or "scan"

storesVars == <<subject, schemaVars, captchaVars, vars, scanVars>>

\* No server starts.
CaptchaIdle == CaptchaInit /\ store = "mem" /\ ~inited

\* Every call has returned.
SchemaIdle ==
    /\ release = [c \in Clients |-> CHOOSE v \in Releases : Loads(v)]
    /\ table = FALSE /\ ver = -1 /\ done = <<>> /\ holder = Nobody
    /\ phase = [c \in Clients |-> "done"]
    /\ nowVer = [c \in Clients |-> -1]
    /\ cRepeat = [c \in Clients |-> 0]
    /\ ret = [c \in Clients |-> "none"]
    /\ sqlFaults = 0

\* The other server has no article.
ScanIdle == ScanInit /\ hi = [g \in Groups |-> 0]

StoresInit ==
    /\ Init
    /\ \/ subject = "schema" /\ SchemaInit /\ CaptchaIdle /\ ScanIdle
       \/ subject = "captcha" /\ CaptchaInit /\ SchemaIdle /\ ScanIdle
       \/ subject = "server" /\ SchemaIdle /\ CaptchaIdle /\ ScanIdle
       \/ subject = "scan" /\ ScanInit /\ SchemaIdle /\ CaptchaIdle

Following(s) == subject = s

StoresNext ==
    /\ \/ Following("schema") /\ SchemaNext /\ UNCHANGED <<captchaVars, vars, scanVars>>
       \/ Following("captcha") /\ CaptchaNext /\ UNCHANGED <<schemaVars, vars, scanVars>>
       \/ Following("server") /\ Next /\ UNCHANGED <<schemaVars, captchaVars, scanVars>>
       \/ Following("scan") /\ ScanNext /\ UNCHANGED <<schemaVars, captchaVars, vars>>
    /\ UNCHANGED subject

\* SchemaFairness, CaptchaFairness, ServerFairness and ScanFairness, of the one
\* that is followed.
StoresFairness ==
    /\ \A c \in Clients : WF_schemaVars(Following("schema") /\ Call(c))
    /\ \A s \in Processes :
          WF_captchaVars(Following("captcha") /\ stage[s] # "down" /\ StartUp(s))
    /\ \A s \in Servers :
          /\ WF_vars(Following("server") /\ (Track(s) \/ CheckClosing(s) \/ ServeReturns(s)))
          /\ WF_vars(Following("server") /\ ListenerOf[s] \notin lopen /\ AcceptFails(s))
    /\ \A c \in Conns :
          /\ WF_vars(Following("server") /\ (UnregisterConn(c) \/ Done(c)))
          /\ WF_vars(Following("server") /\ c \notin copen /\ Finish(c))
    /\ \A k \in Closers :
          WF_vars(Following("server") /\ (ServersGone(k) \/ Kill(k) \/ ConnsGone(k) \/ Reset(k)))
    /\ WF_scanVars(Following("scan") /\ Pulling)

StoresSpec == StoresInit /\ [][StoresNext]_storesVars /\ StoresFairness
=============================================================================
