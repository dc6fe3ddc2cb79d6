-------------------------------- MODULE Reembed --------------------------------
(***************************************************************************)
(* The re-embed pass (reembed/cli.py), which fills the vector store from   *)
(* the graph, and the service it must stop to have the databases to        *)
(* itself, as systemd runs it.  Who may open the databases when, and what  *)
(* counts as a fault, is up to the module that composes this one with the  *)
(* other users of the graph.                                               *)
(***************************************************************************)
EXTENDS VectorStore

CONSTANT Command    \* the command lines of a pass

CommandRecord == [scope : Skill \cup {None},    \* --skill-id
                  force : BOOLEAN, limited : BOOLEAN, dryRun : BOOLEAN,
                  rebuildFts : BOOLEAN, noRestart : BOOLEAN]

ASSUME CommandAssumption == Command \subseteq CommandRecord /\ None \notin Command

VARIABLES
    service,    \* "up": open; "starting": its process runs; "waiting": it died,
                \* and systemd will start it again; "down": it is stopped
    pass,       \* where main is
    opts,       \* the command line of the pass, or None
    stopped,    \* service_was_stopped
    work,       \* the fragments discovered and not yet tried
    embedded,   \* stats.embedded > 0
    unembedded, \* stats.failed > 0
    result      \* the exit code of the pass that is leaving

passVars == <<pass, opts, stopped, work, embedded, unembedded, result>>

reembedVars == <<storeVars, service, passVars>>

ReembedTypeOK ==
    /\ StoreTypeOK
    /\ service \in {"up", "starting", "waiting", "down"}
    /\ pass \in {"idle", "opening", "discovering", "embedding", "dropping", "creating", "leaving"}
    /\ opts \in Command \cup {None}
    /\ stopped \in BOOLEAN
    /\ work \subseteq Fragment
    /\ embedded \in BOOLEAN
    /\ unembedded \in BOOLEAN
    /\ result \in {"none", "ok", "llm", "raised"}

PassInit ==
    /\ service \in {"up", "down"} /\ pass = "idle" /\ opts = None
    /\ stopped = FALSE /\ work = {} /\ embedded = FALSE /\ unembedded = FALSE
    /\ result = "none"

\* The pass has the databases open.
Holding == pass \in {"discovering", "embedding", "dropping", "creating"}

\* What `systemctl is-active' calls active: the unit is Type=simple.
ServiceRunning == service \in {"starting", "up"}
-----------------------------------------------------------------------------
(* The service. *)

\* lifespan: open the graph, then the store, then load the cache.
ServiceOpens == service = "starting" /\ service' = "up" /\ OpenStore /\ UNCHANGED passVars

ServiceOpensUnindexed ==
    /\ service = "starting" /\ service' = "up"
    /\ UNCHANGED <<storeVars, passVars>>

\* lifespan raises, as a database is locked.
ServiceLocked == service = "starting" /\ service' = "waiting" /\ UNCHANGED <<storeVars, passVars>>

\* Restart=on-failure.
ServiceRetries == service = "waiting" /\ service' = "starting" /\ UNCHANGED <<storeVars, passVars>>

ServiceDies == service = "up" /\ service' = "waiting" /\ UNCHANGED <<storeVars, passVars>>

\* The operator starts the service.
ServiceStarted == service = "down" /\ service' = "starting" /\ UNCHANGED <<storeVars, passVars>>
-----------------------------------------------------------------------------
(* The pass. *)

BeginWith(o, stops) ==
    /\ pass = "idle"
    /\ pass' = "opening" /\ opts' = o /\ stopped' = stops
    /\ service' = IF stops THEN "down" ELSE service
    /\ work' = {} /\ embedded' = FALSE /\ unembedded' = FALSE /\ result' = "none"
    /\ UNCHANGED storeVars

Begin(o) == BeginWith(o, ServiceRunning)

\* systemctl fails, or takes longer than the pass gives it.
BeginWithoutStopping(o) == ServiceRunning /\ BeginWith(o, FALSE)

\* The body of the try statement is over, and the databases are closed.
LeaveWith(code) ==
    /\ pass' = "leaving"
    /\ result' = code
    /\ UNCHANGED <<service, opts, stopped, work, embedded, unembedded>>

Open ==
    /\ pass = "opening" /\ pass' = "discovering"
    /\ OpenStore
    /\ UNCHANGED <<service, opts, stopped, work, embedded, unembedded, result>>

OpenUnindexed ==
    /\ pass = "opening" /\ pass' = "discovering"
    /\ UNCHANGED <<storeVars, service, opts, stopped, work, embedded, unembedded, result>>

OpenRaises == pass = "opening" /\ LeaveWith("raised") /\ UNCHANGED storeVars

InScope(o, s) == o.scope = None \/ o.scope = s

\* Mutant: only delete_skill is called.
ClearSkillOnly(o) == IF o.force THEN DeleteRows({o.scope}) ELSE UNCHANGED storeVars

\* Mutant: the rows to be replaced are deleted, not those of the scope.
ClearServed(o) ==
    IF o.force THEN /\ rows' = [f \in Fragment |->
                                IF f \in ActiveFragments /\ InScope(o, f[1]) THEN None ELSE rows[f]]
                    /\ UNCHANGED <<index, indexBuilt>>
    ELSE UNCHANGED storeVars

\* --force: clear the scope, so that the primary key does not trip.
Clear(o) ==
    IF o.force THEN DeleteRows({s \in Skill : InScope(o, s)}) ELSE UNCHANGED storeVars

\* discover_unembedded_fragments.
Discovered(o) ==
    {f \in ActiveFragments : InScope(o, f[1]) /\ (o.force \/ f \notin Present)}

\* --force, discovery, --limit (which keeps some of the fragments), and the two
\* early returns.
Discover(kept) ==
    /\ pass = "discovering"
    /\ kept \subseteq Discovered(opts)
    /\ opts.limited \/ kept = Discovered(opts)
    /\ Clear(opts)
    /\ \/ /\ opts.dryRun \/ (kept = {} /\ ~opts.rebuildFts)
          /\ LeaveWith("ok")
       \/ /\ ~opts.dryRun /\ (kept # {} \/ opts.rebuildFts)
          /\ pass' = "embedding" /\ work' = kept
          /\ UNCHANGED <<service, opts, stopped, embedded, unembedded, result>>

\* reembed_fragments: one fragment is embedded and inserted, or, after the
\* retries, counted as failed; either way the loop goes on.
Embed(f) ==
    /\ pass = "embedding"
    /\ f \in work /\ work' = work \ {f}
    /\ InsertRow(f, fragment[f])
    /\ embedded' = TRUE
    /\ UNCHANGED <<service, pass, opts, stopped, unembedded, result>>

EmbedFails(f) ==
    /\ pass = "embedding"
    /\ f \in work /\ work' = work \ {f}
    /\ unembedded' = TRUE
    /\ UNCHANGED <<storeVars, service, pass, opts, stopped, embedded, result>>

\* Mutant: failures are only logged.
AlwaysOk == "ok"

Outcome == IF unembedded THEN "llm" ELSE "ok"

\* Mutant: the index is made again on request only.
RebuildOnRequest == opts.rebuildFts

RebuildDue == embedded \/ opts.rebuildFts

EndEmbedding ==
    /\ pass = "embedding" /\ work = {}
    /\ \/ /\ RebuildDue
          /\ pass' = "dropping"
          /\ UNCHANGED <<service, opts, stopped, work, embedded, unembedded, result>>
       \/ /\ ~RebuildDue
          /\ LeaveWith(Outcome)
    /\ UNCHANGED storeVars

\* rebuild_fts_index.
Drop ==
    /\ pass = "dropping" /\ pass' = "creating"
    /\ DropIndex
    /\ UNCHANGED <<service, opts, stopped, work, embedded, unembedded, result>>

Create == pass = "creating" /\ CreateIndex /\ LeaveWith(Outcome)

\* The drop, which may fail unnoticed, then makes the create fail; or the create
\* fails by itself.  The pass only warns.
RebuildFails ==
    /\ pass \in {"dropping", "creating"}
    /\ LeaveWith(Outcome)
    /\ UNCHANGED storeVars

\* An exception nobody catches, or the operator's interrupt.
Interrupted == Holding /\ LeaveWith("raised") /\ UNCHANGED storeVars

ReturnWith(started) ==
    /\ pass' = "idle" /\ opts' = None /\ work' = {} /\ stopped' = FALSE
    /\ embedded' = FALSE /\ unembedded' = FALSE
    /\ result' = "none"
    /\ service' = IF started /\ service # "up" THEN "starting" ELSE service
    /\ UNCHANGED storeVars

\* Mutant: the service is started again only after a pass that succeeded.
ReturnIfOk == pass = "leaving" /\ ReturnWith(stopped /\ ~opts.noRestart /\ result = "ok")

\* The finally clause: _maybe_restart.
Return == pass = "leaving" /\ ReturnWith(stopped /\ ~opts.noRestart)

\* systemctl start fails; the pass only warns.
ReturnWithoutStarting == pass = "leaving" /\ ReturnWith(FALSE)

Killed == pass # "idle" /\ ReturnWith(FALSE)
=============================================================================
