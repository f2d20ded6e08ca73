------------------------------ MODULE Forwarding ------------------------------
(***************************************************************************)
(* Loopback forwards and hostname aliases: internal/forward, the calls     *)
(* gate/service.go makes of it, the rows internal/storage keeps of it and  *)
(* the hosts file, with agents that add and remove, the operator who       *)
(* detaches a target, tunnels that die and a daemon that is killed and     *)
(* started again.                                                          *)
(*                                                                         *)
(* A request makes at most one forward and at most one line of the hosts   *)
(* file, under random IDs: both are named by the request that makes them.  *)
(* The authorization that precedes a request is the subject of GateService.*)
(***************************************************************************)
CONSTANTS
    Requests,   \* the requests that add a forward or an alias
    KindOf,     \* "forward_add" or "host_add"
    PortOf,     \* the remote port a request names
    NameOf,     \* the hostname a host_add request names
    Removers,   \* sessions that remove forwards and aliases
    Operator,   \* the operator goroutine, which detaches targets
    Targets,    \* the random IDs Registry.Add may hand out
    Hostnames,
    Foreign,    \* hostnames the hosts file has without Gate
    Nobody      \* no request, no session, no target

Closers == Removers \cup {Operator}

ASSUME ForwardingAssumption ==
    /\ KindOf \in [Requests -> {"forward_add", "host_add"}]
    /\ NameOf \in [Requests -> Hostnames]
    /\ Foreign \subseteq Hostnames
    /\ Requests \cap Closers = {}
    /\ Nobody \notin Requests \cup Closers \cup Targets

VARIABLES
    daemon,      \* "down", "starting" or "up"
    registry,    \* Registry.bindings
    attached,    \* targets a new session may be opened on
    tunnels,     \* forwards whose SSH process lives
    forwards,    \* keys of Manager.forwards
    waiters,     \* forwards whose wait goroutine has not yet returned
    reaped,      \* forwards that wait has deleted, their row not yet closed
    aliases,     \* AliasManager.aliases, by the request that made the alias
    lock,        \* who holds AliasManager.mu
    pc,          \* the next step of a request
    session,     \* the target of a request's session
    linked,      \* the forward a host_add request links its alias to
    job,         \* what a closer is doing
    \* on disk
    lines,       \* Gate's lines of the hosts file
    targetIDs,   \* targets that have a row
    forwardRow,  \* state and closed_by of a forward's row
    aliasRow     \* managed_marker and removed_at of a hostname's row

memoryVars == <<registry, attached, forwards, waiters, reaped, aliases, lock>>
requestVars == <<pc, session, linked>>
diskVars == <<lines, targetIDs, forwardRow, aliasRow>>
vars == <<daemon, memoryVars, tunnels, requestVars, job, diskVars>>

NoJob == [at |-> "idle", kind |-> "none", target |-> Nobody, names |-> {},
          ids |-> {}, alias |-> Nobody, forward |-> Nobody, failed |-> FALSE]
NoRow == [marker |-> Nobody, active |-> FALSE]

Init ==
    /\ daemon = "down"
    /\ registry = {} /\ attached = {}
    /\ tunnels = {} /\ forwards = {} /\ waiters = {} /\ reaped = {}
    /\ aliases = {} /\ lock = Nobody
    /\ pc = [r \in Requests |-> "idle"]
    /\ session = [r \in Requests |-> Nobody]
    /\ linked = [r \in Requests |-> Nobody]
    /\ job = [x \in Closers |-> NoJob]
    /\ lines = {} /\ targetIDs = {}
    /\ forwardRow = [r \in Requests |-> "none"]
    /\ aliasRow = [h \in Hostnames |-> NoRow]

Up == daemon = "up"
At(r, step) == Up /\ pc[r] = step
Goto(r, step) == pc' = [pc EXCEPT ![r] = step]

-----------------------------------------------------------------------------
(* The daemon's life.                                                       *)

(* Mutation: closed rows are closed again.                                  *)
StartDaemonClosingAll ==
    /\ daemon = "down"
    /\ daemon' = "starting"
    /\ forwardRow' = [r \in Requests |-> IF forwardRow[r] = "none" THEN "none"
                                        ELSE "daemon-restart"]
    /\ UNCHANGED <<memoryVars, tunnels, requestVars, job, lines, targetIDs,
                   aliasRow>>

(* EnableForwarding, NewManager: CloseStaleForwards.                        *)
StartDaemon ==
    /\ daemon = "down"
    /\ daemon' = "starting"
    /\ forwardRow' = [r \in Requests |-> IF forwardRow[r] = "active"
                                        THEN "daemon-restart"
                                        ELSE forwardRow[r]]
    /\ UNCHANGED <<memoryVars, tunnels, requestVars, job, lines, targetIDs,
                   aliasRow>>

(* NewAliasManager: the exact line of a stale row is removed, then the row. *)
CleanLine(h) ==
    /\ daemon = "starting"
    /\ aliasRow[h].active
    /\ aliasRow[h].marker \in lines
    /\ lines' = lines \ {aliasRow[h].marker}
    /\ UNCHANGED <<daemon, memoryVars, tunnels, requestVars, job, targetIDs,
                   forwardRow, aliasRow>>

CleanRow(h) ==
    /\ daemon = "starting"
    /\ aliasRow[h].active
    /\ aliasRow[h].marker \notin lines
    /\ aliasRow' = [aliasRow EXCEPT ![h].active = FALSE]
    /\ UNCHANGED <<daemon, memoryVars, tunnels, requestVars, job, lines,
                   targetIDs, forwardRow>>

FinishStart ==
    /\ daemon = "starting"
    /\ \A h \in Hostnames : ~aliasRow[h].active
    /\ daemon' = "up"
    /\ UNCHANGED <<memoryVars, tunnels, requestVars, job, diskVars>>

(* The process ends between any two steps, its children with it.            *)
Crash ==
    /\ daemon # "down"
    /\ daemon' = "down"
    /\ registry' = {} /\ attached' = {}
    /\ tunnels' = {} /\ forwards' = {} /\ waiters' = {} /\ reaped' = {}
    /\ aliases' = {} /\ lock' = Nobody
    /\ pc' = [r \in Requests |-> IF pc[r] = "idle" THEN "idle" ELSE "done"]
    /\ session' = [r \in Requests |-> Nobody]
    /\ linked' = [r \in Requests |-> Nobody]
    /\ job' = [x \in Closers |-> NoJob]
    /\ UNCHANGED diskVars

(* Service.AddTarget and Service.Attach.                                    *)
AddTarget(t) ==
    /\ Up
    /\ t \notin targetIDs
    /\ registry' = registry \cup {t}
    /\ targetIDs' = targetIDs \cup {t}
    /\ UNCHANGED <<daemon, attached, forwards, waiters, reaped, aliases, lock,
                   tunnels, requestVars, job, lines, forwardRow, aliasRow>>

(* Mutation: Attach does not resolve the target.                            *)
AttachUnresolved(t) ==
    /\ Up
    /\ job[Operator].at = "idle"
    /\ t \in targetIDs \ attached
    /\ attached' = attached \cup {t}
    /\ UNCHANGED <<daemon, registry, forwards, waiters, reaped, aliases, lock,
                   tunnels, requestVars, job, diskVars>>

Attach(t) ==
    /\ Up
    /\ job[Operator].at = "idle"
    /\ t \in registry \ attached
    /\ attached' = attached \cup {t}
    /\ UNCHANGED <<daemon, registry, forwards, waiters, reaped, aliases, lock,
                   tunnels, requestVars, job, diskVars>>

Daemon ==
    \/ StartDaemon \/ FinishStart \/ Crash
    \/ \E h \in Hostnames : CleanLine(h) \/ CleanRow(h)
    \/ \E t \in Targets : AddTarget(t) \/ Attach(t)

-----------------------------------------------------------------------------
(* Manager: tunnels and their rows.  Any write to disk may fail.            *)

(* Store.CloseForward: only an active row is closed.                        *)
CloseForwardRow(f, by) ==
    forwardRow' = [forwardRow EXCEPT ![f] = IF @ = "active" THEN by ELSE @]

TunnelDies(f) ==
    /\ Up
    /\ f \in tunnels
    /\ tunnels' = tunnels \ {f}
    /\ UNCHANGED <<daemon, memoryVars, requestVars, job, diskVars>>

(* Manager.wait: the process has ended, by itself or killed.                *)
WaitReturns(f) ==
    /\ Up
    /\ f \in waiters \ tunnels
    /\ waiters' = waiters \ {f}
    /\ forwards' = forwards \ {f}
    /\ reaped' = reaped \cup (forwards \cap {f})
    /\ UNCHANGED <<daemon, registry, attached, aliases, lock, tunnels,
                   requestVars, job, diskVars>>

Reap(f) ==
    /\ Up
    /\ f \in reaped
    /\ reaped' = reaped \ {f}
    /\ CloseForwardRow(f, "transport") \/ UNCHANGED forwardRow
    /\ UNCHANGED <<daemon, registry, attached, forwards, waiters, aliases,
                   lock, tunnels, requestVars, job, lines, targetIDs, aliasRow>>

-----------------------------------------------------------------------------
(* A request that adds: Session.AddForward and Session.AddHostAlias.        *)

(* The session was opened on an attached target; the request is authorized. *)
Begin(r, t) ==
    /\ At(r, "idle")
    /\ t \in attached
    /\ session' = [session EXCEPT ![r] = t]
    /\ Goto(r, "authorized")
    /\ UNCHANGED <<daemon, memoryVars, tunnels, linked, job, diskVars>>

(* A host_add uses a forward the target already has for the port.           *)
Candidates(r) ==
    {f \in forwards : KindOf[r] = "host_add" /\ session[f] = session[r]
                         /\ PortOf[f] = PortOf[r]}

UseForward(r) ==
    /\ At(r, "authorized")
    /\ \E f \in Candidates(r) : linked' = [linked EXCEPT ![r] = f]
    /\ Goto(r, "alias")
    /\ UNCHANGED <<daemon, memoryVars, tunnels, session, job, diskVars>>

(* Manager.Add: ResolveBackend, ...                                         *)
ResolveBackend(r) ==
    /\ At(r, "authorized")
    /\ Candidates(r) = {}
    /\ Goto(r, IF session[r] \in registry THEN "resolved" ELSE "failed")
    /\ UNCHANGED <<daemon, memoryVars, tunnels, session, linked, job, diskVars>>

(* ... OpenForward on the backend resolved, tried three times, ...          *)
OpenForward(r) ==
    /\ At(r, "resolved")
    /\ \/ tunnels' = tunnels \cup {r} /\ Goto(r, "opened")
       \/ UNCHANGED tunnels /\ Goto(r, "failed")
    /\ UNCHANGED <<daemon, memoryVars, session, linked, job, diskVars>>

(* Mutation: a row that cannot be saved leaves the tunnel open.             *)
SaveForwardLeaking(r) ==
    /\ At(r, "opened")
    /\ \/ /\ forwardRow' = [forwardRow EXCEPT ![r] = "active"]
          /\ Goto(r, "saved")
       \/ UNCHANGED forwardRow /\ Goto(r, "failed")
    /\ UNCHANGED <<daemon, memoryVars, tunnels, session, linked, job, lines,
                   targetIDs, aliasRow>>

(* ... SaveForward, whose failure closes the handle, ...                    *)
SaveForward(r) ==
    /\ At(r, "opened")
    /\ \/ /\ forwardRow' = [forwardRow EXCEPT ![r] = "active"]
          /\ UNCHANGED tunnels
          /\ Goto(r, "saved")
       \/ /\ tunnels' = tunnels \ {r}
          /\ UNCHANGED forwardRow
          /\ Goto(r, "failed")
    /\ UNCHANGED <<daemon, memoryVars, session, linked, job, lines, targetIDs,
                   aliasRow>>

(* Mutation: nobody waits for the process.                                  *)
RegisterUnwatched(r) ==
    /\ At(r, "saved")
    /\ forwards' = forwards \cup {r}
    /\ linked' = [linked EXCEPT ![r] = r]
    /\ Goto(r, IF KindOf[r] = "host_add" THEN "alias" ELSE "done")
    /\ UNCHANGED <<daemon, registry, attached, waiters, reaped, aliases, lock,
                   tunnels, session, job, diskVars>>

(* ... and the entry in the map with its wait goroutine.                    *)
Register(r) ==
    /\ At(r, "saved")
    /\ forwards' = forwards \cup {r}
    /\ waiters' = waiters \cup {r}
    /\ linked' = [linked EXCEPT ![r] = r]
    /\ Goto(r, IF KindOf[r] = "host_add" THEN "alias" ELSE "done")
    /\ UNCHANGED <<daemon, registry, attached, reaped, aliases, lock, tunnels,
                   session, job, diskVars>>

(* AliasManager.Add: the linked forward must be in the list, ...            *)
CheckForward(r) ==
    /\ At(r, "alias")
    /\ Goto(r, IF linked[r] \in forwards THEN "checked" ELSE "rollback")
    /\ UNCHANGED <<daemon, memoryVars, tunnels, session, linked, job, diskVars>>

(* ... then, under the mutex, the hostname must be free in the map and in   *)
(* the file, which gets a line, ...                                         *)
(* Mutation: only the map is asked, not the file.                           *)
NameManaged(h) == h \in Foreign \/ \E a \in aliases : NameOf[a] = h

NameTaken(h) ==
    h \in Foreign \/ \E a \in aliases \cup lines : NameOf[a] = h

AddLine(r) ==
    /\ At(r, "checked")
    /\ lock = Nobody
    /\ \/ /\ ~NameTaken(NameOf[r])
          /\ lines' = lines \cup {r}
          /\ lock' = r
          /\ Goto(r, "lined")
       \/ UNCHANGED <<lines, lock>> /\ Goto(r, "rollback")
    /\ UNCHANGED <<daemon, registry, attached, forwards, waiters, reaped,
                   aliases, tunnels, session, linked, job, targetIDs,
                   forwardRow, aliasRow>>

(* ... and SaveHostAlias inserts the row or takes over a removed one.  When *)
(* it fails the line is removed again, if it can be.                        *)
SaveAlias(r) ==
    /\ At(r, "lined")
    /\ \/ /\ aliasRow' = [aliasRow EXCEPT ![NameOf[r]] =
                            IF @.active THEN @
                            ELSE [marker |-> r, active |-> TRUE]]
          /\ aliases' = aliases \cup {r}
          /\ UNCHANGED lines
          /\ Goto(r, "done")
       \/ /\ lines' \in {lines, lines \ {r}}
          /\ UNCHANGED <<aliasRow, aliases>>
          /\ Goto(r, "rollback")
    /\ lock' = Nobody
    /\ UNCHANGED <<daemon, registry, attached, forwards, waiters, reaped,
                   tunnels, session, linked, job, targetIDs, forwardRow>>

(* A host_add that fails closes the forward it made: Manager.Close.         *)
Rollback(r) ==
    /\ At(r, "rollback")
    /\ LET made == forwards \cap ({r} \cap {linked[r]})
       IN  /\ forwards' = forwards \ made
           /\ Goto(r, IF made = {} THEN "failed" ELSE "closing")
    /\ UNCHANGED <<daemon, registry, attached, waiters, reaped, aliases, lock,
                   tunnels, session, linked, job, diskVars>>

CloseMade(r) ==
    /\ At(r, "closing")
    /\ tunnels' = tunnels \ {r}
    /\ CloseForwardRow(r, "alias-rollback") \/ UNCHANGED forwardRow
    /\ Goto(r, "failed")
    /\ UNCHANGED <<daemon, memoryVars, session, linked, job, lines, targetIDs,
                   aliasRow>>

Request(r) ==
    \/ UseForward(r) \/ ResolveBackend(r) \/ OpenForward(r) \/ SaveForward(r)
    \/ Register(r) \/ CheckForward(r) \/ AddLine(r) \/ SaveAlias(r)
    \/ Rollback(r) \/ CloseMade(r)

-----------------------------------------------------------------------------
(* Closers: DetachTarget, RemoveForward and RemoveHostAlias.  Each works on *)
(* a list it took without keeping the mutex.                                *)

Idle(x) == Up /\ job[x].at = "idle"
Doing(x, step) == Up /\ job[x].at = step

NamesLinked(t, fs) ==
    {NameOf[a] : a \in {b \in aliases : session[b] = t /\ linked[b] \in fs}}

StartJob(x, kind, t, names, ids) ==
    job' = [job EXCEPT ![x] =
              [at |-> "aliases", kind |-> kind, target |-> t, names |-> names,
               ids |-> ids, alias |-> Nobody, forward |-> Nobody,
               failed |-> FALSE]]

(* DetachTarget: attachments are deleted, then Aliases.CloseTarget lists.   *)
Detach(t) ==
    /\ Idle(Operator)
    /\ lock = Nobody
    /\ t \in registry
    /\ attached' = attached \ {t}
    /\ StartJob(Operator, "detach", t, NamesLinked(t, Requests), {})
    /\ UNCHANGED <<daemon, registry, forwards, waiters, reaped, aliases, lock,
                   tunnels, requestVars, diskVars>>

(* Session.RemoveForward: Aliases.CloseForward, then Forwards.Close.        *)
RemoveForward(x, t, f) ==
    /\ Idle(x)
    /\ lock = Nobody
    /\ t \in attached
    /\ forwardRow[f] # "none"
    /\ StartJob(x, "forward", t, NamesLinked(t, {f}), {f})
    /\ UNCHANGED <<daemon, memoryVars, tunnels, requestVars, diskVars>>

(* Session.RemoveHostAlias.                                                 *)
RemoveHost(x, t, h) ==
    /\ Idle(x)
    /\ t \in attached
    /\ StartJob(x, "host", t, {h}, {})
    /\ UNCHANGED <<daemon, memoryVars, tunnels, requestVars, diskVars>>

(* AliasManager.Remove, by hostname: the line first, ...                    *)
RemoveLine(x) ==
    /\ Doing(x, "aliases")
    /\ lock = Nobody
    /\ \E h \in job[x].names :
          \/ \E a \in aliases :
                /\ NameOf[a] = h
                /\ session[a] = job[x].target
                /\ lines' = lines \ {a}
                /\ lock' = x
                /\ job' = [job EXCEPT ![x] =
                             [@ EXCEPT !.at = "row", !.alias = a,
                                       !.names = job[x].names \ {h}]]
          \/ /\ job' = [job EXCEPT ![x] =
                          [@ EXCEPT !.failed = TRUE,
                                    !.names = job[x].names \ {h}]]
             /\ UNCHANGED <<lines, lock>>
    /\ UNCHANGED <<daemon, registry, attached, forwards, waiters, reaped,
                   aliases, tunnels, requestVars, targetIDs, forwardRow,
                   aliasRow>>

(* Mutation: the entry goes whatever becomes of the row.                    *)
RemoveRowAnyway(x) ==
    /\ Doing(x, "row")
    /\ LET a == job[x].alias
       IN  /\ aliasRow' \in {aliasRow,
                             [aliasRow EXCEPT ![NameOf[a]].active = FALSE]}
           /\ aliases' = aliases \ {a}
    /\ job' = [job EXCEPT ![x] = [@ EXCEPT !.at = "aliases", !.alias = Nobody]]
    /\ lock' = Nobody
    /\ UNCHANGED <<daemon, registry, attached, forwards, waiters, reaped,
                   tunnels, requestVars, lines, targetIDs, forwardRow>>

(* Mutation: the mutex stays locked when the row cannot be written.         *)
RemoveRowLocked(x) ==
    /\ Doing(x, "row")
    /\ LET a == job[x].alias
       IN  \/ /\ aliasRow' = [aliasRow EXCEPT ![NameOf[a]].active = FALSE]
              /\ aliases' = aliases \ {a}
              /\ lock' = Nobody
           \/ UNCHANGED <<aliasRow, aliases, lock>>
    /\ job' = [job EXCEPT ![x] = [@ EXCEPT !.at = "aliases", !.alias = Nobody]]
    /\ UNCHANGED <<daemon, registry, attached, forwards, waiters, reaped,
                   tunnels, requestVars, lines, targetIDs, forwardRow>>

(* ... then the row, then the entry; an error keeps both.                   *)
RemoveRow(x) ==
    /\ Doing(x, "row")
    /\ LET a == job[x].alias
       IN  \/ /\ aliasRow' = [aliasRow EXCEPT ![NameOf[a]].active = FALSE]
              /\ aliases' = aliases \ {a}
              /\ job' = [job EXCEPT ![x] =
                           [@ EXCEPT !.at = "aliases", !.alias = Nobody]]
           \/ /\ UNCHANGED <<aliasRow, aliases>>
              /\ job' = [job EXCEPT ![x] =
                           [@ EXCEPT !.at = "aliases", !.alias = Nobody,
                                     !.failed = TRUE]]
    /\ lock' = Nobody
    /\ UNCHANGED <<daemon, registry, attached, forwards, waiters, reaped,
                   tunnels, requestVars, lines, targetIDs, forwardRow>>

(* An error with an alias ends the job before any forward is closed; a      *)
(* detach then lists the forwards of its target.                            *)
EndAliases(x) ==
    /\ Doing(x, "aliases")
    /\ job[x].names = {}
    /\ job' = [job EXCEPT ![x] =
                 IF @.failed \/ @.kind = "host" THEN NoJob
                 ELSE [@ EXCEPT !.at = "forwards", !.ids =
                         IF job[x].kind = "forward" THEN job[x].ids
                         ELSE {f \in forwards : session[f] = job[x].target}]]
    /\ UNCHANGED <<daemon, memoryVars, tunnels, requestVars, diskVars>>

(* Manager.Close: the entry leaves the map under the mutex, ...             *)
TakeForward(x) ==
    /\ Doing(x, "forwards")
    /\ \E f \in job[x].ids :
          \/ /\ f \in forwards /\ session[f] = job[x].target
             /\ forwards' = forwards \ {f}
             /\ job' = [job EXCEPT ![x] =
                          [@ EXCEPT !.at = "handle", !.forward = f,
                                    !.ids = job[x].ids \ {f}]]
          \/ /\ f \notin forwards \/ session[f] # job[x].target
             /\ job' = [job EXCEPT ![x] =
                          [@ EXCEPT !.failed = TRUE,
                                    !.ids = job[x].ids \ {f}]]
             /\ UNCHANGED forwards
    /\ UNCHANGED <<daemon, registry, attached, waiters, reaped, aliases, lock,
                   tunnels, requestVars, diskVars>>

(* ... then the process is killed and the row closed.                       *)
CloseTaken(x) ==
    /\ Doing(x, "handle")
    /\ tunnels' = tunnels \ {job[x].forward}
    /\ \/ /\ CloseForwardRow(job[x].forward, job[x].kind)
          /\ job' = [job EXCEPT ![x] =
                       [@ EXCEPT !.at = "forwards", !.forward = Nobody]]
       \/ /\ UNCHANGED forwardRow
          /\ job' = [job EXCEPT ![x] =
                       [@ EXCEPT !.at = "forwards", !.forward = Nobody,
                                 !.failed = TRUE]]
    /\ UNCHANGED <<daemon, memoryVars, requestVars, lines, targetIDs, aliasRow>>

(* A detach without errors goes on to Targets.Remove.                       *)
EndForwards(x) ==
    /\ Doing(x, "forwards")
    /\ job[x].ids = {}
    /\ registry' = IF job[x].kind = "detach" /\ ~job[x].failed
                     THEN registry \ {job[x].target} ELSE registry
    /\ job' = [job EXCEPT ![x] = NoJob]
    /\ UNCHANGED <<daemon, attached, forwards, waiters, reaped, aliases, lock,
                   tunnels, requestVars, diskVars>>

Closing(x) ==
    \/ RemoveLine(x) \/ RemoveRow(x) \/ EndAliases(x)
    \/ TakeForward(x) \/ CloseTaken(x) \/ EndForwards(x)

-----------------------------------------------------------------------------
Next ==
    \/ Daemon
    \/ \E r \in Requests :
          \/ TunnelDies(r) \/ WaitReturns(r) \/ Reap(r) \/ Request(r)
          \/ \E t \in Targets : Begin(r, t)
    \/ \E t \in Targets :
          \/ Detach(t)
          \/ \E x \in Removers :
                \/ \E f \in Requests : RemoveForward(x, t, f)
                \/ \E h \in Hostnames : RemoveHost(x, t, h)
    \/ \E x \in Closers : Closing(x)

Spec == Init /\ [][Next]_vars

(* Every goroutine that can go on does, and a Go mutex starves no one; what *)
(* agents, the operator, the tunnels and the process do is up to them.      *)
FairSpec ==
    /\ Spec
    /\ WF_vars(FinishStart \/ \E h \in Hostnames : CleanLine(h) \/ CleanRow(h))
    /\ \A r \in Requests : /\ SF_vars(Request(r))
                           /\ WF_vars(WaitReturns(r)) /\ WF_vars(Reap(r))
    /\ \A x \in Closers : SF_vars(Closing(x))

-----------------------------------------------------------------------------
Steps == {"idle", "authorized", "resolved", "opened", "saved", "alias",
          "checked", "lined", "rollback", "closing", "done", "failed"}

Jobs == [at : {"idle", "aliases", "row", "forwards", "handle"},
         kind : {"none", "detach", "forward", "host"},
         target : Targets \cup {Nobody},
         names : SUBSET Hostnames, ids : SUBSET Requests,
         alias : Requests \cup {Nobody}, forward : Requests \cup {Nobody},
         failed : BOOLEAN]
AliasRows == [marker : Requests \cup {Nobody}, active : BOOLEAN]

(* Every variable has a value of its kind.                                  *)
TypeOK ==
    /\ daemon \in {"down", "starting", "up"}
    /\ registry \subseteq targetIDs /\ attached \subseteq registry
    /\ targetIDs \subseteq Targets
    /\ tunnels \subseteq Requests /\ forwards \subseteq Requests
    /\ waiters \subseteq Requests /\ reaped \subseteq Requests
    /\ aliases \subseteq Requests /\ lines \subseteq Requests
    /\ lock \in Requests \cup Closers \cup {Nobody}
    /\ pc \in [Requests -> Steps]
    /\ session \in [Requests -> Targets \cup {Nobody}]
    /\ linked \in [Requests -> Requests \cup {Nobody}]
    /\ job \in [Closers -> Jobs]
    /\ forwardRow \in [Requests -> {"none", "active", "transport", "detach",
                                    "forward", "alias-rollback",
                                    "daemon-restart"}]
    /\ aliasRow \in [Hostnames -> AliasRows]

(* The rows of the store and the map of the alias manager say the same: an  *)
(* alias in memory is the one its row names, so that a daemon killed at any *)
(* point finds at its next start the exact line it has to remove.           *)
RowsMirrorAliases ==
    Up => /\ \A a \in aliases : aliasRow[NameOf[a]] = [marker |-> a, active |-> TRUE]
          /\ \A h \in Hostnames : aliasRow[h].active => aliasRow[h].marker \in aliases

(* Gate never gives a hostname two lines, nor one beside a foreign line,    *)
(* whatever lines failures and kills have left behind.                      *)
OneLinePerName ==
    \A a \in lines :
        /\ NameOf[a] \notin Foreign
        /\ \A b \in lines : NameOf[a] = NameOf[b] => a = b

(* No tunnel is out of reach: each is in the map, or in the hands of the    *)
(* one goroutine that is about to enter it there or to kill it.             *)
TunnelsOwned ==
    \A f \in tunnels :
        \/ f \in forwards
        \/ pc[f] \in {"opened", "saved", "closing"}
        \/ \E x \in Closers : job[x].forward = f

(* Who closed a forward is said once: the death of the process that a close *)
(* causes, or a later close, never changes it.                              *)
ClosedOnce ==
    [][\A f \in Requests :
          forwardRow[f] \notin {"none", "active"} =>
              forwardRow'[f] = forwardRow[f]]_forwardRow

(* A detach, or a removal, comes to its end however often the mutex is      *)
(* taken by others and whatever is closed meanwhile.                        *)
JobsEnd == \A x \in Closers : job[x].at # "idle" ~> job[x].at = "idle"

(* A forward whose process has died is not listed for ever.                 *)
DeadForwardsLeave ==
    \A f \in Requests : f \in forwards \ tunnels ~> f \notin forwards

-----------------------------------------------------------------------------
(* What the repository says and the code does not do.                       *)

Quiet ==
    /\ Up
    /\ reaped = {}
    /\ \A r \in Requests : pc[r] \in {"idle", "done", "failed"}
    /\ \A x \in Closers : job[x].at = "idle"

(* PLAN.md on forwards: "forwards are closed when the target detaches".     *)
DetachClosesForwards == Quiet => \A f \in forwards : session[f] \in registry
=============================================================================
