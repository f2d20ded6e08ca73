--------------------------- MODULE ForwardingProofs ---------------------------
(***************************************************************************)
(* Proofs about Forwarding for any number of requests, removers, targets   *)
(* and hostnames, with every failed write and a kill between any two steps.*)
(***************************************************************************)
EXTENDS Forwarding, TLAPS

(***************************************************************************)
(* The inductive invariant, in parts.                                      *)
(***************************************************************************)

(* A process that does not serve holds nothing in memory.                   *)
DownIsEmpty ==
    daemon # "up" =>
        /\ registry = {} /\ attached = {} /\ tunnels = {} /\ forwards = {}
        /\ waiters = {} /\ reaped = {} /\ aliases = {}
        /\ \A r \in Requests : pc[r] \in {"idle", "done"}
        /\ \A x \in Closers : job[x] = NoJob

(* What a closer has in hand, by the step it is at.                         *)
JobShape ==
    \A x \in Closers :
        /\ job[x].at = "idle" => job[x] = NoJob
        /\ job[x].at # "idle" => job[x].kind # "none"
        /\ job[x].at # "handle" => job[x].forward = Nobody
        /\ job[x].at = "row" => job[x].alias \in aliases
        /\ job[x].at \in {"forwards", "handle"} =>
               job[x].kind \in {"detach", "forward"}
        /\ job[x].kind = "detach" =>
               x = Operator /\ job[x].target \notin attached

(* AliasManager.mu is held between the line and the row, and only there.    *)
MutexHeld ==
    /\ \A r \in Requests : pc[r] = "lined" <=> lock = r
    /\ \A x \in Closers : job[x].at = "row" <=> lock = x

(* The request that has just written its line is the first of its name.     *)
NameReserved ==
    \A r \in Requests : pc[r] = "lined" =>
        \A a \in aliases : NameOf[a] # NameOf[r]

(* An active row stands under the hostname of the request it names.         *)
RowsNamed ==
    \A h \in Hostnames : aliasRow[h].active =>
        aliasRow[h].marker \in Requests /\ NameOf[aliasRow[h].marker] = h

(* A request that has not saved its forward has no row of it.               *)
RowlessBefore ==
    \A r \in Requests :
        pc[r] \in {"idle", "authorized", "resolved", "opened"} =>
            forwardRow[r] = "none"

IInv ==
    /\ TypeOK /\ DownIsEmpty /\ JobShape /\ MutexHeld /\ NameReserved
    /\ RowsNamed /\ RowlessBefore
    /\ RowsMirrorAliases /\ OneLinePerName /\ TunnelsOwned

-----------------------------------------------------------------------------
(***************************************************************************)
(* The initial states satisfy every part.                                  *)
(***************************************************************************)
LEMMA InitIInv == Init => IInv
<1> SUFFICES ASSUME Init PROVE IInv
  OBVIOUS
<1>1. TypeOK
  BY ForwardingAssumption DEF Init, TypeOK, Steps, NoJob, NoRow, Jobs, AliasRows
<1>2. DownIsEmpty /\ JobShape /\ NameReserved /\ RowlessBefore
  BY DEF Init, DownIsEmpty, JobShape, NameReserved, RowlessBefore, NoJob
<1>3. MutexHeld
  BY ForwardingAssumption DEF Init, MutexHeld, NoJob
<1>4. RowsNamed /\ RowsMirrorAliases /\ OneLinePerName /\ TunnelsOwned
  BY DEF Init, RowsNamed, RowsMirrorAliases, OneLinePerName, TunnelsOwned,
         Up, NoRow
<1> QED
  BY <1>1, <1>2, <1>3, <1>4 DEF IInv

(***************************************************************************)
(* Type correctness.  A detach keeps its target out of attached until it   *)
(* removes the target from the registry: attached \subseteq registry needs *)
(* JobShape.                                                               *)
(***************************************************************************)
LEMMA DaemonTypeOK == TypeOK /\ Daemon => TypeOK'
<1> SUFFICES ASSUME TypeOK, Daemon PROVE TypeOK'
  OBVIOUS
<1> USE DEF TypeOK, memoryVars, requestVars, diskVars
<1>1. CASE StartDaemon
  BY <1>1 DEF StartDaemon
<1>2. CASE FinishStart
  BY <1>2 DEF FinishStart
<1>3. CASE Crash
  BY <1>3 DEF Crash, Steps, NoJob, Jobs
<1>4. ASSUME NEW h \in Hostnames, CleanLine(h) PROVE TypeOK'
  BY <1>4 DEF CleanLine
<1>5. ASSUME NEW h \in Hostnames, CleanRow(h) PROVE TypeOK'
  BY <1>5 DEF CleanRow, AliasRows
<1>6. ASSUME NEW t \in Targets, AddTarget(t) PROVE TypeOK'
  BY <1>6 DEF AddTarget
<1>7. ASSUME NEW t \in Targets, Attach(t) PROVE TypeOK'
  BY <1>7 DEF Attach
<1> QED
  BY <1>1, <1>2, <1>3, <1>4, <1>5, <1>6, <1>7 DEF Daemon

(* SaveHostAlias leaves a row of its kind under the hostname.               *)
LEMMA SaveAliasType ==
    ASSUME TypeOK, NEW r \in Requests, SaveAlias(r)
    PROVE  aliasRow' \in [Hostnames -> AliasRows]
<1>1. aliasRow \in [Hostnames -> AliasRows] /\ NameOf[r] \in Hostnames
  BY ForwardingAssumption DEF TypeOK
<1>2. [marker |-> r, active |-> TRUE] \in AliasRows
  BY DEF AliasRows
<1> QED
  BY <1>1, <1>2 DEF SaveAlias

LEMMA RequestTypeOK ==
    ASSUME TypeOK, NEW r \in Requests,
           \/ TunnelDies(r) \/ WaitReturns(r) \/ Reap(r) \/ Request(r)
           \/ \E t \in Targets : Begin(r, t)
    PROVE  TypeOK'
<1> USE DEF TypeOK, memoryVars, requestVars, diskVars, At, Goto, Steps,
            CloseForwardRow
<1>1. CASE TunnelDies(r)
  BY <1>1 DEF TunnelDies
<1>2. CASE WaitReturns(r)
  BY <1>2 DEF WaitReturns
<1>3. CASE Reap(r)
  BY <1>3 DEF Reap
<1>4. ASSUME NEW t \in Targets, Begin(r, t) PROVE TypeOK'
  BY <1>4 DEF Begin
<1>5. CASE UseForward(r)
  BY <1>5 DEF UseForward, Candidates
<1>6. CASE ResolveBackend(r)
  BY <1>6 DEF ResolveBackend
<1>7. CASE OpenForward(r)
  BY <1>7 DEF OpenForward
<1>8. CASE SaveForward(r)
  BY <1>8 DEF SaveForward
<1>9. CASE Register(r)
  BY <1>9 DEF Register
<1>10. CASE CheckForward(r)
  BY <1>10 DEF CheckForward
<1>11. CASE AddLine(r)
  BY <1>11 DEF AddLine
<1>12. CASE SaveAlias(r)
  BY <1>12, SaveAliasType DEF SaveAlias
<1>13. CASE Rollback(r)
  BY <1>13 DEF Rollback
<1>14. CASE CloseMade(r)
  BY <1>14 DEF CloseMade
<1> QED
  BY <1>1, <1>2, <1>3, <1>4, <1>5, <1>6, <1>7, <1>8, <1>9, <1>10, <1>11,
     <1>12, <1>13, <1>14 DEF Request

(* What the steps of a closer make of its job is a job.                     *)
LEMMA JobUpdates ==
    ASSUME NEW j \in Jobs, NEW r \in Requests \cup {Nobody},
           NEW names, NEW ids \in SUBSET Requests
    PROVE  /\ [j EXCEPT !.at = "row", !.alias = r,
                        !.names = j.names \ names] \in Jobs
           /\ [j EXCEPT !.failed = TRUE, !.names = j.names \ names] \in Jobs
           /\ [j EXCEPT !.at = "aliases", !.alias = r] \in Jobs
           /\ [j EXCEPT !.at = "aliases", !.alias = r, !.failed = TRUE] \in Jobs
           /\ [j EXCEPT !.at = "forwards", !.ids = ids] \in Jobs
           /\ [j EXCEPT !.at = "handle", !.forward = r, !.ids = ids] \in Jobs
           /\ [j EXCEPT !.failed = TRUE, !.ids = ids] \in Jobs
           /\ [j EXCEPT !.at = "forwards", !.forward = r] \in Jobs
           /\ [j EXCEPT !.at = "forwards", !.forward = r,
                        !.failed = TRUE] \in Jobs
           /\ j.ids \in SUBSET Requests
           /\ NoJob \in Jobs
BY DEF Jobs, NoJob

(* A closer writes its own job only.                                        *)
LEMMA ClosingJob ==
    ASSUME TypeOK, NEW x \in Closers, Closing(x)
    PROVE  \E e \in Jobs : job' = [job EXCEPT ![x] = e]
<1>1. job[x] \in Jobs
  BY DEF TypeOK
<1>2. aliases \subseteq Requests /\ forwards \subseteq Requests
  BY DEF TypeOK
<1>3. CASE RemoveLine(x)
  BY <1>1, <1>2, <1>3, JobUpdates, Zenon DEF RemoveLine
<1>4. CASE RemoveRow(x)
  BY <1>1, <1>4, JobUpdates, Zenon DEF RemoveRow
<1>5. CASE EndAliases(x)
  <2> DEFINE ids == IF job[x].kind = "forward" THEN job[x].ids
                    ELSE {f \in forwards : session[f] = job[x].target}
  <2>1. ids \in SUBSET Requests
    BY <1>1, <1>2, JobUpdates
  <2>2. [job[x] EXCEPT !.at = "forwards", !.ids = ids] \in Jobs
    BY <1>1, <2>1, JobUpdates
  <2> QED
    BY <1>1, <1>5, <2>2, JobUpdates DEF EndAliases
<1>6. CASE TakeForward(x)
  BY <1>1, <1>2, <1>6, JobUpdates, Zenon DEF TakeForward
<1>7. CASE CloseTaken(x)
  BY <1>1, <1>7, JobUpdates, Zenon DEF CloseTaken
<1>8. CASE EndForwards(x)
  BY <1>1, <1>8, JobUpdates DEF EndForwards
<1> QED
  BY <1>3, <1>4, <1>5, <1>6, <1>7, <1>8 DEF Closing

(* A job is begun with a list of hostnames and a list of forwards.          *)
LEMMA NamesLinkedType ==
    ASSUME TypeOK, NEW t, NEW fs
    PROVE  NamesLinked(t, fs) \in SUBSET Hostnames
BY ForwardingAssumption DEF TypeOK, NamesLinked

LEMMA StartingJob ==
    ASSUME TypeOK, NEW t \in Targets, NEW x \in Closers,
           NEW kind \in {"detach", "forward", "host"},
           NEW names \in SUBSET Hostnames, NEW ids \in SUBSET Requests,
           StartJob(x, kind, t, names, ids)
    PROVE  \E e \in Jobs : job' = [job EXCEPT ![x] = e]
<1> DEFINE e == [at |-> "aliases", kind |-> kind, target |-> t,
                 names |-> names, ids |-> ids, alias |-> Nobody,
                 forward |-> Nobody, failed |-> FALSE]
<1>1. e \in Jobs
  BY DEF Jobs
<1> QED
  BY <1>1 DEF StartJob

LEMMA JobsType ==
    ASSUME TypeOK, NEW x \in Closers,
           \E e \in Jobs : job' = [job EXCEPT ![x] = e]
    PROVE  job' \in [Closers -> Jobs]
BY DEF TypeOK

LEMMA StartingTypeOK ==
    ASSUME TypeOK, NEW t \in Targets,
           \/ Detach(t)
           \/ \E x \in Removers :
                 \/ \E f \in Requests : RemoveForward(x, t, f)
                 \/ \E h \in Hostnames : RemoveHost(x, t, h)
    PROVE  TypeOK'
<1>1. CASE Detach(t)
  <2>1. job' \in [Closers -> Jobs]
    <3>1. NamesLinked(t, Requests) \in SUBSET Hostnames
      BY NamesLinkedType
    <3>2. StartJob(Operator, "detach", t, NamesLinked(t, Requests), {})
      BY <1>1 DEF Detach
    <3>3. Operator \in Closers /\ {} \in SUBSET Requests
      BY DEF Closers
    <3> QED
      BY <3>1, <3>2, <3>3, StartingJob, JobsType
  <2> QED
    BY <1>1, <2>1 DEF TypeOK, Detach, memoryVars, requestVars, diskVars
<1>2. ASSUME NEW x \in Removers, NEW f \in Requests, RemoveForward(x, t, f)
      PROVE  TypeOK'
  <2>1. job' \in [Closers -> Jobs]
    <3>1. NamesLinked(t, {f}) \in SUBSET Hostnames
      BY NamesLinkedType
    <3>2. StartJob(x, "forward", t, NamesLinked(t, {f}), {f})
      BY <1>2 DEF RemoveForward
    <3>3. x \in Closers /\ {f} \in SUBSET Requests
      BY DEF Closers
    <3> QED
      BY <3>1, <3>2, <3>3, StartingJob, JobsType
  <2> QED
    BY <1>2, <2>1 DEF TypeOK, RemoveForward, memoryVars, requestVars, diskVars
<1>3. ASSUME NEW x \in Removers, NEW h \in Hostnames, RemoveHost(x, t, h)
      PROVE  TypeOK'
  <2>1. job' \in [Closers -> Jobs]
    BY <1>3, StartingJob, JobsType DEF RemoveHost, Closers
  <2> QED
    BY <1>3, <2>1 DEF TypeOK, RemoveHost, memoryVars, requestVars, diskVars
<1> QED
  BY <1>1, <1>2, <1>3

LEMMA ClosingTypeOK ==
    ASSUME TypeOK, JobShape, NEW x \in Closers, Closing(x)
    PROVE  TypeOK'
<1>1. job' \in [Closers -> Jobs]
  BY ClosingJob, JobsType
<1> USE DEF memoryVars, requestVars, diskVars, Doing, CloseForwardRow
<1>2. CASE RemoveLine(x)
  BY <1>1, <1>2 DEF TypeOK, RemoveLine
<1>3. CASE RemoveRow(x)
  <2>1. aliasRow \in [Hostnames -> AliasRows]
    BY DEF TypeOK
  <2>2. NameOf[job[x].alias] \in Hostnames
    BY <1>3, ForwardingAssumption DEF TypeOK, RemoveRow, JobShape
  <2>3. aliasRow' \in [Hostnames -> AliasRows]
    BY <1>3, <2>1, <2>2, ZenonT(60) DEF RemoveRow, AliasRows
  <2> QED
    BY <1>1, <1>3, <2>3 DEF TypeOK, RemoveRow
<1>4. CASE EndAliases(x)
  BY <1>1, <1>4 DEF TypeOK, EndAliases
<1>5. CASE TakeForward(x)
  BY <1>1, <1>5 DEF TypeOK, TakeForward
<1>6. CASE CloseTaken(x)
  <2>1. job[x].kind \in {"detach", "forward"}
    BY <1>6 DEF CloseTaken, JobShape
  <2> QED
    BY <1>1, <1>6, <2>1 DEF TypeOK, CloseTaken
<1>7. CASE EndForwards(x)
  <2>1. attached \subseteq registry'
    BY <1>7 DEF TypeOK, EndForwards, JobShape
  <2> QED
    BY <1>1, <1>7, <2>1 DEF TypeOK, EndForwards
<1> QED
  BY <1>2, <1>3, <1>4, <1>5, <1>6, <1>7 DEF Closing

LEMMA NextTypeOK == TypeOK /\ JobShape /\ [Next]_vars => TypeOK'
<1> SUFFICES ASSUME TypeOK, JobShape, [Next]_vars PROVE TypeOK'
  OBVIOUS
<1>1. CASE Next
  BY <1>1, DaemonTypeOK, RequestTypeOK, StartingTypeOK, ClosingTypeOK DEF Next
<1>2. CASE UNCHANGED vars
  BY <1>2 DEF TypeOK, vars, memoryVars, requestVars, diskVars
<1> QED
  BY <1>1, <1>2
(***************************************************************************)
(* The other parts, each with the steps that write what it speaks of.      *)
(***************************************************************************)

(* Only Begin enters the steps before the row, from one of them, and only   *)
(* SaveForward makes a row, leaving them.                                   *)
LEMMA NextRowlessBefore ==
    TypeOK /\ RowlessBefore /\ [Next]_vars => RowlessBefore'
<1> SUFFICES ASSUME TypeOK, RowlessBefore, [Next]_vars PROVE RowlessBefore'
  OBVIOUS
<1>0. /\ pc \in [Requests -> Steps]
      /\ forwardRow \in [Requests -> {"none", "active", "transport", "detach",
                                     "forward", "alias-rollback",
                                     "daemon-restart"}]
  BY DEF TypeOK
<1> USE <1>0 DEF RowlessBefore, At, Goto, CloseForwardRow
<1>1. CASE UNCHANGED <<pc, forwardRow>>
  BY <1>1
<1>2. CASE StartDaemon \/ Crash
  BY <1>2 DEF StartDaemon, Crash, requestVars, diskVars
<1>3. ASSUME NEW r \in Requests,
             Reap(r) \/ Request(r) \/ \E t \in Targets : Begin(r, t)
      PROVE  RowlessBefore'
  <2>1. ASSUME NEW s \in Steps, Goto(r, s), UNCHANGED forwardRow,
               s \notin {"idle", "authorized", "resolved", "opened"}
        PROVE  RowlessBefore'
    BY <2>1
  <2>2. CASE Reap(r) \/ CloseMade(r)
    BY <2>2 DEF Reap, CloseMade, requestVars, Steps
  <2>3. CASE (\E t \in Targets : Begin(r, t)) \/ OpenForward(r)
    BY <2>3 DEF Begin, OpenForward, diskVars, Steps
  <2>4. CASE SaveForward(r)
    BY <2>4 DEF SaveForward, Steps
  <2>5. CASE ResolveBackend(r)
    BY <2>5 DEF ResolveBackend, diskVars, Steps
  <2> QED
    BY <1>3, <2>1, <2>2, <2>3, <2>4, <2>5
    DEF Request, UseForward, Register, CheckForward, AddLine, SaveAlias,
        Rollback, diskVars, Steps
<1>4. ASSUME NEW x \in Closers, CloseTaken(x) PROVE RowlessBefore'
  BY <1>4 DEF CloseTaken, requestVars
<1> QED
  BY <1>1, <1>2, <1>3, <1>4 DEF Next, vars, Daemon, Closing, requestVars,
     diskVars, FinishStart, CleanLine, CleanRow, AddTarget, Attach, TunnelDies,
     WaitReturns, Detach, RemoveForward, RemoveHost, RemoveLine, RemoveRow,
     EndAliases, TakeForward, EndForwards

(* Outside of the four steps that take or give AliasManager.mu, and of the  *)
(* end of the process, the mutex, the map of aliases and whoever holds the  *)
(* mutex stay as they are.                                                  *)
MutexQuiet ==
    /\ UNCHANGED <<lock, aliases>>
    /\ \A r \in Requests : pc'[r] = "lined" <=> pc[r] = "lined"
    /\ \A x \in Closers :
          /\ job'[x].at = "row" <=> job[x].at = "row"
          /\ job'[x].at = "row" => job'[x].alias = job[x].alias

LEMMA MutexSteps ==
    TypeOK /\ DownIsEmpty /\ [Next]_vars =>
        \/ MutexQuiet \/ Crash
        \/ \E r \in Requests : AddLine(r) \/ SaveAlias(r)
        \/ \E x \in Closers : RemoveLine(x) \/ RemoveRow(x)
<1> SUFFICES ASSUME TypeOK, DownIsEmpty, [Next]_vars,
                    ~Crash,
                    \A r \in Requests : ~AddLine(r) /\ ~SaveAlias(r),
                    \A x \in Closers : ~RemoveLine(x) /\ ~RemoveRow(x)
             PROVE  MutexQuiet
  OBVIOUS
<1>0. /\ pc \in [Requests -> Steps]
      /\ job \in [Closers -> Jobs]
  BY DEF TypeOK
<1> USE DEF MutexQuiet, memoryVars, requestVars
<1>1. CASE UNCHANGED <<pc, job, lock, aliases>>
  BY <1>1
<1>2. ASSUME NEW r \in Requests, Request(r) \/ \E t \in Targets : Begin(r, t)
      PROVE  MutexQuiet
  <2>1. /\ \E s \in Steps : Goto(r, s) /\ s # "lined"
        /\ pc[r] # "lined"
        /\ UNCHANGED <<lock, aliases, job>>
    BY <1>2 DEF Request, At, Goto, Begin, UseForward, ResolveBackend,
       OpenForward, SaveForward, Register, CheckForward, Rollback, CloseMade,
       Steps
  <2> QED
    BY <1>0, <2>1 DEF Goto
<1>3. ASSUME NEW x \in Closers, NEW kind, NEW t, NEW names, NEW ids,
             StartJob(x, kind, t, names, ids), Idle(x),
             UNCHANGED <<pc, lock, aliases>>
      PROVE  MutexQuiet
  BY <1>0, <1>3 DEF StartJob, Idle
<1>4. ASSUME NEW x \in Closers, Closing(x)
      PROVE  MutexQuiet
  <2>1. CASE EndAliases(x)
    BY <1>0, <2>1 DEF EndAliases, Doing, NoJob, Jobs
  <2>2. CASE TakeForward(x)
    BY <1>0, <2>2, ZenonT(60) DEF TakeForward, Doing, Jobs
  <2>3. CASE CloseTaken(x)
    BY <1>0, <2>3 DEF CloseTaken, Doing, Jobs
  <2>4. CASE EndForwards(x)
    BY <1>0, <2>4 DEF EndForwards, Doing, NoJob
  <2> QED
    BY <1>4, <2>1, <2>2, <2>3, <2>4 DEF Closing
<1>5. ASSUME NEW t \in Targets,
             \/ Detach(t)
             \/ \E x \in Removers :
                   \/ \E f \in Requests : RemoveForward(x, t, f)
                   \/ \E h \in Hostnames : RemoveHost(x, t, h)
      PROVE  MutexQuiet
  BY <1>3, <1>5 DEF Detach, RemoveForward, RemoveHost, Closers
<1> QED
  BY <1>1, <1>2, <1>4, <1>5
  DEF Next, vars, Daemon, StartDaemon, FinishStart, CleanLine, CleanRow,
      AddTarget, Attach, TunnelDies, WaitReturns, Reap

(* What RemoveLine and RemoveRow make of the job, field by field.           *)
LEMMA RemoveLineEffect ==
    ASSUME TypeOK, NEW x \in Closers, RemoveLine(x)
    PROVE  /\ \A y \in Closers \ {x} : job'[y] = job[y]
           /\ job'[x].kind = job[x].kind /\ job'[x].target = job[x].target
           /\ job'[x].forward = job[x].forward
           /\ \/ /\ job'[x].at = "row" /\ job'[x].alias \in aliases
                 /\ lock' = x
              \/ job'[x].at = "aliases" /\ lock' = lock
<1>1. job \in [Closers -> Jobs]
  BY DEF TypeOK
<1>2. PICK h \in job[x].names :
        \/ \E a \in aliases :
              /\ job' = [job EXCEPT ![x] = [@ EXCEPT !.at = "row", !.alias = a,
                                             !.names = job[x].names \ {h}]]
              /\ lock' = x
        \/ /\ job' = [job EXCEPT ![x] = [@ EXCEPT !.failed = TRUE,
                                             !.names = job[x].names \ {h}]]
           /\ lock' = lock
  BY DEF RemoveLine
<1>3. ASSUME NEW a \in aliases,
             job' = [job EXCEPT ![x] = [@ EXCEPT !.at = "row", !.alias = a,
                                          !.names = job[x].names \ {h}]]
      PROVE  /\ \A y \in Closers \ {x} : job'[y] = job[y]
             /\ job'[x].kind = job[x].kind /\ job'[x].target = job[x].target
             /\ job'[x].forward = job[x].forward
             /\ job'[x].at = "row" /\ job'[x].alias = a
  BY <1>1, <1>3 DEF Jobs
<1>4. ASSUME job' = [job EXCEPT ![x] = [@ EXCEPT !.failed = TRUE,
                                          !.names = job[x].names \ {h}]]
      PROVE  /\ \A y \in Closers \ {x} : job'[y] = job[y]
             /\ job'[x].kind = job[x].kind /\ job'[x].target = job[x].target
             /\ job'[x].forward = job[x].forward
             /\ job'[x].at = job[x].at
  BY <1>1, <1>4 DEF Jobs
<1>5. job[x].at = "aliases"
  BY DEF RemoveLine, Doing
<1> QED
  BY <1>2, <1>3, <1>4, <1>5

LEMMA RemoveRowEffect ==
    ASSUME TypeOK, NEW x \in Closers, RemoveRow(x)
    PROVE  /\ \A y \in Closers \ {x} : job'[y] = job[y]
           /\ job'[x].kind = job[x].kind /\ job'[x].target = job[x].target
           /\ job'[x].forward = job[x].forward
           /\ job'[x].at = "aliases"
<1>1. job \in [Closers -> Jobs]
  BY DEF TypeOK
<1>2. \/ job' = [job EXCEPT ![x] =
                   [@ EXCEPT !.at = "aliases", !.alias = Nobody]]
      \/ job' = [job EXCEPT ![x] =
                   [@ EXCEPT !.at = "aliases", !.alias = Nobody,
                             !.failed = TRUE]]
  BY DEF RemoveRow
<1>3. CASE job' = [job EXCEPT ![x] =
                    [@ EXCEPT !.at = "aliases", !.alias = Nobody]]
  BY <1>1, <1>3 DEF Jobs
<1>4. CASE job' = [job EXCEPT ![x] =
                    [@ EXCEPT !.at = "aliases", !.alias = Nobody,
                              !.failed = TRUE]]
  BY <1>1, <1>4 DEF Jobs
<1> QED
  BY <1>2, <1>3, <1>4

LEMMA NextMutexHeld ==
    TypeOK /\ DownIsEmpty /\ MutexHeld /\ [Next]_vars => MutexHeld'
<1> SUFFICES ASSUME TypeOK, DownIsEmpty, MutexHeld, [Next]_vars
             PROVE  MutexHeld'
  OBVIOUS
<1>0. /\ pc \in [Requests -> Steps]
      /\ job \in [Closers -> Jobs]
  BY DEF TypeOK
<1> USE DEF MutexHeld
<1>1. CASE MutexQuiet
  BY <1>1 DEF MutexQuiet
<1>2. CASE Crash
  BY <1>2, ForwardingAssumption DEF Crash, NoJob
<1>3. ASSUME NEW r \in Requests, AddLine(r) PROVE MutexHeld'
  BY <1>0, <1>3, ForwardingAssumption DEF AddLine, At, Goto
<1>4. ASSUME NEW r \in Requests, SaveAlias(r) PROVE MutexHeld'
  BY <1>0, <1>4, ForwardingAssumption DEF SaveAlias, At, Goto
<1>5. ASSUME NEW x \in Closers, RemoveLine(x) PROVE MutexHeld'
  <2>1. lock = Nobody /\ job[x].at = "aliases" /\ UNCHANGED pc
    BY <1>5 DEF RemoveLine, Doing, requestVars
  <2> QED
    BY <1>5, <2>1, RemoveLineEffect, ForwardingAssumption
<1>6. ASSUME NEW x \in Closers, RemoveRow(x) PROVE MutexHeld'
  <2>1. job[x].at = "row" /\ lock' = Nobody /\ UNCHANGED pc
    BY <1>6 DEF RemoveRow, Doing, requestVars
  <2> QED
    BY <1>6, <2>1, RemoveRowEffect, ForwardingAssumption
<1> QED
  BY <1>1, <1>2, <1>3, <1>4, <1>5, <1>6, MutexSteps

(* AddLine takes the mutex only when no alias has the name, and until it    *)
(* gives the mutex back no other request makes an alias.                    *)
LEMMA NextNameReserved ==
    TypeOK /\ DownIsEmpty /\ MutexHeld /\ NameReserved /\ [Next]_vars =>
        NameReserved'
<1> SUFFICES ASSUME TypeOK, DownIsEmpty, MutexHeld, NameReserved, [Next]_vars
             PROVE  NameReserved'
  OBVIOUS
<1>0. /\ pc \in [Requests -> Steps]
      /\ aliases \subseteq Requests
  BY DEF TypeOK
<1> USE DEF NameReserved
<1>1. CASE MutexQuiet
  BY <1>1 DEF MutexQuiet
<1>2. CASE Crash
  BY <1>2 DEF Crash
<1>3. ASSUME NEW r \in Requests, AddLine(r) PROVE NameReserved'
  <2>1. CASE pc' = [pc EXCEPT ![r] = "lined"] /\ ~NameTaken(NameOf[r])
    BY <1>0, <1>3, <2>1 DEF AddLine, NameTaken
  <2>2. CASE pc' = [pc EXCEPT ![r] = "rollback"]
    BY <1>0, <1>3, <2>2 DEF AddLine
  <2> QED
    BY <1>3, <2>1, <2>2 DEF AddLine, Goto
<1>4. ASSUME NEW r \in Requests, SaveAlias(r) PROVE NameReserved'
  <2>1. \A q \in Requests : pc'[q] # "lined"
    BY <1>0, <1>4, ForwardingAssumption DEF MutexHeld, SaveAlias, At, Goto
  <2> QED
    BY <2>1
<1>5. ASSUME NEW x \in Closers, RemoveLine(x) PROVE NameReserved'
  BY <1>5 DEF RemoveLine, requestVars
<1>6. ASSUME NEW x \in Closers, RemoveRow(x) PROVE NameReserved'
  BY <1>6 DEF RemoveRow, requestVars
<1> QED
  BY <1>1, <1>2, <1>3, <1>4, <1>5, <1>6, MutexSteps

(* The rows and the map.  SaveAlias finds no active row of its name: such a *)
(* row would name an alias in the map, and the name is reserved.            *)
LEMMA NextRows ==
    TypeOK /\ DownIsEmpty /\ JobShape /\ MutexHeld /\ NameReserved
    /\ RowsNamed /\ RowsMirrorAliases /\ [Next]_vars =>
        RowsNamed' /\ RowsMirrorAliases'
<1> SUFFICES ASSUME TypeOK, DownIsEmpty, JobShape, MutexHeld, NameReserved,
                    RowsNamed, RowsMirrorAliases, [Next]_vars
             PROVE  RowsNamed' /\ RowsMirrorAliases'
  OBVIOUS
<1>0. /\ aliasRow \in [Hostnames -> AliasRows]
      /\ aliases \subseteq Requests
      /\ \A r \in Requests : NameOf[r] \in Hostnames
  BY ForwardingAssumption DEF TypeOK
<1> USE DEF RowsNamed, RowsMirrorAliases, Up
<1>1. CASE UNCHANGED <<daemon, aliases, aliasRow>>
  BY <1>1
<1>2. CASE StartDaemon \/ Crash
  BY <1>2 DEF StartDaemon, Crash, diskVars
<1>3. ASSUME NEW h \in Hostnames, CleanRow(h)
      PROVE  RowsNamed' /\ RowsMirrorAliases'
  BY <1>0, <1>3 DEF CleanRow, AliasRows
<1>4. CASE FinishStart
  BY <1>4 DEF FinishStart, memoryVars, diskVars, DownIsEmpty
<1>5. ASSUME NEW r \in Requests, SaveAlias(r)
      PROVE  RowsNamed' /\ RowsMirrorAliases'
  <2>1. Up /\ pc[r] = "lined" /\ UNCHANGED daemon
    BY <1>5 DEF SaveAlias, At
  <2>2. ~aliasRow[NameOf[r]].active
    BY <1>0, <2>1 DEF NameReserved
  <2>3. CASE /\ aliasRow' = [aliasRow EXCEPT ![NameOf[r]] =
                               [marker |-> r, active |-> TRUE]]
             /\ aliases' = aliases \cup {r}
    BY <1>0, <2>1, <2>2, <2>3, ZenonT(120) DEF NameReserved
  <2>4. CASE UNCHANGED <<aliasRow, aliases>>
    BY <2>1, <2>4
  <2> QED
    BY <1>0, <1>5, <2>2, <2>3, <2>4 DEF SaveAlias
<1>6. ASSUME NEW x \in Closers, RemoveRow(x)
      PROVE  RowsNamed' /\ RowsMirrorAliases'
  <2> DEFINE a == job[x].alias
  <2>1. Up /\ a \in aliases /\ UNCHANGED daemon
    BY <1>6 DEF RemoveRow, Doing, JobShape
  <2>2. CASE /\ aliasRow' = [aliasRow EXCEPT ![NameOf[a]].active = FALSE]
             /\ aliases' = aliases \ {a}
    <3>1. \A h \in Hostnames : h # NameOf[a] => aliasRow'[h] = aliasRow[h]
      BY <1>0, <2>2
    <3>2. NameOf[a] \in Hostnames /\ ~aliasRow'[NameOf[a]].active
      BY <1>0, <2>1, <2>2 DEF AliasRows
    <3>3. \A b \in aliases \ {a} : NameOf[b] # NameOf[a]
      <4> SUFFICES ASSUME NEW b \in aliases, NameOf[b] = NameOf[a]
                   PROVE  b = a
        OBVIOUS
      <4>1. /\ aliasRow[NameOf[a]] = [marker |-> a, active |-> TRUE]
            /\ aliasRow[NameOf[a]] = [marker |-> b, active |-> TRUE]
        BY <2>1
      <4> QED
        BY <4>1
    <3> QED
      BY <1>0, <2>1, <2>2, <3>1, <3>2, <3>3, ZenonT(60)
  <2>3. CASE UNCHANGED <<aliasRow, aliases>>
    BY <2>1, <2>3
  <2> QED
    BY <1>6, <2>2, <2>3 DEF RemoveRow
<1> QED
  BY <1>1, <1>2, <1>3, <1>4, <1>5, <1>6
  DEF Next, vars, Daemon, Request, Closing, memoryVars, requestVars, diskVars,
      CleanLine, AddTarget, Attach, TunnelDies, WaitReturns, Reap, Begin,
      UseForward, ResolveBackend, OpenForward, SaveForward, Register,
      CheckForward, AddLine, Rollback, CloseMade, Detach, RemoveForward,
      RemoveHost, RemoveLine, EndAliases, TakeForward, CloseTaken, EndForwards

(* A line is written only after the file has been read under the mutex.     *)
LEMMA NextOneLinePerName ==
    TypeOK /\ OneLinePerName /\ [Next]_vars => OneLinePerName'
<1> SUFFICES ASSUME TypeOK, OneLinePerName, [Next]_vars PROVE OneLinePerName'
  OBVIOUS
<1> USE DEF OneLinePerName
<1>1. CASE lines' \subseteq lines
  BY <1>1
<1>2. ASSUME NEW r \in Requests, AddLine(r) PROVE OneLinePerName'
  BY <1>2 DEF AddLine, NameTaken
<1>3. ASSUME NEW r \in Requests, SaveAlias(r) PROVE lines' \subseteq lines
  BY <1>3 DEF SaveAlias
<1>4. ASSUME NEW x \in Closers, RemoveLine(x) PROVE lines' \subseteq lines
  BY <1>4 DEF RemoveLine
<1>5. ASSUME NEW h \in Hostnames, CleanLine(h) PROVE lines' \subseteq lines
  BY <1>5 DEF CleanLine
<1>6. CASE UNCHANGED lines
  BY <1>6
<1> QED
  BY <1>1, <1>2, <1>3, <1>4, <1>5, <1>6
  DEF Next, vars, Daemon, Request, Closing, memoryVars, requestVars, diskVars,
      StartDaemon, FinishStart, Crash, CleanRow,
      AddTarget, Attach, TunnelDies, WaitReturns, Reap, Begin,
      UseForward, ResolveBackend, OpenForward, SaveForward, Register,
      CheckForward, Rollback, CloseMade, Detach, RemoveForward,
      RemoveHost, RemoveRow, EndAliases, TakeForward, CloseTaken, EndForwards

(* Every step but those of a starting daemon and the end of the process is  *)
(* one of a daemon that is up and stays up.                                 *)
LEMMA NextDownIsEmpty == TypeOK /\ DownIsEmpty /\ [Next]_vars => DownIsEmpty'
<1> SUFFICES ASSUME TypeOK, DownIsEmpty, [Next]_vars PROVE DownIsEmpty'
  OBVIOUS
<1> USE DEF DownIsEmpty, memoryVars, requestVars, diskVars
<1>1. CASE daemon' = "up"
  BY <1>1
<1>2. CASE UNCHANGED vars
  BY <1>2 DEF vars
<1>3. CASE StartDaemon \/ \E h \in Hostnames : CleanLine(h) \/ CleanRow(h)
  BY <1>3 DEF StartDaemon, CleanLine, CleanRow
<1>4. CASE Crash
  BY <1>4 DEF Crash
<1> QED
  BY <1>1, <1>2, <1>3, <1>4
  DEF Next, Daemon, Request, Closing, Up, At, Idle, Doing, FinishStart,
      AddTarget, Attach, TunnelDies, WaitReturns, Reap, Begin, UseForward,
      ResolveBackend, OpenForward, SaveForward, Register, CheckForward,
      AddLine, SaveAlias, Rollback, CloseMade, Detach, RemoveForward,
      RemoveHost, RemoveLine, RemoveRow, EndAliases, TakeForward, CloseTaken,
      EndForwards

(* What the other steps of a closer make of its job, field by field.        *)
LEMMA EndAliasesEffect ==
    ASSUME TypeOK, NEW x \in Closers, EndAliases(x)
    PROVE  /\ \A y \in Closers \ {x} : job'[y] = job[y]
           /\ \/ job'[x] = NoJob
              \/ /\ job'[x].at = "forwards" /\ job[x].kind # "host"
                 /\ job'[x].kind = job[x].kind
                 /\ job'[x].target = job[x].target
                 /\ job'[x].forward = job[x].forward
<1>1. job \in [Closers -> Jobs]
  BY DEF TypeOK
<1> DEFINE ids == IF job[x].kind = "forward" THEN job[x].ids
                  ELSE {f \in forwards : session[f] = job[x].target}
<1>2. \/ job' = [job EXCEPT ![x] = NoJob]
      \/ /\ job' = [job EXCEPT ![x] = [@ EXCEPT !.at = "forwards", !.ids = ids]]
         /\ job[x].kind # "host"
  BY DEF EndAliases
<1> HIDE DEF ids
<1>3. CASE job' = [job EXCEPT ![x] = NoJob]
  BY <1>1, <1>3
<1>4. CASE job' = [job EXCEPT ![x] = [@ EXCEPT !.at = "forwards", !.ids = ids]]
  BY <1>1, <1>2, <1>4 DEF Jobs, NoJob
<1> QED
  BY <1>2, <1>3, <1>4

LEMMA TakeForwardEffect ==
    ASSUME TypeOK, NEW x \in Closers, TakeForward(x)
    PROVE  /\ \A y \in Closers \ {x} : job'[y] = job[y]
           /\ job'[x].kind = job[x].kind /\ job'[x].target = job[x].target
           /\ \/ /\ job'[x].at = "handle"
                 /\ job'[x].forward \in forwards
                 /\ forwards' = forwards \ {job'[x].forward}
              \/ /\ job'[x].at = "forwards"
                 /\ job'[x].forward = job[x].forward
                 /\ UNCHANGED forwards
<1>1. job \in [Closers -> Jobs]
  BY DEF TypeOK
<1>2. PICK f \in job[x].ids :
        \/ /\ job' = [job EXCEPT ![x] = [@ EXCEPT !.at = "handle", !.forward = f,
                                             !.ids = job[x].ids \ {f}]]
           /\ f \in forwards /\ forwards' = forwards \ {f}
        \/ /\ job' = [job EXCEPT ![x] = [@ EXCEPT !.failed = TRUE,
                                             !.ids = job[x].ids \ {f}]]
           /\ UNCHANGED forwards
  BY DEF TakeForward
<1>3. CASE /\ job' = [job EXCEPT ![x] = [@ EXCEPT !.at = "handle",
                             !.forward = f, !.ids = job[x].ids \ {f}]]
           /\ f \in forwards /\ forwards' = forwards \ {f}
  BY <1>1, <1>3 DEF Jobs
<1>4. CASE /\ job' = [job EXCEPT ![x] = [@ EXCEPT !.failed = TRUE,
                                                 !.ids = job[x].ids \ {f}]]
           /\ UNCHANGED forwards
  <2>1. job[x].at = "forwards"
    BY DEF TakeForward, Doing
  <2> QED
    BY <1>1, <1>4, <2>1 DEF Jobs
<1> QED
  BY <1>2, <1>3, <1>4

LEMMA CloseTakenEffect ==
    ASSUME TypeOK, NEW x \in Closers, CloseTaken(x)
    PROVE  /\ \A y \in Closers \ {x} : job'[y] = job[y]
           /\ job'[x].kind = job[x].kind /\ job'[x].target = job[x].target
           /\ job'[x].at = "forwards" /\ job'[x].forward = Nobody
<1>1. job \in [Closers -> Jobs]
  BY DEF TypeOK
<1>2. \/ job' = [job EXCEPT ![x] =
                   [@ EXCEPT !.at = "forwards", !.forward = Nobody]]
      \/ job' = [job EXCEPT ![x] =
                   [@ EXCEPT !.at = "forwards", !.forward = Nobody,
                             !.failed = TRUE]]
  BY DEF CloseTaken
<1>3. CASE job' = [job EXCEPT ![x] =
                    [@ EXCEPT !.at = "forwards", !.forward = Nobody]]
  BY <1>1, <1>3 DEF Jobs
<1>4. CASE job' = [job EXCEPT ![x] =
                    [@ EXCEPT !.at = "forwards", !.forward = Nobody,
                              !.failed = TRUE]]
  BY <1>1, <1>4 DEF Jobs
<1> QED
  BY <1>2, <1>3, <1>4

(* A closer that does nothing has nothing in hand.                          *)
LEMMA NoJobFields ==
    /\ NoJob \in Jobs /\ NoJob.at = "idle" /\ NoJob.forward = Nobody
    /\ NoJob.kind = "none"
BY DEF NoJob, Jobs

(* A detach takes its target out of attached when it begins, and the        *)
(* operator, who attaches, is busy until it ends.                           *)
LEMMA NextJobShape ==
    TypeOK /\ DownIsEmpty /\ JobShape /\ MutexHeld /\ [Next]_vars => JobShape'
<1> SUFFICES ASSUME TypeOK, DownIsEmpty, JobShape, MutexHeld, [Next]_vars
             PROVE  JobShape'
  OBVIOUS
<1>0. job \in [Closers -> Jobs]
  BY DEF TypeOK
<1> USE DEF JobShape
<1>1. CASE UNCHANGED <<job, attached>> /\ aliases \subseteq aliases'
  BY <1>1
<1>2. CASE Crash
  BY <1>2, NoJobFields DEF Crash
<1>3. ASSUME NEW t \in Targets, Attach(t) PROVE JobShape'
  BY <1>3, NoJobFields DEF Attach
<1>4. ASSUME NEW x \in Closers, NEW kind \in {"detach", "forward", "host"},
             NEW t \in Targets, NEW names, NEW ids,
             StartJob(x, kind, t, names, ids), attached' \subseteq attached,
             kind = "detach" => x = Operator /\ t \notin attached',
             UNCHANGED aliases
      PROVE  JobShape'
  <2>1. /\ job'[x].at = "aliases" /\ job'[x].forward = Nobody
        /\ job'[x].kind = kind /\ job'[x].target = t
        /\ \A y \in Closers \ {x} : job'[y] = job[y]
    BY <1>0, <1>4 DEF StartJob
  <2> QED
    BY <1>4, <2>1
<1>5. ASSUME NEW t \in Targets, Detach(t) PROVE JobShape'
  BY <1>4, <1>5 DEF Detach, Closers
<1>6. ASSUME NEW t \in Targets, NEW x \in Removers,
             \/ \E f \in Requests : RemoveForward(x, t, f)
             \/ \E h \in Hostnames : RemoveHost(x, t, h)
      PROVE  JobShape'
  BY <1>4, <1>6 DEF RemoveForward, RemoveHost, Closers, memoryVars
<1>7. ASSUME NEW x \in Closers, RemoveLine(x) PROVE JobShape'
  <2>1. job[x].at = "aliases" /\ UNCHANGED <<attached, aliases>>
    BY <1>7 DEF RemoveLine, Doing
  <2> QED
    BY <1>7, <2>1, RemoveLineEffect
<1>8. ASSUME NEW x \in Closers, RemoveRow(x) PROVE JobShape'
  <2>1. job[x].at = "row" /\ UNCHANGED attached
    BY <1>8 DEF RemoveRow, Doing
  <2>2. \A y \in Closers \ {x} : job[y].at # "row"
    BY <2>1 DEF MutexHeld
  <2> QED
    BY <1>8, <2>1, <2>2, RemoveRowEffect
<1>9. ASSUME NEW x \in Closers, EndAliases(x) PROVE JobShape'
  <2>1. job[x].at = "aliases" /\ UNCHANGED <<attached, aliases>>
    BY <1>9 DEF EndAliases, Doing, memoryVars
  <2>2. job[x].kind \in {"none", "detach", "forward", "host"}
    BY <1>0 DEF Jobs
  <2> QED
    BY <1>9, <2>1, <2>2, EndAliasesEffect, NoJobFields
<1>10. ASSUME NEW x \in Closers, TakeForward(x) PROVE JobShape'
  <2>1. job[x].at = "forwards" /\ UNCHANGED <<attached, aliases>>
    BY <1>10 DEF TakeForward, Doing
  <2> QED
    BY <1>10, <2>1, TakeForwardEffect
<1>11. ASSUME NEW x \in Closers, CloseTaken(x) PROVE JobShape'
  <2>1. job[x].at = "handle" /\ UNCHANGED <<attached, aliases>>
    BY <1>11 DEF CloseTaken, Doing, memoryVars
  <2> QED
    BY <1>11, <2>1, CloseTakenEffect
<1>12. ASSUME NEW x \in Closers, EndForwards(x) PROVE JobShape'
  BY <1>0, <1>12, NoJobFields DEF EndForwards, Doing
<1> QED
  BY <1>1, <1>2, <1>3, <1>5, <1>6, <1>7, <1>8, <1>9, <1>10, <1>11, <1>12
  DEF Next, vars, Daemon, Request, Closing, memoryVars, requestVars, diskVars,
      StartDaemon, FinishStart, CleanLine, CleanRow, AddTarget, TunnelDies,
      WaitReturns, Reap, Begin, UseForward, ResolveBackend, OpenForward,
      SaveForward, Register, CheckForward, AddLine, SaveAlias, Rollback,
      CloseMade

(* A tunnel changes hands: from the request that opens it to the map, from  *)
(* the map to the request or the closer that has taken it to kill it.       *)
LEMMA NextTunnelsOwned ==
    TypeOK /\ DownIsEmpty /\ JobShape /\ TunnelsOwned /\ [Next]_vars =>
        TunnelsOwned'
<1> SUFFICES ASSUME TypeOK, DownIsEmpty, JobShape, TunnelsOwned, [Next]_vars
             PROVE  TunnelsOwned'
  OBVIOUS
<1>0. /\ job \in [Closers -> Jobs]
      /\ pc \in [Requests -> Steps]
      /\ tunnels \subseteq Requests
  BY DEF TypeOK
<1> USE DEF TunnelsOwned
<1>1. CASE UNCHANGED <<forwards, tunnels, pc, job>>
  BY <1>1
<1>2. CASE Crash
  BY <1>2 DEF Crash
<1>3. ASSUME NEW f \in Requests, TunnelDies(f) \/ WaitReturns(f)
      PROVE  TunnelsOwned'
  BY <1>3 DEF TunnelDies, WaitReturns, requestVars, memoryVars
<1>4. ASSUME NEW r \in Requests, Request(r) \/ \E t \in Targets : Begin(r, t)
      PROVE  TunnelsOwned'
  <2>1. ASSUME tunnels' \subseteq tunnels \cup {r}, UNCHANGED job,
               forwards \ {r} \subseteq forwards',
               \E s \in Steps : Goto(r, s),
               r \in tunnels' =>
                   \/ r \in forwards'
                   \/ pc'[r] \in {"opened", "saved", "closing"}
                   \/ \E x \in Closers : job[x].forward = r
        PROVE  TunnelsOwned'
    BY <1>0, <2>1 DEF Goto
  <2>2. CASE \/ \E t \in Targets : Begin(r, t)
             \/ UseForward(r) \/ ResolveBackend(r) \/ CheckForward(r)
             \/ AddLine(r) \/ SaveAlias(r)
    <3>1. /\ UNCHANGED <<tunnels, job, forwards>>
          /\ pc[r] \notin {"opened", "saved", "closing"}
          /\ \E s \in Steps : Goto(r, s)
      BY <2>2 DEF Begin, UseForward, ResolveBackend, CheckForward, AddLine,
         SaveAlias, At, Goto, memoryVars, Steps
    <3> QED
      BY <2>1, <3>1
  <2>3. CASE OpenForward(r)
    BY <1>0, <2>1, <2>3 DEF OpenForward, At, Goto, memoryVars, Steps
  <2>4. CASE SaveForward(r)
    BY <1>0, <2>1, <2>4 DEF SaveForward, At, Goto, memoryVars, Steps
  <2>5. CASE Register(r)
    BY <1>0, <2>1, <2>5 DEF Register, At, Goto, Steps
  <2>6. CASE Rollback(r)
    BY <1>0, <2>1, <2>6 DEF Rollback, At, Goto, Steps
  <2>7. CASE CloseMade(r)
    BY <1>0, <2>1, <2>7 DEF CloseMade, At, Goto, memoryVars, Steps
  <2> QED
    BY <1>4, <2>2, <2>3, <2>4, <2>5, <2>6, <2>7 DEF Request
<1>5. ASSUME NEW x \in Closers, UNCHANGED <<forwards, tunnels, pc>>,
             job[x].forward = Nobody,
             \A y \in Closers \ {x} : job'[y] = job[y]
      PROVE  TunnelsOwned'
  <2>1. \A f \in Requests : f # Nobody
    BY ForwardingAssumption
  <2> QED
    BY <1>0, <1>5, <2>1
<1>6. ASSUME NEW x \in Closers, Closing(x) PROVE TunnelsOwned'
  <2>1. CASE RemoveLine(x)
    BY <1>5, <2>1, RemoveLineEffect
    DEF JobShape, RemoveLine, Doing, requestVars
  <2>2. CASE RemoveRow(x)
    BY <1>5, <2>2, RemoveRowEffect
    DEF JobShape, RemoveRow, Doing, requestVars
  <2>3. CASE EndAliases(x)
    BY <1>5, <2>3, EndAliasesEffect
    DEF JobShape, EndAliases, Doing, requestVars, memoryVars
  <2>4. CASE TakeForward(x)
    <3>1. job[x].forward = Nobody /\ UNCHANGED <<tunnels, pc>>
      BY <2>4 DEF JobShape, TakeForward, Doing, requestVars
    <3>2. \A f \in Requests : f # Nobody
      BY ForwardingAssumption
    <3> QED
      BY <1>0, <2>4, <3>1, <3>2, TakeForwardEffect
  <2>5. CASE CloseTaken(x)
    <3>1. /\ tunnels' = tunnels \ {job[x].forward}
          /\ UNCHANGED <<forwards, pc>>
      BY <2>5 DEF CloseTaken, requestVars, memoryVars
    <3> QED
      BY <1>0, <2>5, <3>1, CloseTakenEffect
  <2>6. CASE EndForwards(x)
    <3>1. \A y \in Closers \ {x} : job'[y] = job[y]
      BY <1>0, <2>6 DEF EndForwards
    <3> QED
      BY <1>5, <2>6, <3>1 DEF JobShape, EndForwards, Doing, requestVars
  <2> QED
    BY <1>6, <2>1, <2>2, <2>3, <2>4, <2>5, <2>6 DEF Closing
<1>7. ASSUME NEW x \in Closers, NEW kind, NEW t, NEW names, NEW ids,
             StartJob(x, kind, t, names, ids), Idle(x),
             UNCHANGED <<forwards, tunnels, pc>>
      PROVE  TunnelsOwned'
  <2>1. \A y \in Closers \ {x} : job'[y] = job[y]
    BY <1>0, <1>7 DEF StartJob
  <2>2. job[x].forward = Nobody
    BY <1>7 DEF Idle, JobShape
  <2> QED
    BY <1>5, <1>7, <2>1, <2>2
<1>8. ASSUME NEW t \in Targets,
             \/ Detach(t)
             \/ \E x \in Removers :
                   \/ \E f \in Requests : RemoveForward(x, t, f)
                   \/ \E h \in Hostnames : RemoveHost(x, t, h)
      PROVE  TunnelsOwned'
  BY <1>7, <1>8 DEF Detach, RemoveForward, RemoveHost, Closers, memoryVars,
     requestVars
<1> QED
  BY <1>1, <1>2, <1>3, <1>4, <1>6, <1>8
  DEF Next, vars, Daemon, memoryVars, requestVars, diskVars, StartDaemon,
      FinishStart, CleanLine, CleanRow, AddTarget, Attach, Reap

(***************************************************************************)
(* The invariant is inductive.                                             *)
(***************************************************************************)
LEMMA NextIInv == IInv /\ [Next]_vars => IInv'
BY NextTypeOK, NextDownIsEmpty, NextJobShape, NextMutexHeld, NextNameReserved,
   NextRowlessBefore, NextRows, NextOneLinePerName, NextTunnelsOwned DEF IInv

LEMMA SpecIInv == Spec => []IInv
BY InitIInv, NextIInv, PTL DEF Spec

-----------------------------------------------------------------------------
(* Every variable keeps to its kind; in particular a target that sessions   *)
(* may be opened on has a binding, whenever a detach takes it out (gate     *)
(* service's DetachTarget and Registry.Remove).                             *)
THEOREM TypeCorrect == Spec => []TypeOK
BY SpecIInv, PTL DEF IInv

(* The active row of a hostname and the alias manager's entry always say    *)
(* the same while the daemon serves, however the writes of                  *)
(* AliasManager.Add and Remove fail and wherever the process was killed.    *)
THEOREM MirrorHolds == Spec => []RowsMirrorAliases
BY SpecIInv, PTL DEF IInv

(* The hosts file never holds two lines of Gate for a hostname, nor one     *)
(* beside a foreign line: AliasManager.Add reads the file under the mutex.  *)
THEOREM OneLineHolds == Spec => []OneLinePerName
BY SpecIInv, PTL DEF IInv

(* No SSH tunnel is out of reach of Manager and of the goroutine that makes *)
(* or closes it: none can be left to run with nobody to kill it.            *)
THEOREM OwnershipHolds == Spec => []TunnelsOwned
BY SpecIInv, PTL DEF IInv

(* AliasManager.mu is held exactly by a goroutine between its line of the   *)
(* hosts file and its row, so every goroutine that blocks on it waits for   *)
(* one that has a step to make; and the two ends of the mutex exclude each  *)
(* other.                                                                   *)
THEOREM MutexAlwaysHeldByWorker ==
    Spec => [](/\ lock # Nobody =>
                   \/ \E r \in Requests : lock = r /\ pc[r] = "lined"
                   \/ \E x \in Closers : lock = x /\ job[x].at = "row"
               /\ \A r \in Requests, x \in Closers :
                     ~(pc[r] = "lined" /\ job[x].at = "row"))
<1>1. IInv => (/\ lock # Nobody =>
                   \/ \E r \in Requests : lock = r /\ pc[r] = "lined"
                   \/ \E x \in Closers : lock = x /\ job[x].at = "row"
               /\ \A r \in Requests, x \in Closers :
                     ~(pc[r] = "lined" /\ job[x].at = "row"))
  BY ForwardingAssumption DEF IInv, TypeOK, MutexHeld
<1> QED
  BY <1>1, SpecIInv, PTL

(* Store.CloseForward and CloseStaleForwards write only active rows, and    *)
(* SaveForward only the row of a forward that has none.                     *)
LEMMA StepClosedOnce ==
    ASSUME IInv, [Next]_vars, NEW f \in Requests,
           forwardRow[f] \notin {"none", "active"}
    PROVE  forwardRow'[f] = forwardRow[f]
<1>0. /\ forwardRow \in [Requests -> {"none", "active", "transport", "detach",
                                     "forward", "alias-rollback",
                                     "daemon-restart"}]
  BY DEF IInv, TypeOK
<1>1. ASSUME NEW g \in Requests, NEW by, CloseForwardRow(g, by)
      PROVE  forwardRow'[f] = forwardRow[f]
  BY <1>0, <1>1 DEF CloseForwardRow
<1>2. CASE StartDaemon
  BY <1>0, <1>2 DEF StartDaemon
<1>3. ASSUME NEW r \in Requests, SaveForward(r)
      PROVE  forwardRow'[f] = forwardRow[f]
  <2>1. r # f
    BY <1>3 DEF SaveForward, At, IInv, RowlessBefore
  <2> QED
    BY <1>0, <1>3, <2>1 DEF SaveForward
<1>4. ASSUME NEW g \in Requests, Reap(g) \/ CloseMade(g)
      PROVE  forwardRow'[f] = forwardRow[f]
  BY <1>1, <1>4 DEF Reap, CloseMade
<1>5. ASSUME NEW x \in Closers, CloseTaken(x)
      PROVE  forwardRow'[f] = forwardRow[f]
  BY <1>0, <1>5 DEF CloseTaken, CloseForwardRow
<1>6. CASE UNCHANGED forwardRow
  BY <1>6
<1> QED
  BY <1>2, <1>3, <1>4, <1>5, <1>6
  DEF Next, vars, Daemon, Request, Closing, diskVars, FinishStart, Crash,
      CleanLine, CleanRow, AddTarget, Attach, TunnelDies, WaitReturns, Begin,
      UseForward, ResolveBackend, OpenForward, Register, CheckForward, AddLine,
      SaveAlias, Rollback, Detach, RemoveForward, RemoveHost, RemoveLine,
      RemoveRow, EndAliases, TakeForward, EndForwards

(* A forward's row says once who closed it.                                 *)
THEOREM ClosedOnceHolds == Spec => ClosedOnce
<1>1. IInv /\ [Next]_vars =>
        [\A f \in Requests :
            forwardRow[f] \notin {"none", "active"} =>
                forwardRow'[f] = forwardRow[f]]_forwardRow
  BY StepClosedOnce
<1> QED
  BY <1>1, SpecIInv, PTL DEF Spec, ClosedOnce
=============================================================================
