---------------------------- MODULE IntakeProofs -----------------------------
(***************************************************************************)
(* Proofs about the intake of a repository, for every set of workers,      *)
(* clients, jobs and commits, and every number of attempts and faults.     *)
(* The inductive invariant is IInv: WorkInv says that who is at work on a  *)
(* row has not completed it, ResultsInv when an analysis has its results,  *)
(* ReadyInv who has yet to make the repository READY, and SourceInv who    *)
(* has made it so.                                                         *)
(***************************************************************************)
EXTENDS IntakeProperties, FiniteSetTheorems, FunctionTheorems, SequenceTheorems,
        WellFoundedInduction, TLAPS

-----------------------------------------------------------------------------
(* The inductive invariant.                                                *)

\* A known job of a queue has a row, and so does one that is to be added.
QueueInv ==
  /\ \A j \in Jobs : entry[j].state # "none" => job[j].status # "ABSENT"
  /\ \A c \in Clients :
       /\ client[c].pc = "enqueue" =>
            /\ client[c].id \in Ids
            /\ client[c].id \in Jobs => job[client[c].id].status # "ABSENT"
       /\ client[c].pc \in {"listJobs", "find"} => client[c].id \in Commits

\* The jobs that are there, in the order of their creation.
CreatedInv ==
  /\ \A m, n \in DOMAIN created : created[m] = created[n] => m = n
  /\ \A j \in Jobs : job[j].status # "ABSENT" <=> \E n \in DOMAIN created : created[n] = j

\* Whoever says that the repository was cloned knows at which commit.
CommitInv ==
  /\ repository.clone = "READY" => repository.sha \in Commits
  /\ \A j \in Jobs : job[j].status = "COMPLETED" => job[j].sha \in Commits
  /\ \A h \in Handlers : handler[h].pc \in {"ready", "complete"} /\ h[2] = "ingest"
                           => handler[h].sha \in Commits

\* A handler at work on a job, or on an analysis, has not completed it.
WorkInv ==
  /\ \A h \in Handlers :
       /\ h[2] = "ingest" /\ handler[h].pc \notin {"idle", "read"} /\ ~ lost
            => job[handler[h].id].status # "COMPLETED"
       /\ h[2] = "analysis" /\ handler[h].pc \notin {"idle", "read", "catch"}
            => analysis[handler[h].id].status # "COMPLETED"
  /\ lost => faults > 0

\* The handler of s is about to complete it.
Completing(s) == \E h \in Handlers : handler[h].id = s /\ handler[h].pc = "complete"

\* The results of an analysis are there before it is completed, and as long as
\* nothing failed they are there only then.
ResultsInv ==
  \A s \in Commits :
    /\ analysis[s].status = "COMPLETED" \/ Completing(s) => analysis[s].results # 0
    /\ faults = 0 /\ analysis[s].results # 0 =>
         /\ analysis[s].results = 1
         /\ analysis[s].status = "COMPLETED" \/ Completing(s)

\* While the repository is not READY and some job wrote that it was, another
\* has yet to write it.
Through(j)    == job[j].status = "COMPLETED" \/ Completing(j)
Unfinished(j) == job[j].status \notin {"ABSENT", "COMPLETED"} /\ ~ Completing(j)

ReadyInv ==
  ~ lost /\ repository.clone # "READY" /\ (\E j \in Jobs : Through(j))
    => \E j \in Jobs : Unfinished(j)

\* A handler is delivered again no more often than workers died.
BudgetInv ==
  \A i \in Ids : /\ entry[i].stalls <= faults
                 /\ Abandoned(i) => entry[i].stalls < faults

\* The job whose handler made the repository READY at its commit: it is
\* completed, about to be, about to take the READY back, or to begin anew.
Handled(j, pcs) == \A h \in Handlers : handler[h].id = j => handler[h].pc \in pcs

Source(j) ==
  \/ job[j].status = "COMPLETED" /\ job[j].sha = repository.sha /\ Handled(j, {"read"})
  \/ \E h \in Handlers : /\ handler[h].id = j
                         /\ \/ handler[h].pc = "complete" /\ handler[h].sha = repository.sha
                            \/ handler[h].pc = "markFailed" /\ faults > 0
  \/ /\ faults > 0 /\ job[j].status # "COMPLETED"
     /\ entry[j].state \in {"waiting", "active"}
     /\ Handled(j, {"read", "requeue", "start", "cloning"})

SourceInv == faults <= 1 /\ repository.clone = "READY" => \E j \in Jobs : Source(j)

IInv == /\ TypeOK /\ QueueInv /\ CreatedInv /\ CommitInv /\ WorkInv /\ ResultsInv
        /\ ReadyInv /\ BudgetInv /\ SourceInv

-----------------------------------------------------------------------------
(* Types.  TypeOK in two parts: the rows, and who handles what.            *)

RowsOK ==
  /\ job \in [Jobs -> JobRows]
  /\ created \in UNION {[1 .. n -> Jobs] : n \in 0 .. Cardinality(Jobs)}
  /\ repository \in [clone : CloneStatuses, sha : Commits \cup {None}]
  /\ analysis \in [Commits -> AnalysisRows]

Holds(h) ==
  /\ handler[h] \in HandlerOf(h[2])
  /\ handler[h].pc = "idle" <=> handler[h].id = None
  /\ handler[h].id # None => entry[handler[h].id].state = "active"
Alone == \A g, h \in Handlers : handler[g].id = handler[h].id /\ handler[g].id # None => g = h

HandlersOK ==
  /\ entry \in [Ids -> Entries]
  /\ DOMAIN handler = Handlers
  /\ \A h \in Handlers : Holds(h)
  /\ Alone

FaultsOK == faults \in 0 .. MaxFaults /\ lost \in BOOLEAN

LEMMA TypeParts ==
  /\ TypeOK => RowsOK /\ HandlersOK /\ client \in [Clients -> Requests] /\ FaultsOK
  /\ RowsOK' /\ HandlersOK' /\ client' \in [Clients -> Requests] /\ FaultsOK' => TypeOK'
BY DEF TypeOK, RowsOK, HandlersOK, Holds, Alone, FaultsOK

LEMMA HandlerIs ==
  ASSUME NEW h \in Handlers
  PROVE  h[1] \in Workers /\ h[2] \in Queues
BY DEF Handlers

LEMMA IdsAre ==
  /\ None \notin Ids
  /\ \A q \in Queues : QueueIds(q) \subseteq Ids
  /\ QueueIds("ingest") = Jobs /\ QueueIds("analysis") = Commits
  /\ Jobs \cap Commits = {}
BY IntakeConstants DEF Ids, Queues, QueueIds

LEMMA IdleType ==
  /\ \A q \in Queues : Idle \in HandlerOf(q)
  /\ Idle.pc = "idle" /\ Idle.id = None
  /\ NewEntry \in Entries /\ [NewEntry EXCEPT !.state = "done"] \in Entries
BY IntakeConstants DEF Idle, HandlerOf, NewEntry, Entries, Queues, IngestPcs, AnalysisPcs,
   AnalysisStatuses, Attempts, Codes, MaxStalls

\* A handler at work has one of its queue's jobs.
Busy(h) == HandlersOK /\ FaultsOK /\ h \in Handlers /\ handler[h].pc # "idle"

LEMMA BusyIs ==
  ASSUME NEW h, Busy(h)
  PROVE  /\ handler[h] \in HandlerOf(h[2]) /\ h[2] \in Queues
         /\ handler[h].id \in QueueIds(h[2]) /\ handler[h].id \in Ids /\ handler[h].id # None
         /\ entry[handler[h].id] \in Entries /\ entry[handler[h].id].state = "active"
         /\ \A g \in Handlers \ {h} : handler[g].id # handler[h].id
<1>1. Holds(h) /\ h[2] \in Queues
  BY HandlerIs DEF Busy, HandlersOK
<1>2. handler[h].id \in QueueIds(h[2]) /\ handler[h].id # None
  BY <1>1 DEF Busy, Holds, HandlerOf
<1> QED BY <1>1, <1>2, IdsAre DEF Busy, Holds, HandlersOK, Alone

-----------------------------------------------------------------------------
(* What a step of a handler does to the handlers and the queues            *)

\* Only a fault disturbs other handlers, and it ends them.
Frame(h) ==
  LET i == handler[h].id IN
  /\ HandlersOK' /\ FaultsOK'
  /\ \A g \in Handlers \ {h} : handler'[g] = handler[g] \/ (faults' > faults /\ handler'[g] = Idle)
  /\ \A k \in Ids \ {i} : entry'[k] = entry[k]
  /\ entry'[i].state # "none" /\ entry'[i].stalls <= entry[i].stalls
  /\ \/ handler'[h] = Idle /\ (entry'[i].state = "active" => faults' > faults)
     \/ handler'[h].id = i /\ handler'[h].pc # "idle" /\ entry' = entry
  /\ lost => lost'
  /\ faults' = faults \/ faults' = faults + 1
  /\ lost' # lost => faults' > faults

\* The call at the program counter was, or was taken for, a failure.
Thrown(h) ==
  /\ faults' > faults /\ lost'
  /\ IF handler[h].pc \in Guarded(h[2])
     THEN /\ handler'[h].id = handler[h].id
          /\ handler'[h].pc = IF h[2] = "ingest" THEN "markFailed" ELSE "catch"
     ELSE handler'[h] = Idle

LEMMA FaultEffect ==
  ASSUME FaultsOK, NoFault \/ CallFault
  PROVE  /\ FaultsOK' /\ (lost => lost') /\ (faults' = faults \/ faults' = faults + 1)
         /\ lost' # lost => faults' > faults
         /\ CallFault => faults' > faults /\ lost'
<1>1. CASE NoFault
  <2>1. faults' = faults /\ lost' = lost
    BY <1>1 DEF NoFault
  <2>2. ~ CallFault
    BY <2>1 DEF CallFault, Fault, FaultsOK
  <2> QED BY <2>1, <2>2 DEF FaultsOK
<1>2. CASE CallFault
  <2>1. faults < MaxFaults /\ faults' = faults + 1 /\ lost' = TRUE
    BY <1>2 DEF CallFault, Fault
  <2>2. faults' \in 0 .. MaxFaults /\ faults' > faults
    BY <2>1, IntakeConstants DEF FaultsOK
  <2>3. FaultsOK' /\ lost'
    BY <2>1, <2>2 DEF FaultsOK
  <2> QED BY <2>1, <2>2, <2>3
<1> QED BY <1>1, <1>2

LEMMA GotoFrame ==
  ASSUME NEW h, Busy(h), NEW r \in HandlerOf(h[2]), r.id = handler[h].id, r.pc # "idle",
         Goto(h, r), NoFault \/ CallFault
  PROVE  Frame(h) /\ handler'[h] = r
<1>1. handler' = [handler EXCEPT ![h] = r] /\ entry' = entry
  BY DEF Goto
<1>2. h \in Handlers /\ DOMAIN handler = Handlers
  BY DEF Busy, HandlersOK
<1>3. handler'[h] = r /\ \A g \in Handlers \ {h} : handler'[g] = handler[g]
  BY <1>1, <1>2
<1>4. DOMAIN handler' = Handlers
  BY <1>1, <1>2
<1>5. \A g \in Handlers : Holds(g)' /\ handler'[g].id = handler[g].id
  <2> TAKE g \in Handlers
  <2>1. CASE g = h
    BY <2>1, <1>1, <1>3, BusyIs DEF Holds
  <2>2. CASE g # h
    BY <2>2, <1>1, <1>3 DEF Holds, Busy, HandlersOK
  <2> QED BY <2>1, <2>2
<1>6. HandlersOK'
  BY <1>1, <1>4, <1>5 DEF HandlersOK, Alone, Busy
<1>7. entry[handler[h].id].stalls <= entry[handler[h].id].stalls
  BY BusyIs DEF Entries, MaxStalls
<1> QED BY <1>1, <1>3, <1>6, <1>7, BusyIs, FaultEffect DEF Frame, Busy

LEMMA SettleFrame ==
  ASSUME NEW h, Busy(h), NEW o, Settle(h, o), NoFault \/ CallFault
  PROVE  Frame(h) /\ handler'[h] = Idle /\ entry'[handler[h].id].state # "active"
<1> DEFINE i == handler[h].id
           e == entry[i]
           again == [e EXCEPT !.state = "waiting", !.attempts = e.attempts + 1]
           done == [NewEntry EXCEPT !.state = "done"]
<1>1. h \in Handlers /\ DOMAIN handler = Handlers /\ i \in Ids /\ e \in Entries /\ i # None
  BY BusyIs DEF Busy, HandlersOK
<1>2. handler'[h] = Idle /\ DOMAIN handler' = Handlers
      /\ \A g \in Handlers \ {h} : handler'[g] = handler[g]
  BY <1>1 DEF Settle
<1>3. \/ entry' = [entry EXCEPT ![i] = again] /\ e.attempts + 1 < MaxAttempts
      \/ entry' = [entry EXCEPT ![i] = done]
  BY DEF Settle
<1>4. e.attempts + 1 < MaxAttempts => again \in Entries /\ again.state = "waiting"
                                      /\ again.stalls = e.stalls
  <2> HIDE DEF e
  <2> SUFFICES ASSUME e.attempts + 1 < MaxAttempts
               PROVE  again \in Entries /\ again.state = "waiting" /\ again.stalls = e.stalls
    OBVIOUS
  <2>1. e.attempts + 1 \in 0 .. MaxAttempts - 1
    BY <1>1, IntakeConstants DEF Entries
  <2> QED BY <1>1, <2>1 DEF Entries
<1>5. done \in Entries /\ done.state = "done" /\ done.stalls <= e.stalls
  BY <1>1, IdleType DEF NewEntry, Entries, MaxStalls
<1>6. e.stalls <= e.stalls
  BY <1>1 DEF Entries, MaxStalls
<1> HIDE DEF again, done
<1>7. /\ entry' \in [Ids -> Entries]
      /\ \A k \in Ids \ {i} : entry'[k] = entry[k]
      /\ entry'[i].state \in {"waiting", "done"} /\ entry'[i].stalls <= e.stalls
  BY <1>1, <1>3, <1>4, <1>5, <1>6 DEF Busy, HandlersOK
<1>8. \A g \in Handlers : Holds(g)'
  <2> TAKE g \in Handlers
  <2>1. CASE g = h
    BY <2>1, <1>2, IdleType, HandlerIs DEF Holds
  <2>2. CASE g # h
    <3>1. handler[g].id # i /\ Holds(g)
      BY <2>2, BusyIs DEF Busy, HandlersOK
    <3>2. handler[g].id # None => handler[g].id \in Ids
      BY <3>1, HandlerIs, IdsAre DEF Holds, HandlerOf
    <3> QED BY <2>2, <3>1, <3>2, <1>2, <1>7 DEF Holds
  <2> QED BY <2>1, <2>2
<1>9. Alone'
  BY <1>2, IdleType DEF Busy, HandlersOK, Alone
<1> QED BY <1>2, <1>7, <1>8, <1>9, FaultEffect DEF Frame, HandlersOK, Busy

LEMMA DieEffect ==
  ASSUME HandlersOK, FaultsOK, NEW w, Die(w)
  PROVE  /\ HandlersOK' /\ FaultsOK'
         /\ \A g \in Handlers : handler'[g] = IF g[1] = w THEN Idle ELSE handler[g]
         /\ faults' = faults + 1 /\ faults' > faults /\ UNCHANGED <<entry, lost>>
<1>1. \A g \in Handlers : handler'[g] = IF g[1] = w THEN Idle ELSE handler[g]
  BY DEF Die
<1>2. DOMAIN handler' = Handlers /\ UNCHANGED <<entry, lost>>
  BY DEF Die
<1>3. faults' = faults + 1 /\ faults' > faults /\ FaultsOK'
  BY <1>2, IntakeConstants DEF Die, Fault, FaultsOK
<1>4. \A g \in Handlers : Holds(g)'
  BY <1>1, <1>2, IdleType, HandlerIs DEF Holds, HandlersOK
<1>5. Alone'
  BY <1>1, IdleType DEF HandlersOK, Alone
<1> QED BY <1>1, <1>2, <1>3, <1>4, <1>5 DEF HandlersOK

LEMMA DieFrame ==
  ASSUME NEW h, Busy(h), Die(h[1])
  PROVE  Frame(h) /\ handler'[h] = Idle
<1>1. entry[handler[h].id].stalls <= entry[handler[h].id].stalls
  BY BusyIs DEF Entries, MaxStalls
<1> QED BY <1>1, DieEffect, BusyIs DEF Frame, Busy

\* What a helper's program counter may be.
Pcs(q) == IF q = "ingest" THEN IngestPcs ELSE AnalysisPcs

LEMMA MovedType ==
  ASSUME NEW h, Busy(h), NEW pc \in Pcs(h[2]) \ {"idle"}
  PROVE  LET r == [handler[h] EXCEPT !.pc = pc] IN
         r \in HandlerOf(h[2]) /\ r.id = handler[h].id /\ r.pc = pc
BY BusyIs DEF HandlerOf, Pcs

LEMMA ToFrame ==
  ASSUME NEW h, Busy(h), NEW pc \in Pcs(h[2]) \ {"idle"}, To(h, pc), NoFault \/ CallFault
  PROVE  Frame(h) /\ handler'[h] = [handler[h] EXCEPT !.pc = pc] /\ handler'[h].pc = pc
         /\ handler'[h].sha = handler[h].sha
<1>1. handler[h] \in HandlerOf(h[2])
  BY BusyIs
<1>2. [handler[h] EXCEPT !.pc = pc].sha = handler[h].sha
  BY <1>1 DEF HandlerOf
<1> DEFINE r == [handler[h] EXCEPT !.pc = pc]
<1>3. r \in HandlerOf(h[2]) /\ r.id = handler[h].id /\ r.pc = pc /\ r.sha = handler[h].sha
  BY <1>2, MovedType
<1>4. Goto(h, r)
  BY DEF To
<1> HIDE DEF r
<1>5. Frame(h) /\ handler'[h] = r
  BY <1>3, <1>4, GotoFrame
<1> QED BY <1>3, <1>5 DEF r

LEMMA ThrowFrame ==
  ASSUME NEW h, Busy(h), Throw(h), CallFault
  PROVE  Frame(h) /\ Thrown(h)
<1>1. CASE handler[h].pc \notin Guarded(h[2])
  BY <1>1, SettleFrame, FaultEffect DEF Throw, Thrown, Busy
<1>2. CASE handler[h].pc \in Guarded(h[2]) /\ h[2] = "ingest"
  <2> DEFINE r == [handler[h] EXCEPT !.pc = "markFailed", !.code = "retryable", !.sha = None]
  <2>1. r \in HandlerOf(h[2]) /\ r.id = handler[h].id /\ r.pc = "markFailed"
    BY <1>2, BusyIs DEF HandlerOf, IngestPcs, Codes
  <2>2. Goto(h, r)
    BY <1>2 DEF Throw
  <2>3. Frame(h) /\ handler'[h] = r
    BY <2>1, <2>2, GotoFrame
  <2> QED BY <1>2, <2>1, <2>3, FaultEffect DEF Thrown, Busy
<1>3. CASE handler[h].pc \in Guarded(h[2]) /\ h[2] # "ingest"
  <2>1. To(h, "catch") /\ "catch" \in Pcs(h[2]) \ {"idle"}
    BY <1>3 DEF Throw, Pcs, AnalysisPcs
  <2>2. Frame(h) /\ handler'[h].pc = "catch" /\ handler'[h].id = handler[h].id
    <3>1. "catch" \in Pcs(h[2]) \ {"idle"}
      BY <2>1
    <3>2. Frame(h) /\ handler'[h].pc = "catch" /\ handler'[h] = [handler[h] EXCEPT !.pc = "catch"]
      BY <2>1, <3>1, ToFrame
    <3> QED BY <3>1, <3>2, MovedType
  <2> QED BY <1>3, <2>2, FaultEffect DEF Thrown, Busy
<1> QED BY <1>1, <1>2, <1>3

LEMMA WrittenFrame ==
  ASSUME NEW h, Busy(h), NEW pc \in Pcs(h[2]) \ {"idle"}, Written(h, pc)
  PROVE  /\ Frame(h)
         /\ \/ /\ handler'[h] = [handler[h] EXCEPT !.pc = pc] /\ handler'[h].pc = pc
               /\ handler'[h].id = handler[h].id /\ handler'[h].sha = handler[h].sha /\ NoFault
            \/ Thrown(h)
<1>1. CASE To(h, pc) /\ NoFault
  <2>1. Frame(h) /\ handler'[h] = [handler[h] EXCEPT !.pc = pc] /\ handler'[h].pc = pc
        /\ handler'[h].sha = handler[h].sha
    BY <1>1, ToFrame
  <2>2. handler'[h].id = handler[h].id
    BY <2>1, MovedType
  <2> QED BY <1>1, <2>1, <2>2
<1>2. CASE CallFault /\ Throw(h)
  BY <1>2, ThrowFrame
<1> QED BY <1>1, <1>2 DEF Written

LEMMA WrittenLastFrame ==
  ASSUME NEW h, Busy(h), NEW o, WrittenLast(h, o)
  PROVE  Frame(h) /\ (handler'[h] = Idle \/ Thrown(h))
BY SettleFrame, ThrowFrame, DieFrame DEF WrittenLast

-----------------------------------------------------------------------------
(* What a step of a handler does to the rows: it writes none but its own,  *)
(* and leaves none ABSENT.                                                 *)

RowsFrame(h) ==
  /\ RowsOK' /\ UNCHANGED <<created, client>>
  /\ \A j \in Jobs \ {handler[h].id} : job'[j] = job[j]
  /\ \A s \in Commits \ {handler[h].id} : analysis'[s] = analysis[s]
  /\ \A j \in Jobs : job'[j].status = "ABSENT" <=> job[j].status = "ABSENT"

\* The handlers of the two queues know their job and their analysis.
LEMMA IngestIs ==
  ASSUME TypeOK, QueueInv, NEW h \in Handlers, NEW pc \in IngestPcs \ {"idle"}, At(h, "ingest", pc)
  PROVE  /\ Busy(h) /\ h[2] = "ingest" /\ handler[h] \in HandlerOf("ingest")
         /\ handler[h].id \in Jobs /\ job[handler[h].id] \in JobRows
         /\ job[handler[h].id].status # "ABSENT"
<1>1. Busy(h) /\ h[2] = "ingest"
  BY TypeParts DEF Busy, At
<1>2. handler[h].id \in Jobs /\ entry[handler[h].id].state = "active"
  BY <1>1, BusyIs, IdsAre
<1>3. job[handler[h].id] \in JobRows /\ job[handler[h].id].status # "ABSENT"
  BY <1>2, TypeParts DEF RowsOK, QueueInv
<1> QED BY <1>1, <1>2, <1>3, BusyIs

LEMMA AnalyseIs ==
  ASSUME TypeOK, NEW h \in Handlers, NEW pc \in AnalysisPcs \ {"idle"}, At(h, "analysis", pc)
  PROVE  /\ Busy(h) /\ h[2] = "analysis" /\ handler[h] \in HandlerOf("analysis")
         /\ handler[h].id \in Commits /\ analysis[handler[h].id] \in AnalysisRows
<1>1. Busy(h) /\ h[2] = "analysis"
  BY TypeParts DEF Busy, At
<1>2. handler[h].id \in Commits
  BY <1>1, BusyIs, IdsAre
<1>3. analysis[handler[h].id] \in AnalysisRows
  BY <1>2, TypeParts DEF RowsOK
<1> QED BY <1>1, <1>2, <1>3, BusyIs

LEMMA NoWrite ==
  ASSUME TypeOK, NEW h, OnlyHandler PROVE RowsFrame(h)
BY TypeParts DEF OnlyHandler, dbVars, RowsFrame, RowsOK

LEMMA RepositoryWrite ==
  ASSUME TypeOK, NEW h, OnlyRepository,
         repository' \in [clone : CloneStatuses, sha : Commits \cup {None}]
  PROVE  RowsFrame(h)
BY TypeParts DEF OnlyRepository, RowsFrame, RowsOK

LEMMA JobWrite ==
  ASSUME TypeOK, NEW h, handler[h].id \in Jobs, job[handler[h].id].status # "ABSENT",
         NEW row \in JobRows, NEW from \in {"QUEUED", "INGESTING", "FAILED"},
         TransitionJob(handler[h].id, from, row), OnlyJob
  PROVE  RowsFrame(h) /\ job'[handler[h].id] = row
<1>1. job \in [Jobs -> JobRows]
  BY TypeParts DEF RowsOK
<1>2. job' = [job EXCEPT ![handler[h].id] = row] /\ row.status # "ABSENT"
  BY DEF TransitionJob, ALLOWED_JOB_TRANSITIONS, JobStatuses
<1>3. /\ job' \in [Jobs -> JobRows] /\ job'[handler[h].id] = row
      /\ \A j \in Jobs \ {handler[h].id} : job'[j] = job[j]
  BY <1>1, <1>2
<1>4. RowsOK'
  BY <1>3, TypeParts DEF OnlyJob, RowsOK
<1> QED BY <1>2, <1>3, <1>4 DEF OnlyJob, RowsFrame

LEMMA AnalysisWrite ==
  ASSUME TypeOK, NEW h, handler[h].id \in Commits,
         NEW from \in AnalysisStatuses, NEW to \in AnalysisStatuses,
         Transition(handler[h].id, from, to), OnlyAnalysis
  PROVE  /\ RowsFrame(h)
         /\ analysis'[handler[h].id].status = to
         /\ analysis'[handler[h].id].results = analysis[handler[h].id].results
<1>1. analysis \in [Commits -> AnalysisRows]
  BY TypeParts DEF RowsOK
<1>2. /\ analysis' \in [Commits -> AnalysisRows]
      /\ analysis'[handler[h].id].status = to
      /\ analysis'[handler[h].id].results = analysis[handler[h].id].results
      /\ \A s \in Commits \ {handler[h].id} : analysis'[s] = analysis[s]
  BY <1>1 DEF Transition, AnalysisRows
<1>3. RowsOK'
  BY <1>2, TypeParts DEF OnlyAnalysis, RowsOK
<1> QED BY <1>2, <1>3 DEF OnlyAnalysis, RowsFrame

\* Each step of a handler keeps to the frame.
LEMMA IngestFrame ==
  ASSUME TypeOK, QueueInv, NEW h \in Handlers, Ingest(h)
  PROVE  Frame(h) /\ RowsFrame(h)
<1> DEFINE j == handler[h].id
<1> USE DEF IngestPcs, Pcs
<1>1. CASE ReadJob(h)
  <2>1. Busy(h) /\ h[2] = "ingest" /\ handler[h] \in HandlerOf("ingest") /\ j \in Jobs
        /\ job[j] \in JobRows /\ job[j].status # "ABSENT" /\ NoFault /\ OnlyHandler
    BY <1>1, IngestIs DEF ReadJob
  <2>2. CASE job[j].status = "COMPLETED"
    BY <1>1, <2>1, <2>2, SettleFrame, NoWrite DEF ReadJob
  <2>3. CASE job[j].status # "COMPLETED"
    <3> DEFINE pc == ensureIngesting(job[j].status)
               r == [handler[h] EXCEPT !.pc = pc, !.attempt = job[j].attempt]
    <3>1. pc \in {"requeue", "start", "cloning"}
      BY <2>1, <2>3 DEF ensureIngesting, JobRows, JobStatuses
    <3>2. job[j].attempt \in Attempts
      BY <2>1 DEF JobRows
    <3>3. Goto(h, r)
      BY <1>1, <2>3 DEF ReadJob
    <3> HIDE DEF pc
    <3>4. r \in HandlerOf("ingest") /\ r.id = j /\ r.pc = pc
      BY <2>1, <3>1, <3>2 DEF HandlerOf
    <3> HIDE DEF r
    <3> QED BY <2>1, <3>1, <3>3, <3>4, GotoFrame, NoWrite
  <2> QED BY <2>2, <2>3
<1>2. CASE RequeueJob(h)
  <2>1. Busy(h) /\ h[2] = "ingest" /\ j \in Jobs /\ job[j] \in JobRows /\ job[j].status # "ABSENT"
    BY <1>2, IngestIs DEF RequeueJob
  <2>2. [job[j] EXCEPT !.status = "QUEUED"] \in JobRows
    BY <2>1 DEF JobRows, JobStatuses
  <2>3. Frame(h)
    BY <1>2, <2>1, WrittenFrame DEF RequeueJob
  <2> QED BY <1>2, <2>1, <2>2, <2>3, JobWrite DEF RequeueJob
<1>3. CASE StartIngest(h)
  <2>1. Busy(h) /\ h[2] = "ingest" /\ handler[h] \in HandlerOf("ingest") /\ j \in Jobs
        /\ job[j] \in JobRows /\ job[j].status # "ABSENT"
    BY <1>3, IngestIs DEF StartIngest
  <2>2. Another(handler[h].attempt) \in Attempts
    <3>1. handler[h].attempt \in Attempts
      BY <2>1 DEF HandlerOf
    <3> QED BY <3>1, IntakeConstants DEF Another, Attempts
  <2>3. [job[j] EXCEPT !.status = "INGESTING", !.attempt = Another(handler[h].attempt)] \in JobRows
    BY <2>1, <2>2 DEF JobRows, JobStatuses
  <2>4. Frame(h)
    BY <1>3, <2>1, WrittenFrame DEF StartIngest
  <2> QED BY <1>3, <2>1, <2>3, <2>4, JobWrite DEF StartIngest
<1>4. CASE markRepositoryCloning(h)
  <2>1. Busy(h) /\ h[2] = "ingest"
    BY <1>4, IngestIs DEF markRepositoryCloning
  <2>2. Frame(h)
    BY <1>4, <2>1, WrittenFrame DEF markRepositoryCloning
  <2>3. repository' \in [clone : CloneStatuses, sha : Commits \cup {None}]
    BY <1>4, TypeParts DEF markRepositoryCloning, RowsOK, CloneStatuses
  <2> QED BY <1>4, <2>2, <2>3, RepositoryWrite DEF markRepositoryCloning
<1>5. CASE Clone(h)
  <2>1. Busy(h) /\ h[2] = "ingest" /\ handler[h] \in HandlerOf("ingest") /\ OnlyHandler
    BY <1>5, IngestIs DEF Clone
  <2>2. ASSUME NEW s \in Commits, Goto(h, [handler[h] EXCEPT !.pc = "ready", !.sha = s]), NoFault
        PROVE  Frame(h)
    <3> DEFINE r == [handler[h] EXCEPT !.pc = "ready", !.sha = s]
    <3>1. r \in HandlerOf("ingest") /\ r.id = j /\ r.pc = "ready"
      BY <2>1 DEF HandlerOf
    <3> HIDE DEF r
    <3> QED BY <2>1, <2>2, <3>1, GotoFrame DEF r
  <2>3. ASSUME NEW code \in Codes, NoFault,
               Goto(h, [handler[h] EXCEPT !.pc = "markFailed", !.code = code])
        PROVE  Frame(h)
    <3> DEFINE r == [handler[h] EXCEPT !.pc = "markFailed", !.code = code]
    <3>1. r \in HandlerOf("ingest") /\ r.id = j /\ r.pc = "markFailed"
      BY <2>1 DEF HandlerOf
    <3> HIDE DEF r
    <3> QED BY <2>1, <2>3, <3>1, GotoFrame DEF r
  <2> QED BY <1>5, <2>1, <2>2, <2>3, SettleFrame, NoWrite DEF Clone
<1>6. CASE markRepositoryReady(h)
  <2>1. Busy(h) /\ h[2] = "ingest" /\ handler[h] \in HandlerOf("ingest")
    BY <1>6, IngestIs DEF markRepositoryReady
  <2>2. Frame(h)
    BY <1>6, <2>1, WrittenFrame DEF markRepositoryReady
  <2>3. repository' \in [clone : CloneStatuses, sha : Commits \cup {None}]
    BY <1>6, <2>1 DEF markRepositoryReady, HandlerOf, CloneStatuses
  <2> QED BY <1>6, <2>2, <2>3, RepositoryWrite DEF markRepositoryReady
<1>7. CASE CompleteJob(h)
  <2>1. Busy(h) /\ h[2] = "ingest" /\ handler[h] \in HandlerOf("ingest") /\ j \in Jobs
        /\ job[j] \in JobRows /\ job[j].status # "ABSENT"
    BY <1>7, IngestIs DEF CompleteJob
  <2>2. [job[j] EXCEPT !.status = "COMPLETED", !.code = "none", !.sha = handler[h].sha] \in JobRows
    <3>1. handler[h].sha \in Commits \cup {None}
      BY <2>1 DEF HandlerOf
    <3> QED BY <2>1, <3>1 DEF JobRows, JobStatuses, Codes
  <2>3. Frame(h)
    BY <1>7, <2>1, WrittenLastFrame DEF CompleteJob
  <2> QED BY <1>7, <2>1, <2>2, <2>3, JobWrite DEF CompleteJob
<1>8. CASE markRepositoryFailed(h)
  <2>1. Busy(h) /\ h[2] = "ingest"
    BY <1>8, IngestIs DEF markRepositoryFailed
  <2>2. Frame(h)
    BY <1>8, <2>1, WrittenFrame DEF markRepositoryFailed
  <2>3. repository' \in [clone : CloneStatuses, sha : Commits \cup {None}]
    BY <1>8, TypeParts DEF markRepositoryFailed, RowsOK, CloneStatuses
  <2> QED BY <1>8, <2>2, <2>3, RepositoryWrite DEF markRepositoryFailed
<1>9. CASE RereadJob(h)
  <2>1. Busy(h) /\ h[2] = "ingest" /\ handler[h] \in HandlerOf("ingest") /\ job[j] \in JobRows
        /\ NoFault /\ OnlyHandler
    BY <1>9, IngestIs DEF RereadJob
  <2> DEFINE r == [handler[h] EXCEPT !.pc = "fail", !.attempt = job[j].attempt]
  <2>2. r \in HandlerOf("ingest") /\ r.id = j /\ r.pc = "fail"
    BY <2>1 DEF HandlerOf, JobRows
  <2>3. Goto(h, r)
    BY <1>9 DEF RereadJob
  <2> HIDE DEF r
  <2> QED BY <2>1, <2>2, <2>3, GotoFrame, NoWrite
<1>10. CASE FailJob(h)
  <2>1. Busy(h) /\ h[2] = "ingest" /\ handler[h] \in HandlerOf("ingest") /\ j \in Jobs
        /\ job[j] \in JobRows /\ job[j].status # "ABSENT"
    BY <1>10, IngestIs DEF FailJob
  <2>2. [job[j] EXCEPT !.status = "FAILED", !.code = handler[h].code] \in JobRows
    <3>1. handler[h].code \in Codes
      BY <2>1 DEF HandlerOf
    <3> QED BY <2>1, <3>1 DEF JobRows, JobStatuses
  <2>3. Frame(h)
    BY <1>10, <2>1, WrittenLastFrame DEF FailJob
  <2> QED BY <1>10, <2>1, <2>2, <2>3, JobWrite DEF FailJob
<1> QED BY <1>1, <1>2, <1>3, <1>4, <1>5, <1>6, <1>7, <1>8, <1>9, <1>10 DEF Ingest

LEMMA AnalyseFrame ==
  ASSUME TypeOK, NEW h \in Handlers, Analyse(h)
  PROVE  Frame(h) /\ RowsFrame(h)
<1> DEFINE s == handler[h].id
<1> USE DEF AnalysisPcs, Pcs
<1>1. CASE ReadAnalysis(h)
  <2>1. Busy(h) /\ h[2] = "analysis" /\ handler[h] \in HandlerOf("analysis")
        /\ analysis[s] \in AnalysisRows /\ NoFault /\ OnlyHandler
    BY <1>1, AnalyseIs DEF ReadAnalysis
  <2>2. CASE analysis[s].status = "COMPLETED"
    BY <1>1, <2>1, <2>2, SettleFrame, NoWrite DEF ReadAnalysis
  <2>3. CASE analysis[s].status # "COMPLETED"
    <3> DEFINE r == [handler[h] EXCEPT !.pc = "repository", !.seen = analysis[s].status]
    <3>1. Goto(h, r)
      BY <1>1, <2>3 DEF ReadAnalysis
    <3>2. r \in HandlerOf("analysis") /\ r.id = s /\ r.pc = "repository"
      BY <2>1 DEF HandlerOf, AnalysisRows
    <3> HIDE DEF r
    <3> QED BY <2>1, <3>1, <3>2, GotoFrame, NoWrite
  <2> QED BY <2>2, <2>3
<1>2. CASE ReadRepository(h)
  <2>1. Busy(h) /\ h[2] = "analysis" /\ handler[h] \in HandlerOf("analysis") /\ s \in Commits
        /\ NoFault /\ OnlyHandler
    BY <1>2, AnalyseIs DEF ReadRepository
  <2>2. CASE To(h, "mismatch")
    BY <2>1, <2>2, ToFrame, NoWrite
  <2>3. ASSUME NEW pc \in {"requeue", "start", "materialize"}, Enter(h, pc) PROVE Frame(h)
    <3> DEFINE r == [Idle EXCEPT !.id = s, !.pc = pc]
    <3>1. r \in HandlerOf("analysis") /\ r.id = s /\ r.pc = pc
      BY <2>1, IdleType DEF Idle, HandlerOf, Queues, QueueIds
    <3>2. Goto(h, r)
      BY <2>3 DEF Enter
    <3> HIDE DEF r
    <3> QED BY <2>1, <3>1, <3>2, GotoFrame
  <2> QED BY <1>2, <2>1, <2>2, <2>3, NoWrite DEF ReadRepository
<1>3. CASE Mismatch(h)
  <2>1. Busy(h) /\ h[2] = "analysis" /\ s \in Commits /\ handler[h].seen \in AnalysisStatuses
    BY <1>3, AnalyseIs DEF Mismatch, HandlerOf
  <2>2. CASE Transition(s, handler[h].seen, "FAILED") /\ WrittenLast(h, "stop")
    BY <1>3, <2>1, <2>2, WrittenLastFrame, AnalysisWrite DEF Mismatch, AnalysisStatuses
  <2>3. CASE Settle(h, "retry") /\ NoFault /\ UNCHANGED analysis
    <3>1. OnlyHandler
      BY <1>3, <2>3 DEF Mismatch, OnlyAnalysis, OnlyHandler, dbVars
    <3> QED BY <2>1, <2>3, <3>1, SettleFrame, NoWrite
  <2> QED BY <1>3, <2>2, <2>3 DEF Mismatch
<1>4. ASSUME NEW pc \in AnalysisPcs \ {"idle"}, NEW from \in AnalysisStatuses,
             NEW to \in AnalysisStatuses, NEW next \in AnalysisPcs \ {"idle"},
             Step(h, pc, from, to, next)
      PROVE  Frame(h) /\ RowsFrame(h)
  <2>1. Busy(h) /\ h[2] = "analysis" /\ s \in Commits
    BY <1>4, AnalyseIs DEF Step
  <2>2. Frame(h)
    BY <1>4, <2>1, WrittenFrame DEF Step
  <2> QED BY <1>4, <2>1, <2>2, AnalysisWrite DEF Step
<1>5. CASE Requeue(h) \/ Start(h) \/ Inventory(h) \/ Analyzing(h)
  BY <1>4, <1>5 DEF Requeue, Start, Inventory, Analyzing, AnalysisStatuses
<1>6. CASE Materialize(h)
  <2>1. Busy(h) /\ h[2] = "analysis" /\ OnlyHandler
    BY <1>6, AnalyseIs DEF Materialize
  <2>2. ASSUME NEW pc \in {"inventory", "catch"}, To(h, pc), NoFault PROVE Frame(h)
    BY <2>1, <2>2, ToFrame
  <2> QED BY <1>6, <2>1, <2>2, SettleFrame, NoWrite DEF Materialize
<1>7. CASE PersistResult(h)
  <2>1. Busy(h) /\ h[2] = "analysis" /\ s \in Commits /\ analysis[s] \in AnalysisRows
    BY <1>7, AnalyseIs DEF PersistResult
  <2>2. CASE /\ analysis' = [analysis EXCEPT ![s].results = Appended(@)]
             /\ Written(h, "complete")
    <3>1. Frame(h)
      BY <2>1, <2>2, WrittenFrame
    <3>2. Appended(analysis[s].results) \in 0 .. 2
      BY <2>1 DEF AnalysisRows, Appended
    <3>3. analysis \in [Commits -> AnalysisRows]
      BY TypeParts DEF RowsOK
    <3>4. /\ analysis' \in [Commits -> AnalysisRows]
          /\ \A c \in Commits \ {s} : analysis'[c] = analysis[c]
      BY <2>1, <2>2, <3>2, <3>3 DEF AnalysisRows
    <3> QED BY <1>7, <3>1, <3>4, TypeParts DEF PersistResult, OnlyAnalysis, RowsFrame, RowsOK
  <2>3. CASE To(h, "catch") /\ NoFault /\ UNCHANGED analysis
    <3>1. OnlyHandler
      BY <1>7, <2>3 DEF PersistResult, OnlyAnalysis, OnlyHandler, dbVars
    <3> QED BY <2>1, <2>3, <3>1, ToFrame, NoWrite
  <2> QED BY <1>7, <2>2, <2>3 DEF PersistResult
<1>8. CASE CompleteAnalysis(h)
  <2>1. Busy(h) /\ h[2] = "analysis" /\ s \in Commits
    BY <1>8, AnalyseIs DEF CompleteAnalysis
  <2>2. Frame(h)
    BY <1>8, <2>1, WrittenLastFrame, SettleFrame DEF CompleteAnalysis
  <2> QED BY <1>8, <2>1, <2>2, AnalysisWrite DEF CompleteAnalysis, AnalysisStatuses
<1>9. CASE Catch(h)
  <2>1. Busy(h) /\ h[2] = "analysis" /\ handler[h] \in HandlerOf("analysis")
        /\ analysis[s] \in AnalysisRows /\ NoFault /\ OnlyHandler
    BY <1>9, AnalyseIs DEF Catch
  <2>2. ASSUME Goto(h, [handler[h] EXCEPT !.pc = "fail", !.seen = analysis[s].status])
        PROVE  Frame(h)
    <3> DEFINE r == [handler[h] EXCEPT !.pc = "fail", !.seen = analysis[s].status]
    <3>1. r \in HandlerOf("analysis") /\ r.id = s /\ r.pc = "fail"
      BY <2>1 DEF HandlerOf, AnalysisRows
    <3> HIDE DEF r
    <3> QED BY <2>1, <2>2, <3>1, GotoFrame DEF r
  <2> QED BY <1>9, <2>1, <2>2, SettleFrame, NoWrite DEF Catch
<1>10. CASE FailAnalysis(h)
  <2>1. Busy(h) /\ h[2] = "analysis" /\ s \in Commits /\ handler[h].seen \in AnalysisStatuses
    BY <1>10, AnalyseIs DEF FailAnalysis, HandlerOf
  <2>2. Frame(h)
    BY <1>10, <2>1, WrittenLastFrame DEF FailAnalysis
  <2> QED BY <1>10, <2>1, <2>2, AnalysisWrite DEF FailAnalysis, AnalysisStatuses
<1> QED BY <1>1, <1>2, <1>3, <1>5, <1>6, <1>7, <1>8, <1>9, <1>10 DEF Analyse

LEMMA RefusedFrame ==
  ASSUME TypeOK, NEW h \in Handlers, Refused(h)
  PROVE  Frame(h) /\ OnlyHandler /\ RowsFrame(h) /\ Thrown(h)
<1>1. Busy(h)
  BY TypeParts DEF Refused, Busy, DatabaseCalls
<1> QED BY <1>1, ThrowFrame, NoWrite DEF Refused, OnlyHandler

\* A step of some handler.
Works(h) == Refused(h) \/ Ingest(h) \/ Analyse(h)

LEMMA WorksFrame ==
  ASSUME TypeOK, QueueInv, NEW h \in Handlers, Works(h)
  PROVE  Frame(h) /\ RowsFrame(h) /\ Busy(h)
<1>1. handler[h].pc # "idle"
  BY DEF Works, Refused, DatabaseCalls, Ingest, Analyse, At, ReadJob, RequeueJob, StartIngest,
     markRepositoryCloning, Clone, markRepositoryReady, CompleteJob, markRepositoryFailed, RereadJob,
     FailJob, ReadAnalysis, ReadRepository, Mismatch, Step, Requeue, Start, Inventory, Analyzing,
     Materialize, PersistResult, CompleteAnalysis, Catch, FailAnalysis
<1>2. Busy(h)
  BY <1>1, TypeParts DEF Busy
<1> QED BY <1>2, IngestFrame, AnalyseFrame, RefusedFrame DEF Works

LEMMA WorksType ==
  ASSUME TypeOK, QueueInv, NEW h \in Handlers, Works(h) PROVE TypeOK'
<1>1. client' = client /\ RowsOK' /\ HandlersOK' /\ FaultsOK'
  BY WorksFrame DEF Frame, RowsFrame
<1> QED BY <1>1, TypeParts

-----------------------------------------------------------------------------
(* The queues and the requests                                             *)

\* A nonempty set of positions has a last one.
LEMMA NewestIs ==
  ASSUME NEW n \in Nat, NEW ns, ns \subseteq 1 .. n, ns # {}
  PROVE  Newest(ns) \in ns
<1> DEFINE After(k) == {m \in ns : m >= k}
           All == {After(k) : k \in ns}
<1>1. IsFiniteSet(1 .. n)
  BY FS_Interval
<1>2. All \subseteq FiniteSubsetsOf(1 .. n) /\ All # {}
  <2>1. \A k \in ns : IsFiniteSet(After(k)) /\ After(k) \subseteq 1 .. n
    BY <1>1, FS_Subset
  <2> QED BY <2>1 DEF FiniteSubsetsOf
<1>3. PICK A \in All : \A B \in All : ~ (<<B, A>> \in StrictSubsetOrdering(1 .. n))
  BY <1>2, FS_StrictSubsetOrderingWellFounded, WFMin
<1>4. PICK k \in ns : A = After(k)
  BY <1>3
<1>5. ASSUME NEW m \in ns, ~ (m <= k) PROVE FALSE
  <2>1. After(m) \in All /\ After(m) \subseteq After(k) /\ k \in After(k) /\ k \notin After(m)
    <3>1. m \in Nat /\ k \in Nat /\ m > k /\ ns \subseteq Nat
      BY <1>5
    <3>2. After(m) \in All
      OBVIOUS
    <3>3. \A x \in ns : x >= m => x >= k
      BY <3>1
    <3>4. After(m) \subseteq After(k)
      BY <3>3
    <3>5. k >= k /\ ~ (k >= m)
      BY <3>1
    <3> QED BY <3>2, <3>4, <3>5
  <2>2. <<After(m), After(k)>> \in StrictSubsetOrdering(1 .. n)
    BY <2>1 DEF StrictSubsetOrdering
  <2> QED BY <1>3, <1>4, <2>1, <2>2
<1>6. k \in ns /\ \A m \in ns : m <= k
  BY <1>5
<1> HIDE DEF All, After
<1> QED BY <1>6 DEF Newest

LEMMA CreatedType ==
  ASSUME TypeOK
  PROVE  /\ \E n \in 0 .. Cardinality(Jobs) : created \in [1 .. n -> Jobs]
         /\ CompletedAt # {} => created[Newest(CompletedAt)] \in Jobs
                                /\ job[created[Newest(CompletedAt)]].status = "COMPLETED"
<1>1. PICK n \in 0 .. Cardinality(Jobs) : created \in [1 .. n -> Jobs]
  BY TypeParts DEF RowsOK
<1>2. n \in Nat /\ CompletedAt \subseteq 1 .. n
  <2>1. Cardinality(Jobs) \in Nat
    BY IntakeConstants, FS_CardinalityType
  <2> QED BY <1>1, <2>1 DEF CompletedAt
<1>3. ASSUME CompletedAt # {} PROVE Newest(CompletedAt) \in CompletedAt
  BY <1>2, <1>3, NewestIs
<1> QED BY <1>1, <1>3, <1>2 DEF CompletedAt

\* A job that had no row is one more among the created ones.
LEMMA AppendType ==
  ASSUME TypeOK, CreatedInv, NEW j \in Jobs, job[j].status = "ABSENT", created' = Append(created, j)
  PROVE  /\ created' \in UNION {[1 .. n -> Jobs] : n \in 0 .. Cardinality(Jobs)}
         /\ \A m, n \in DOMAIN created' : created'[m] = created'[n] => m = n
         /\ \A i \in Jobs : (\E n \in DOMAIN created' : created'[n] = i)
                              <=> i = j \/ \E n \in DOMAIN created : created[n] = i
<1>0. Cardinality(Jobs) \in Nat /\ IsFiniteSet(Jobs)
  BY IntakeConstants, FS_CardinalityType
<1>1. PICK n \in 0 .. Cardinality(Jobs) : created \in [1 .. n -> Jobs]
  BY CreatedType
<1>2. n \in Nat
  BY <1>0
<1>3. created \in Seq(Jobs) /\ Len(created) = n
  BY <1>1, <1>2
<1>4. /\ created' \in [1 .. n + 1 -> Jobs] /\ created'[n + 1] = j
      /\ \A m \in 1 .. n : created'[m] = created[m]
  <2>1. created' \in Seq(Jobs) /\ Len(created') = n + 1
    BY <1>3
  <2>2. created'[n + 1] = j /\ \A m \in 1 .. n : created'[m] = created[m]
    BY <1>2, <1>3
  <2> QED BY <2>1, <2>2, LenProperties
<1>5. \A m \in 1 .. n : created[m] # j
  BY <1>1 DEF CreatedInv
<1>6. \A m, k \in 1 .. n + 1 : created'[m] = created'[k] => m = k
  <2>1. \A m, k \in 1 .. n : created[m] = created[k] => m = k
    BY <1>1 DEF CreatedInv
  <2> QED BY <1>2, <1>4, <1>5, <2>1
<1>7. n + 1 <= Cardinality(Jobs)
  <2>1. created' \in Injection(1 .. n + 1, Jobs)
    BY <1>4, <1>6 DEF Injection, IsInjective
  <2>2. Cardinality(1 .. n + 1) <= Cardinality(Jobs)
    BY <1>0, <2>1, FS_Injection
  <2>3. Cardinality(1 .. n + 1) = n + 1
    BY <1>2, FS_Interval
  <2> QED BY <2>2, <2>3
<1>8. n + 1 \in 0 .. Cardinality(Jobs)
  BY <1>0, <1>2, <1>7
<1>9. DOMAIN created' = 1 .. n + 1 /\ DOMAIN created = 1 .. n
  BY <1>1, <1>4
<1>10. \A i \in Jobs : (\E m \in 1 .. n + 1 : created'[m] = i)
                         <=> i = j \/ \E m \in 1 .. n : created[m] = i
  BY <1>2, <1>4
<1> QED BY <1>4, <1>6, <1>8, <1>9, <1>10

\* A handler takes a job that waits, which nobody has.
LEMMA TakeEffect ==
  ASSUME TypeOK, NEW h \in Handlers, NEW i \in Ids, Take(h, i)
  PROVE  /\ TypeOK' /\ UNCHANGED <<job, created, repository, analysis, client, faults, lost>>
         /\ handler[h] = Idle /\ handler'[h].id = i /\ handler'[h].pc = "read"
         /\ \A g \in Handlers : handler[g].id # i
         /\ \A g \in Handlers \ {h} : handler'[g] = handler[g]
         /\ entry[i].state = "waiting" /\ entry'[i].state = "active"
         /\ entry'[i].stalls = entry[i].stalls
         /\ \A k \in Ids \ {i} : entry'[k] = entry[k]
<1> DEFINE r == [Idle EXCEPT !.id = i, !.pc = "read"]
<1>0. HandlersOK /\ h[2] \in Queues /\ i \in QueueIds(h[2])
  BY TypeParts, HandlerIs DEF Take
<1>1. UNCHANGED <<job, created, repository, analysis, client, faults, lost>>
  BY DEF Take, dbVars, NoFault
<1>2. handler' = [handler EXCEPT ![h] = r] /\ handler[h] = Idle
  BY DEF Take
<1>3. r \in HandlerOf(h[2]) /\ r.id = i /\ r.pc = "read"
  BY <1>0, IdleType DEF Idle, HandlerOf, IngestPcs, AnalysisPcs
<1>4. /\ entry' \in [Ids -> Entries] /\ entry[i].state = "waiting"
      /\ entry'[i].state = "active" /\ entry'[i].stalls = entry[i].stalls
      /\ \A k \in Ids \ {i} : entry'[k] = entry[k]
  BY <1>0 DEF Take, HandlersOK, Entries
<1> HIDE DEF r
<1>5. /\ DOMAIN handler' = Handlers /\ handler'[h] = r
      /\ \A g \in Handlers \ {h} : handler'[g] = handler[g]
  BY <1>0, <1>2 DEF HandlersOK
<1>6. \A g \in Handlers : handler[g].id # i
  BY <1>0, <1>4, IdsAre DEF HandlersOK, Holds
<1>7. \A g \in Handlers : Holds(g)'
  <2> TAKE g \in Handlers
  <2>1. CASE g = h
    BY <2>1, <1>3, <1>4, <1>5, IdsAre DEF Holds
  <2>2. CASE g # h
    <3>1. Holds(g) /\ handler[g].id # i
      BY <1>0, <1>6 DEF HandlersOK
    <3>2. handler[g].id # None => handler[g].id \in Ids
      BY <3>1, HandlerIs, IdsAre DEF Holds, HandlerOf
    <3> QED BY <2>2, <3>1, <3>2, <1>4, <1>5 DEF Holds
  <2> QED BY <2>1, <2>2
<1>8. Alone'
  BY <1>0, <1>3, <1>5, <1>6 DEF HandlersOK, Alone
<1>9. HandlersOK'
  BY <1>4, <1>5, <1>7, <1>8 DEF HandlersOK
<1>10. RowsOK' /\ client' \in [Clients -> Requests] /\ FaultsOK'
  BY <1>1, TypeParts DEF RowsOK, FaultsOK
<1>11. TypeOK'
  BY <1>9, <1>10, TypeParts
<1> QED BY <1>1, <1>2, <1>3, <1>4, <1>5, <1>6, <1>11

LEMMA StalledEffect ==
  ASSUME TypeOK, NEW i \in Ids, Stalled(i)
  PROVE  /\ TypeOK' /\ UNCHANGED <<job, created, repository, analysis, client, handler, faults, lost>>
         /\ Abandoned(i) /\ entry'[i].state \in {"waiting", "done"}
         /\ \/ entry[i].stalls = 0 /\ entry'[i].state = "waiting" /\ entry'[i].stalls = 1
            \/ entry'[i].stalls = 0 /\ entry[i].stalls # 0
         /\ \A k \in Ids \ {i} : entry'[k] = entry[k]
<1> DEFINE e == entry[i]
           again == [e EXCEPT !.state = "waiting", !.stalls = e.stalls + 1]
           done == [NewEntry EXCEPT !.state = "done"]
<1>1. HandlersOK /\ e \in Entries /\ e.stalls \in 0 .. 1
  BY TypeParts DEF HandlersOK, Entries, MaxStalls
<1>2. UNCHANGED <<job, created, repository, analysis, client, handler, faults, lost>> /\ Abandoned(i)
  BY DEF Stalled, dbVars, NoFault
<1>3. entry' = IF e.stalls < MaxStalls THEN [entry EXCEPT ![i] = again]
               ELSE [entry EXCEPT ![i] = done]
  BY DEF Stalled
<1> HIDE DEF e
<1>4. e.stalls = 0 => again \in Entries /\ again.state = "waiting" /\ again.stalls = 1
  <2> SUFFICES ASSUME e.stalls = 0 PROVE again \in Entries /\ again.state = "waiting" /\ again.stalls = 1
    OBVIOUS
  <2> DEFINE one == [e EXCEPT !.state = "waiting", !.stalls = 1]
  <2>1. 1 \in 0 .. MaxStalls
    BY DEF MaxStalls
  <2>2. one \in Entries /\ one.state = "waiting" /\ one.stalls = 1
    BY <1>1, <2>1 DEF Entries
  <2>3. again = one
    OBVIOUS
  <2> HIDE DEF again, one
  <2> QED BY <2>2, <2>3
<1>5. done \in Entries /\ done.state = "done" /\ done.stalls = 0
  BY IdleType DEF NewEntry
<1> HIDE DEF again, done
<1>6. /\ entry' \in [Ids -> Entries] /\ entry'[i].state \in {"waiting", "done"}
      /\ \/ e.stalls = 0 /\ entry'[i].state = "waiting" /\ entry'[i].stalls = 1
         \/ entry'[i].stalls = 0 /\ e.stalls # 0
      /\ \A k \in Ids \ {i} : entry'[k] = entry[k]
  BY <1>1, <1>3, <1>4, <1>5 DEF MaxStalls, HandlersOK
<1>7. \A h \in Handlers : Holds(h)'
  <2> TAKE h \in Handlers
  <2>1. Holds(h) /\ handler[h].id # i
    BY <1>1, <1>2 DEF HandlersOK, Abandoned
  <2>2. handler[h].id # None => handler[h].id \in Ids
    BY <2>1, HandlerIs, IdsAre DEF Holds, HandlerOf
  <2> QED BY <2>1, <2>2, <1>2, <1>6 DEF Holds
<1>8. HandlersOK'
  BY <1>1, <1>2, <1>6, <1>7 DEF HandlersOK, Alone
<1>9. RowsOK' /\ client' \in [Clients -> Requests] /\ FaultsOK'
  BY <1>2, TypeParts DEF RowsOK, FaultsOK
<1>10. TypeOK'
  BY <1>8, <1>9, TypeParts
<1> QED BY <1>2, <1>6, <1>10 DEF e

LEMMA CrashEffect ==
  ASSUME TypeOK, NEW w \in Workers, Crash(w)
  PROVE  /\ TypeOK' /\ UNCHANGED <<job, created, repository, analysis, client, entry, lost>>
         /\ \A g \in Handlers : handler'[g] = handler[g] \/ handler'[g] = Idle
         /\ faults' = faults + 1 /\ faults' > faults
<1>1. HandlersOK /\ FaultsOK /\ Die(w)
  BY TypeParts DEF Crash
<1>2. UNCHANGED <<job, created, repository, analysis, client>>
  BY DEF Crash, dbVars
<1>3. RowsOK' /\ client' \in [Clients -> Requests]
  BY <1>2, TypeParts DEF RowsOK
<1> QED BY <1>1, <1>2, <1>3, DieEffect, TypeParts

\* A request adds rows and queue entries, and changes none that is there.
LEMMA ClientEffect ==
  ASSUME TypeOK, CreatedInv, NEW k \in Clients, Client(k)
  PROVE  /\ TypeOK' /\ UNCHANGED <<repository, handler, lost>>
         /\ faults' = faults \/ (faults' = faults + 1 /\ faults' > faults)
         /\ \A j \in Jobs : job[j].status # "ABSENT" => job'[j] = job[j]
         /\ \A j \in Jobs : job[j].status = "ABSENT" => job'[j] = job[j] \/ job'[j].status = "QUEUED"
         /\ \A s \in Commits :
              \/ analysis'[s] = analysis[s]
              \/ /\ analysis[s].status = "ABSENT" /\ analysis'[s].status = "QUEUED"
                 /\ analysis'[s].results = analysis[s].results
         /\ \A i \in Ids : /\ entry'[i].stalls = entry[i].stalls
                           /\ \/ entry'[i] = entry[i]
                              \/ entry[i].state \in {"none", "done"} /\ entry'[i].state = "waiting"
<1>0. /\ HandlersOK /\ RowsOK /\ FaultsOK /\ client \in [Clients -> Requests]
      /\ job \in [Jobs -> JobRows] /\ analysis \in [Commits -> AnalysisRows]
      /\ entry \in [Ids -> Entries]
  BY TypeParts DEF RowsOK, HandlersOK
<1>q. ASSUME NEW pc \in ClientPcs, NEW i \in Ids \cup {None}, Ask(k, pc, i)
      PROVE  client' \in [Clients -> Requests]
  BY <1>0, <1>q DEF Ask, Requests
<1>f. ASSUME Done(k) PROVE client' \in [Clients -> Requests]
  BY <1>0, <1>f DEF Done, Free, Requests, ClientPcs
<1>c. client[k].id \in Ids \cup {None}
  BY <1>0 DEF Requests
<1>s. Commits \subseteq Ids /\ Jobs \subseteq Ids
  BY DEF Ids
<1>1. ASSUME NEW j \in Jobs, FindOrCreateJob(k, j)
      PROVE  /\ TypeOK' /\ UNCHANGED <<repository, analysis, entry, handler, faults, lost>>
             /\ \A i \in Jobs : \/ job'[i] = job[i]
                                \/ job[i].status = "ABSENT" /\ job'[i].status = "QUEUED"
  <2>1. UNCHANGED <<repository, analysis, entry, handler, faults, lost>>
    BY <1>1 DEF FindOrCreateJob, NoFault
  <2>2. client' \in [Clients -> Requests]
    BY <1>1, <1>q, <1>s DEF FindOrCreateJob, ClientPcs
  <2>3. CASE UNCHANGED <<job, created>>
    BY <2>1, <2>2, <2>3, <1>0, TypeParts DEF RowsOK, HandlersOK, Holds, Alone, FaultsOK
  <2>4. CASE /\ job[j].status = "ABSENT" /\ job' = [job EXCEPT ![j].status = "QUEUED"]
             /\ created' = Append(created, j)
    <3>1. /\ job' \in [Jobs -> JobRows]
          /\ \A i \in Jobs : \/ job'[i] = job[i]
                             \/ job[i].status = "ABSENT" /\ job'[i].status = "QUEUED"
      BY <2>4, <1>0 DEF JobRows, JobStatuses
    <3>2. RowsOK'
      BY <2>1, <2>4, <3>1, <1>0, AppendType DEF RowsOK
    <3>3. HandlersOK' /\ FaultsOK'
      BY <2>1, <1>0 DEF HandlersOK, Holds, Alone, FaultsOK
    <3> QED BY <2>1, <2>2, <3>1, <3>2, <3>3, TypeParts
  <2> QED BY <1>1, <2>3, <2>4 DEF FindOrCreateJob
<1>2. CASE Enqueue(k)
  <2>1. UNCHANGED <<job, created, repository, analysis, handler, faults, lost>>
    BY <1>2 DEF Enqueue, dbVars, NoFault
  <2>2. /\ entry' \in [Ids -> Entries]
        /\ \A i \in Ids : /\ entry'[i].stalls = entry[i].stalls
                          /\ \/ entry'[i] = entry[i]
                             \/ entry[i].state \in {"none", "done"} /\ entry'[i].state = "waiting"
    BY <1>0, <1>2 DEF Enqueue, Entries
  <2>3. \A h \in Handlers : Holds(h)'
    <3> TAKE h \in Handlers
    <3>1. Holds(h)
      BY <1>0 DEF HandlersOK
    <3>2. handler[h].id # None => handler[h].id \in Ids
      BY <3>1, HandlerIs, IdsAre DEF Holds, HandlerOf
    <3> QED BY <2>1, <2>2, <3>1, <3>2 DEF Holds
  <2>4. HandlersOK' /\ RowsOK' /\ FaultsOK'
    BY <1>0, <2>1, <2>2, <2>3 DEF HandlersOK, Alone, RowsOK, FaultsOK
  <2>5. client' \in [Clients -> Requests]
    BY <1>2, <1>f DEF Enqueue
  <2>6. TypeOK'
    BY <2>4, <2>5, TypeParts
  <2> QED BY <2>1, <2>2, <2>6
<1>3. CASE RequestAnalysis(k) \/ ListJobs(k)
  <2>1. UNCHANGED <<job, created, repository, analysis, entry, handler, faults, lost>>
    BY <1>3 DEF RequestAnalysis, ListJobs, OnlyClient, dbVars, NoFault
  <2>2. repository.sha \in Ids \cup {None}
    BY <1>0, <1>s DEF RowsOK
  <2>3. ASSUME CompletedAt # {} PROVE job[created[Newest(CompletedAt)]].sha \in Ids \cup {None}
    <3>1. created[Newest(CompletedAt)] \in Jobs
      BY <2>3, CreatedType
    <3> QED BY <3>1, <1>0, <1>s DEF JobRows
  <2>4. client' \in [Clients -> Requests]
    BY <1>3, <1>q, <1>c, <2>2, <2>3 DEF RequestAnalysis, ListJobs, ClientPcs
  <2>5. HandlersOK' /\ RowsOK' /\ FaultsOK'
    BY <1>0, <2>1 DEF HandlersOK, Holds, Alone, RowsOK, FaultsOK
  <2>6. TypeOK'
    BY <2>4, <2>5, TypeParts
  <2> QED BY <2>1, <2>6
<1>4. CASE FindOrCreateAnalysis(k)
  <2>1. UNCHANGED <<job, created, repository, entry, handler, faults, lost>>
    BY <1>4 DEF FindOrCreateAnalysis, NoFault
  <2>2. client' \in [Clients -> Requests]
    BY <1>4, <1>q, <1>f, <1>c DEF FindOrCreateAnalysis, ClientPcs
  <2>3. /\ analysis' \in [Commits -> AnalysisRows]
        /\ \A s \in Commits :
             \/ analysis'[s] = analysis[s]
             \/ /\ analysis[s].status = "ABSENT" /\ analysis'[s].status = "QUEUED"
                /\ analysis'[s].results = analysis[s].results
    BY <1>0, <1>4 DEF FindOrCreateAnalysis, AnalysisRows, AnalysisStatuses
  <2>4. HandlersOK' /\ RowsOK' /\ FaultsOK'
    BY <1>0, <2>1, <2>3 DEF HandlersOK, Holds, Alone, RowsOK, FaultsOK
  <2>5. TypeOK'
    BY <2>2, <2>4, TypeParts
  <2> QED BY <2>1, <2>3, <2>5
<1>5. CASE Abandon(k)
  <2>1. UNCHANGED <<job, created, repository, analysis, entry, handler, lost>>
    BY <1>5 DEF Abandon, dbVars
  <2>2. client' \in [Clients -> Requests]
    BY <1>5, <1>f DEF Abandon
  <2>3. faults' = faults + 1 /\ faults' > faults /\ faults' \in 0 .. MaxFaults
    BY <1>0, <1>5, IntakeConstants DEF Abandon, Fault, FaultsOK
  <2>4. HandlersOK' /\ RowsOK' /\ FaultsOK'
    BY <1>0, <2>1, <2>3 DEF HandlersOK, Holds, Alone, RowsOK, FaultsOK
  <2>5. TypeOK'
    BY <2>2, <2>4, TypeParts
  <2> QED BY <2>1, <2>3, <2>5
<1> QED BY <1>1, <1>2, <1>3, <1>4, <1>5 DEF Client

LEMMA InitType == Init => TypeOK
<1> SUFFICES ASSUME Init PROVE TypeOK
  OBVIOUS
<1>1. handler = [h \in Handlers |-> Idle]
  BY DEF Init
<1>2. \A h \in Handlers : handler[h] \in HandlerOf(h[2]) /\ handler[h].pc = "idle" /\ handler[h].id = None
  BY <1>1, IdleType, HandlerIs
<1>3. created \in [1 .. 0 -> Jobs] /\ 0 \in 0 .. Cardinality(Jobs)
  <2>1. Cardinality(Jobs) \in Nat
    BY IntakeConstants, FS_CardinalityType
  <2>2. created = <<>> /\ 1 .. 0 = {}
    BY DEF Init
  <2> QED BY <2>1, <2>2
<1>4. job \in [Jobs -> JobRows]
  BY IntakeConstants DEF Init, NoJob, JobRows, JobStatuses, Attempts, Codes
<1>5. analysis \in [Commits -> AnalysisRows] /\ entry \in [Ids -> Entries]
  BY IdleType DEF Init, AnalysisRows, AnalysisStatuses
<1>6. client \in [Clients -> Requests] /\ repository \in [clone : CloneStatuses, sha : Commits \cup {None}]
  BY DEF Init, Free, Requests, ClientPcs, CloneStatuses
<1>7. faults \in 0 .. MaxFaults /\ lost \in BOOLEAN
  <2>1. faults = 0 /\ lost = FALSE
    BY DEF Init
  <2>2. 0 \in 0 .. MaxFaults
    BY IntakeConstants
  <2> QED BY <2>1, <2>2
<1>8. created \in UNION {[1 .. n -> Jobs] : n \in 0 .. Cardinality(Jobs)}
  BY <1>3
<1> QED BY <1>1, <1>2, <1>4, <1>5, <1>6, <1>7, <1>8 DEF TypeOK

-----------------------------------------------------------------------------
(* What each step of a handler does to its own row and to the repository   *)

\* An ingest looks at its job, ...
Begins(h) ==
  /\ handler[h].pc = "read" /\ UNCHANGED <<job, repository, faults, lost>>
  /\ IF job[handler[h].id].status = "COMPLETED" THEN handler'[h] = Idle
     ELSE handler'[h].pc \in {"requeue", "start", "cloning"}

\* ... makes it INGESTING, ...
Sets(h) ==
  /\ handler[h].pc \in {"requeue", "start"} /\ UNCHANGED repository
  /\ job'[handler[h].id].status \in {"QUEUED", "INGESTING"}
  /\ Thrown(h) \/ (handler'[h].pc \in {"start", "cloning"} /\ UNCHANGED <<faults, lost>>)

\* ... clones, or writes that it could not, ...
Clones(h) ==
  /\ handler[h].pc \in {"cloning", "clone", "markFailed", "reread", "fail"}
  /\ job' = job \/ job'[handler[h].id].status = "FAILED"
  /\ IF handler[h].pc \in {"cloning", "markFailed"} THEN repository'.clone # "READY"
     ELSE repository' = repository
  /\ handler'[h].pc # "complete"
  /\ handler'[h].pc = "ready" => handler'[h].sha \in Commits

\* ... says that the repository is READY, ...
Readies(h) ==
  /\ handler[h].pc = "ready" /\ UNCHANGED job
  /\ repository'.clone = "READY" /\ repository'.sha = handler[h].sha
  /\ \/ Thrown(h)
     \/ handler'[h].pc = "complete" /\ handler'[h].sha = handler[h].sha /\ UNCHANGED <<faults, lost>>

\* ... and that its job is completed.
Completes(h) ==
  /\ handler[h].pc = "complete" /\ UNCHANGED repository
  /\ job'[handler[h].id].status = "COMPLETED" /\ job'[handler[h].id].sha = handler[h].sha
  /\ handler'[h] = Idle \/ Thrown(h)

IngestDoes(h) ==
  /\ h[2] = "ingest" /\ handler[h].id \in Jobs /\ job[handler[h].id].status # "ABSENT"
  /\ UNCHANGED analysis
  /\ Begins(h) \/ Sets(h) \/ Clones(h) \/ Readies(h) \/ Completes(h)

LEMMA IngestEffect ==
  ASSUME TypeOK, QueueInv, NEW h \in Handlers, Ingest(h)
  PROVE  IngestDoes(h)
<1> DEFINE j == handler[h].id
<1> USE DEF IngestPcs, Pcs
<1>0. ASSUME NEW pc \in IngestPcs \ {"idle"}, At(h, "ingest", pc)
      PROVE  /\ Busy(h) /\ h[2] = "ingest" /\ handler[h] \in HandlerOf("ingest") /\ handler[h].pc = pc
             /\ j \in Jobs /\ job[j] \in JobRows /\ job[j].status # "ABSENT"
  BY <1>0, IngestIs DEF At
<1>1. ASSUME NEW row \in JobRows, NEW from, j \in Jobs, TransitionJob(j, from, row)
      PROVE  job'[j] = row
  BY <1>1, TypeParts DEF TransitionJob, RowsOK
<1>2. CASE ReadJob(h)
  <2>1. Busy(h) /\ h[2] = "ingest" /\ handler[h] \in HandlerOf("ingest") /\ j \in Jobs
        /\ job[j] \in JobRows /\ job[j].status # "ABSENT" /\ NoFault /\ OnlyHandler
        /\ handler[h].pc = "read"
    BY <1>0, <1>2 DEF ReadJob
  <2>2. job[j].status = "COMPLETED" => handler'[h] = Idle
    BY <1>2, <2>1, SettleFrame DEF ReadJob
  <2>3. job[j].status # "COMPLETED" => handler'[h].pc \in {"requeue", "start", "cloning"}
    <3> SUFFICES ASSUME job[j].status # "COMPLETED"
                 PROVE  handler'[h].pc \in {"requeue", "start", "cloning"}
      OBVIOUS
    <3> DEFINE pc == ensureIngesting(job[j].status)
               r == [handler[h] EXCEPT !.pc = pc, !.attempt = job[j].attempt]
    <3>1. pc \in {"requeue", "start", "cloning"}
      BY <2>1 DEF ensureIngesting, JobRows, JobStatuses
    <3>2. handler' = [handler EXCEPT ![h] = r] /\ DOMAIN handler = Handlers
      BY <1>2, TypeParts DEF ReadJob, Goto, HandlersOK
    <3> HIDE DEF pc
    <3>3. r.pc = pc
      BY <2>1 DEF HandlerOf
    <3> HIDE DEF r
    <3> QED BY <3>1, <3>2, <3>3
  <2> QED BY <2>1, <2>2, <2>3 DEF IngestDoes, Begins, OnlyHandler, dbVars, NoFault
<1>3. CASE RequeueJob(h)
  <2>1. Busy(h) /\ h[2] = "ingest" /\ j \in Jobs /\ job[j] \in JobRows /\ job[j].status # "ABSENT"
        /\ handler[h].pc = "requeue"
    BY <1>0, <1>3 DEF RequeueJob
  <2>2. job'[j].status = "QUEUED"
    <3>1. [job[j] EXCEPT !.status = "QUEUED"] \in JobRows
      BY <2>1 DEF JobRows, JobStatuses
    <3> QED BY <1>1, <1>3, <2>1, <3>1 DEF RequeueJob, JobRows
  <2>3. Thrown(h) \/ (handler'[h].pc = "start" /\ NoFault)
    BY <1>3, <2>1, WrittenFrame DEF RequeueJob
  <2> QED BY <1>3, <2>1, <2>2, <2>3 DEF RequeueJob, IngestDoes, Sets, OnlyJob, NoFault
<1>4. CASE StartIngest(h)
  <2>1. Busy(h) /\ h[2] = "ingest" /\ handler[h] \in HandlerOf("ingest") /\ j \in Jobs
        /\ job[j] \in JobRows /\ job[j].status # "ABSENT" /\ handler[h].pc = "start"
    BY <1>0, <1>4 DEF StartIngest
  <2>2. job'[j].status = "INGESTING"
    <3>1. job' = [job EXCEPT ![j] = [job[j] EXCEPT !.status = "INGESTING",
                                                   !.attempt = Another(handler[h].attempt)]]
      BY <1>4 DEF StartIngest, TransitionJob
    <3> QED BY <2>1, <3>1, TypeParts DEF RowsOK, JobRows
  <2>3. Thrown(h) \/ (handler'[h].pc = "cloning" /\ NoFault)
    BY <1>4, <2>1, WrittenFrame DEF StartIngest
  <2> QED BY <1>4, <2>1, <2>2, <2>3 DEF StartIngest, IngestDoes, Sets, OnlyJob, NoFault
<1>5. CASE markRepositoryCloning(h)
  <2>1. Busy(h) /\ h[2] = "ingest" /\ j \in Jobs /\ job[j].status # "ABSENT"
        /\ handler[h].pc = "cloning"
    BY <1>0, <1>5 DEF markRepositoryCloning
  <2>2. repository'.clone # "READY"
    BY <1>5, TypeParts DEF markRepositoryCloning, RowsOK
  <2>3. Thrown(h) \/ handler'[h].pc = "clone"
    BY <1>5, <2>1, WrittenFrame DEF markRepositoryCloning
  <2>4. handler'[h].pc \in {"idle", "clone"}
    BY <2>1, <2>3, IdleType DEF Thrown, Guarded
  <2> QED BY <1>5, <2>1, <2>2, <2>4 DEF markRepositoryCloning, IngestDoes, Clones, OnlyRepository
<1>6. CASE Clone(h)
  <2>1. Busy(h) /\ h[2] = "ingest" /\ handler[h] \in HandlerOf("ingest") /\ j \in Jobs
        /\ job[j].status # "ABSENT" /\ handler[h].pc = "clone" /\ DOMAIN handler = Handlers
    BY <1>0, <1>6, TypeParts DEF Clone, HandlersOK
  <2>2. UNCHANGED <<job, repository, analysis>>
    BY <1>6 DEF Clone, OnlyHandler, dbVars
  <2>3. ASSUME NEW s \in Commits, Goto(h, [handler[h] EXCEPT !.pc = "ready", !.sha = s])
        PROVE  handler'[h].pc = "ready" /\ handler'[h].sha \in Commits
    BY <2>1, <2>3 DEF Goto, HandlerOf
  <2>4. ASSUME NEW code \in Codes, Goto(h, [handler[h] EXCEPT !.pc = "markFailed", !.code = code])
        PROVE  handler'[h].pc = "markFailed"
    BY <2>1, <2>4 DEF Goto, HandlerOf
  <2>5. ASSUME CallFault, Settle(h, "retry") PROVE handler'[h].pc = "idle"
    BY <2>1, <2>5, SettleFrame, IdleType
  <2>6. \/ handler'[h].pc = "ready" /\ handler'[h].sha \in Commits
        \/ handler'[h].pc \in {"markFailed", "idle"}
    BY <1>6, <2>3, <2>4, <2>5 DEF Clone
  <2> QED BY <2>1, <2>2, <2>6 DEF IngestDoes, Clones
<1>7. CASE markRepositoryReady(h)
  <2>1. Busy(h) /\ h[2] = "ingest" /\ j \in Jobs /\ job[j].status # "ABSENT"
        /\ handler[h].pc = "ready"
    BY <1>0, <1>7 DEF markRepositoryReady
  <2>2. \/ Thrown(h)
        \/ handler'[h].pc = "complete" /\ handler'[h].sha = handler[h].sha /\ NoFault
    BY <1>7, <2>1, WrittenFrame DEF markRepositoryReady
  <2> QED BY <1>7, <2>1, <2>2 DEF markRepositoryReady, IngestDoes, Readies, OnlyRepository, NoFault
<1>8. CASE CompleteJob(h)
  <2>1. Busy(h) /\ h[2] = "ingest" /\ handler[h] \in HandlerOf("ingest") /\ j \in Jobs
        /\ job[j] \in JobRows /\ job[j].status # "ABSENT" /\ handler[h].pc = "complete"
    BY <1>0, <1>8 DEF CompleteJob
  <2>2. job'[j].status = "COMPLETED" /\ job'[j].sha = handler[h].sha
    <3>1. job' = [job EXCEPT ![j] = [job[j] EXCEPT !.status = "COMPLETED", !.code = "none",
                                                   !.sha = handler[h].sha]]
      BY <1>8 DEF CompleteJob, TransitionJob
    <3> QED BY <2>1, <3>1, TypeParts DEF RowsOK, JobRows
  <2>3. handler'[h] = Idle \/ Thrown(h)
    BY <1>8, <2>1, WrittenLastFrame DEF CompleteJob
  <2> QED BY <1>8, <2>1, <2>2, <2>3 DEF CompleteJob, IngestDoes, Completes, OnlyJob
<1>9. CASE markRepositoryFailed(h)
  <2>1. Busy(h) /\ h[2] = "ingest" /\ j \in Jobs /\ job[j].status # "ABSENT"
        /\ handler[h].pc = "markFailed"
    BY <1>0, <1>9 DEF markRepositoryFailed
  <2>2. repository'.clone # "READY"
    BY <1>9, TypeParts DEF markRepositoryFailed, RowsOK
  <2>3. Thrown(h) \/ handler'[h].pc = "reread"
    BY <1>9, <2>1, WrittenFrame DEF markRepositoryFailed
  <2>4. handler'[h].pc \in {"idle", "reread"}
    BY <2>1, <2>3, IdleType DEF Thrown, Guarded
  <2> QED BY <1>9, <2>1, <2>2, <2>4 DEF markRepositoryFailed, IngestDoes, Clones, OnlyRepository
<1>10. CASE RereadJob(h)
  <2>1. Busy(h) /\ h[2] = "ingest" /\ handler[h] \in HandlerOf("ingest") /\ j \in Jobs
        /\ job[j].status # "ABSENT" /\ handler[h].pc = "reread" /\ DOMAIN handler = Handlers
    BY <1>0, <1>10, TypeParts DEF RereadJob, HandlersOK
  <2>2. handler'[h].pc = "fail"
    BY <1>10, <2>1 DEF RereadJob, Goto, HandlerOf
  <2> QED BY <1>10, <2>1, <2>2 DEF RereadJob, OnlyHandler, dbVars, IngestDoes, Clones
<1>11. CASE FailJob(h)
  <2>1. Busy(h) /\ h[2] = "ingest" /\ handler[h] \in HandlerOf("ingest") /\ j \in Jobs
        /\ job[j] \in JobRows /\ job[j].status # "ABSENT" /\ handler[h].pc = "fail"
    BY <1>0, <1>11 DEF FailJob
  <2>2. job'[j].status = "FAILED"
    <3>1. job' = [job EXCEPT ![j] = [job[j] EXCEPT !.status = "FAILED", !.code = handler[h].code]]
      BY <1>11 DEF FailJob, TransitionJob
    <3> QED BY <2>1, <3>1, TypeParts DEF RowsOK, JobRows
  <2>3. handler'[h] = Idle \/ Thrown(h)
    BY <1>11, <2>1, WrittenLastFrame DEF FailJob
  <2>4. handler'[h].pc = "idle"
    BY <2>1, <2>3, IdleType DEF Thrown, Guarded
  <2> QED BY <1>11, <2>1, <2>2, <2>4 DEF FailJob, IngestDoes, Clones, OnlyJob
<1> QED BY <1>2, <1>3, <1>4, <1>5, <1>6, <1>7, <1>8, <1>9, <1>10, <1>11 DEF Ingest

\* An analysis handler looks at its row, ...
Looks(h) ==
  /\ handler[h].pc \in {"read", "catch"} /\ UNCHANGED analysis
  /\ \/ handler'[h] = Idle
     \/ handler'[h].pc # "complete" /\ analysis[handler[h].id].status # "COMPLETED"

\* ... moves it along, or fails it, ...
Moves(h) ==
  /\ handler[h].pc \notin {"read", "catch", "persist", "complete"}
  /\ handler'[h].pc # "complete"
  /\ \/ UNCHANGED analysis
     \/ /\ analysis'[handler[h].id].status # "COMPLETED"
        /\ analysis'[handler[h].id].results = analysis[handler[h].id].results

\* ... stores the results, or fails to compute them, ...
Persists(h) ==
  /\ handler[h].pc = "persist"
  /\ analysis'[handler[h].id].status = analysis[handler[h].id].status
  /\ \/ /\ analysis'[handler[h].id].results = Appended(analysis[handler[h].id].results)
        /\ Thrown(h) \/ (handler'[h].pc = "complete" /\ UNCHANGED <<faults, lost>>)
     \/ handler'[h].pc = "catch" /\ UNCHANGED analysis

\* ... and completes it.
Finishes(h) ==
  /\ handler[h].pc = "complete"
  /\ analysis'[handler[h].id].status = "COMPLETED"
  /\ analysis'[handler[h].id].results = analysis[handler[h].id].results
  /\ handler'[h].pc \in {"idle", "catch"}

AnalyseDoes(h) ==
  /\ h[2] = "analysis" /\ handler[h].id \in Commits /\ UNCHANGED <<job, repository>>
  /\ Looks(h) \/ Moves(h) \/ Persists(h) \/ Finishes(h)

LEMMA AnalyseEffect ==
  ASSUME TypeOK, NEW h \in Handlers, Analyse(h)
  PROVE  AnalyseDoes(h)
<1> DEFINE s == handler[h].id
<1> USE DEF AnalysisPcs, Pcs
<1>0. ASSUME NEW pc \in AnalysisPcs \ {"idle"}, At(h, "analysis", pc)
      PROVE  /\ Busy(h) /\ h[2] = "analysis" /\ handler[h] \in HandlerOf("analysis")
             /\ handler[h].pc = pc /\ s \in Commits /\ analysis[s] \in AnalysisRows
             /\ DOMAIN handler = Handlers
  BY <1>0, AnalyseIs DEF At, Busy, HandlersOK
<1>1. ASSUME NEW from \in AnalysisStatuses, NEW to \in AnalysisStatuses, s \in Commits,
             OnlyAnalysis, Transition(s, from, to)
      PROVE  analysis'[s].status = to /\ analysis'[s].results = analysis[s].results
  BY <1>1, AnalysisWrite
<1>2. CASE ReadAnalysis(h)
  <2>1. Busy(h) /\ h[2] = "analysis" /\ handler[h] \in HandlerOf("analysis") /\ s \in Commits
        /\ handler[h].pc = "read" /\ DOMAIN handler = Handlers /\ NoFault /\ OnlyHandler
    BY <1>0, <1>2 DEF ReadAnalysis
  <2>2. analysis[s].status = "COMPLETED" => handler'[h] = Idle
    BY <1>2, <2>1, SettleFrame DEF ReadAnalysis
  <2>3. analysis[s].status # "COMPLETED" => handler'[h].pc = "repository"
    BY <1>2, <2>1 DEF ReadAnalysis, Goto, HandlerOf
  <2> QED BY <2>1, <2>2, <2>3 DEF AnalyseDoes, Looks, OnlyHandler, dbVars
<1>3. CASE ReadRepository(h)
  <2>1. Busy(h) /\ h[2] = "analysis" /\ handler[h] \in HandlerOf("analysis") /\ s \in Commits
        /\ handler[h].pc = "repository" /\ DOMAIN handler = Handlers /\ OnlyHandler
    BY <1>0, <1>3 DEF ReadRepository
  <2>2. To(h, "mismatch") => handler'[h].pc = "mismatch"
    BY <2>1 DEF To, Goto, HandlerOf
  <2>3. ASSUME NEW pc \in {"requeue", "start", "materialize"}, Enter(h, pc)
        PROVE  handler'[h].pc = pc
    BY <2>1, <2>3 DEF Enter, Goto, Idle
  <2>4. handler'[h].pc # "complete"
    BY <1>3, <2>2, <2>3 DEF ReadRepository
  <2> QED BY <2>1, <2>4 DEF AnalyseDoes, Moves, OnlyHandler, dbVars
<1>4. ASSUME h[2] = "analysis", handler'[h] = Idle \/ Thrown(h)
      PROVE  handler'[h].pc \in {"idle", "catch"}
  BY <1>4, IdleType DEF Thrown
<1>5. CASE Mismatch(h)
  <2>1. Busy(h) /\ h[2] = "analysis" /\ s \in Commits /\ handler[h].seen \in AnalysisStatuses
        /\ handler[h].pc = "mismatch" /\ OnlyAnalysis
    BY <1>0, <1>5 DEF Mismatch, HandlerOf
  <2>2. CASE Transition(s, handler[h].seen, "FAILED") /\ WrittenLast(h, "stop")
    <3>1. analysis'[s].status = "FAILED" /\ analysis'[s].results = analysis[s].results
      BY <1>1, <2>1, <2>2 DEF AnalysisStatuses
    <3>2. handler'[h].pc \in {"idle", "catch"}
      BY <1>4, <2>1, <2>2, WrittenLastFrame
    <3> QED BY <2>1, <3>1, <3>2 DEF AnalyseDoes, Moves, OnlyAnalysis
  <2>3. CASE Settle(h, "retry") /\ NoFault /\ UNCHANGED analysis
    <3>1. handler'[h].pc = "idle"
      BY <2>1, <2>3, SettleFrame, IdleType
    <3> QED BY <2>1, <2>3, <3>1 DEF AnalyseDoes, Moves, OnlyAnalysis
  <2> QED BY <1>5, <2>2, <2>3 DEF Mismatch
<1>6. ASSUME NEW pc \in AnalysisPcs \ {"idle", "read", "catch", "persist", "complete"},
             NEW from \in AnalysisStatuses, NEW to \in AnalysisStatuses \ {"COMPLETED"},
             NEW next \in AnalysisPcs \ {"idle", "complete"}, Step(h, pc, from, to, next)
      PROVE  AnalyseDoes(h)
  <2>1. Busy(h) /\ h[2] = "analysis" /\ s \in Commits /\ handler[h].pc = pc /\ OnlyAnalysis
    BY <1>0, <1>6 DEF Step
  <2>2. handler'[h].pc \in {"idle", "catch", next}
    BY <1>4, <1>6, <2>1, WrittenFrame DEF Step
  <2>3. analysis'[s].status = to /\ analysis'[s].results = analysis[s].results
    BY <1>1, <1>6, <2>1 DEF Step
  <2> QED BY <2>1, <2>2, <2>3 DEF AnalyseDoes, Moves, OnlyAnalysis
<1>7. CASE Requeue(h) \/ Start(h) \/ Inventory(h) \/ Analyzing(h)
  <2>1. CASE Requeue(h)
    BY <1>6, <2>1 DEF Requeue, AnalysisStatuses
  <2>2. CASE Start(h)
    BY <1>6, <2>2 DEF Start, AnalysisStatuses
  <2>3. CASE Inventory(h)
    BY <1>6, <2>3 DEF Inventory, AnalysisStatuses
  <2>4. CASE Analyzing(h)
    BY <1>6, <2>4 DEF Analyzing, AnalysisStatuses
  <2> QED BY <1>7, <2>1, <2>2, <2>3, <2>4
<1>8. CASE Materialize(h)
  <2>1. Busy(h) /\ h[2] = "analysis" /\ handler[h] \in HandlerOf("analysis") /\ s \in Commits
        /\ handler[h].pc = "materialize" /\ DOMAIN handler = Handlers /\ OnlyHandler
    BY <1>0, <1>8 DEF Materialize
  <2>2. ASSUME NEW pc \in {"inventory", "catch"}, To(h, pc) PROVE handler'[h].pc = pc
    BY <2>1, <2>2 DEF To, Goto, HandlerOf
  <2>3. CallFault /\ Settle(h, "retry") => handler'[h].pc = "idle"
    BY <2>1, SettleFrame, IdleType
  <2>4. handler'[h].pc # "complete"
    BY <1>8, <2>2, <2>3 DEF Materialize
  <2> QED BY <2>1, <2>4 DEF AnalyseDoes, Moves, OnlyHandler, dbVars
<1>9. CASE PersistResult(h)
  <2>1. Busy(h) /\ h[2] = "analysis" /\ handler[h] \in HandlerOf("analysis") /\ s \in Commits
        /\ handler[h].pc = "persist" /\ analysis[s] \in AnalysisRows
        /\ DOMAIN handler = Handlers /\ OnlyAnalysis
    BY <1>0, <1>9 DEF PersistResult
  <2>2. CASE analysis' = [analysis EXCEPT ![s].results = Appended(@)] /\ Written(h, "complete")
    <3>1. Thrown(h) \/ (handler'[h].pc = "complete" /\ NoFault)
      BY <2>1, <2>2, WrittenFrame
    <3>2. analysis'[s].status = analysis[s].status
          /\ analysis'[s].results = Appended(analysis[s].results)
      BY <2>1, <2>2, TypeParts DEF RowsOK, AnalysisRows
    <3> QED BY <2>1, <3>1, <3>2 DEF AnalyseDoes, Persists, OnlyAnalysis, NoFault
  <2>3. CASE To(h, "catch") /\ NoFault /\ UNCHANGED analysis
    <3>1. handler'[h].pc = "catch"
      BY <2>1, <2>3 DEF To, Goto, HandlerOf
    <3> QED BY <2>1, <2>3, <3>1 DEF AnalyseDoes, Persists, OnlyAnalysis
  <2> QED BY <1>9, <2>2, <2>3 DEF PersistResult
<1>10. CASE CompleteAnalysis(h)
  <2>1. Busy(h) /\ h[2] = "analysis" /\ s \in Commits /\ handler[h].pc = "complete" /\ OnlyAnalysis
    BY <1>0, <1>10 DEF CompleteAnalysis
  <2>2. handler'[h].pc \in {"idle", "catch"}
    BY <1>4, <1>10, <2>1, WrittenLastFrame, SettleFrame DEF CompleteAnalysis
  <2>3. analysis'[s].status = "COMPLETED" /\ analysis'[s].results = analysis[s].results
    BY <1>1, <1>10, <2>1 DEF CompleteAnalysis, AnalysisStatuses
  <2> QED BY <2>1, <2>2, <2>3 DEF AnalyseDoes, Finishes, OnlyAnalysis
<1>11. CASE Catch(h)
  <2>1. Busy(h) /\ h[2] = "analysis" /\ handler[h] \in HandlerOf("analysis") /\ s \in Commits
        /\ handler[h].pc = "catch" /\ DOMAIN handler = Handlers /\ NoFault /\ OnlyHandler
    BY <1>0, <1>11 DEF Catch
  <2>2. analysis[s].status \in {"FAILED", "COMPLETED"} => handler'[h] = Idle
    BY <1>11, <2>1, SettleFrame DEF Catch
  <2>3. analysis[s].status \notin {"FAILED", "COMPLETED"} => handler'[h].pc = "fail"
    BY <1>11, <2>1 DEF Catch, Goto, HandlerOf
  <2> QED BY <2>1, <2>2, <2>3 DEF AnalyseDoes, Looks, OnlyHandler, dbVars
<1>12. CASE FailAnalysis(h)
  <2>1. Busy(h) /\ h[2] = "analysis" /\ s \in Commits /\ handler[h].seen \in AnalysisStatuses
        /\ handler[h].pc = "fail" /\ OnlyAnalysis
    BY <1>0, <1>12 DEF FailAnalysis, HandlerOf
  <2>2. handler'[h].pc \in {"idle", "catch"}
    BY <1>4, <1>12, <2>1, WrittenLastFrame DEF FailAnalysis
  <2>3. analysis'[s].status = "FAILED" /\ analysis'[s].results = analysis[s].results
    BY <1>1, <1>12, <2>1 DEF FailAnalysis, AnalysisStatuses
  <2> QED BY <2>1, <2>2, <2>3 DEF AnalyseDoes, Moves, OnlyAnalysis
<1> QED BY <1>2, <1>3, <1>5, <1>7, <1>8, <1>9, <1>10, <1>11, <1>12 DEF Analyse

\* All that a step of a handler does.
LEMMA WorksEffect ==
  ASSUME TypeOK, QueueInv, NEW h \in Handlers, Works(h)
  PROVE  /\ Frame(h) /\ RowsFrame(h) /\ Busy(h)
         /\ \/ IngestDoes(h) \/ AnalyseDoes(h)
            \/ Thrown(h) /\ UNCHANGED <<job, repository, analysis>>
<1>1. Frame(h) /\ RowsFrame(h) /\ Busy(h)
  BY WorksFrame
<1>2. CASE Refused(h)
  BY <1>1, <1>2, RefusedFrame DEF OnlyHandler, dbVars
<1> QED BY <1>1, <1>2, IngestEffect, AnalyseEffect DEF Works

-----------------------------------------------------------------------------
(* Each part of the invariant is kept by a step of a handler.              *)

LEMMA QueueWorks ==
  ASSUME TypeOK, QueueInv, NEW h \in Handlers, Works(h) PROVE QueueInv'
<1>1. Frame(h) /\ RowsFrame(h) /\ Busy(h)
  BY WorksEffect
<1>2. \A j \in Jobs : entry'[j].state # "none" => entry[j].state # "none"
  <2> TAKE j \in Jobs
  <2>1. j \in Ids
    BY DEF Ids
  <2>2. CASE j = handler[h].id
    BY <1>1, <2>2, BusyIs
  <2>3. CASE j # handler[h].id
    BY <1>1, <2>1, <2>3 DEF Frame
  <2> QED BY <2>2, <2>3
<1> QED BY <1>1, <1>2 DEF QueueInv, RowsFrame

LEMMA CreatedWorks ==
  ASSUME TypeOK, QueueInv, CreatedInv, NEW h \in Handlers, Works(h) PROVE CreatedInv'
<1>1. RowsFrame(h)
  BY WorksEffect
<1> QED BY <1>1 DEF CreatedInv, RowsFrame

\* What one handler has, no other has.
LEMMA Others ==
  ASSUME TypeOK, NEW h \in Handlers, Busy(h), Frame(h), NEW g \in Handlers \ {h}
  PROVE  /\ handler[g].id # handler[h].id
         /\ handler'[g] = handler[g] \/ (handler'[g].pc = "idle" /\ faults' > faults)
  BY BusyIs, IdleType DEF Frame

LEMMA CommitWorks ==
  ASSUME TypeOK, QueueInv, CommitInv, NEW h \in Handlers, Works(h) PROVE CommitInv'
<1> DEFINE i == handler[h].id
<1>1. Frame(h) /\ RowsFrame(h) /\ Busy(h)
  BY WorksEffect
<1>2. \A g \in Handlers \ {h} : handler'[g].pc \in {"ready", "complete"} => handler'[g] = handler[g]
  BY <1>1, Others
<1>3. CASE IngestDoes(h)
  <2>1. repository'.clone = "READY" => repository'.sha \in Commits
    BY <1>3 DEF IngestDoes, Begins, Sets, Clones, Readies, Completes, CommitInv
  <2>2. job'[i].status = "COMPLETED" => job'[i].sha \in Commits
    BY <1>3 DEF IngestDoes, Begins, Sets, Clones, Readies, Completes, CommitInv
  <2>3. handler'[h].pc \in {"ready", "complete"} => handler'[h].sha \in Commits
    BY <1>3, IdleType DEF IngestDoes, Begins, Sets, Clones, Readies, Completes, CommitInv, Thrown, Guarded
  <2>4. \A j \in Jobs : job'[j].status = "COMPLETED" => job'[j].sha \in Commits
    BY <1>1, <2>2 DEF CommitInv, RowsFrame
  <2> QED BY <1>2, <2>1, <2>3, <2>4 DEF CommitInv
<1>4. CASE AnalyseDoes(h)
  BY <1>2, <1>4 DEF AnalyseDoes, CommitInv
<1>5. CASE Thrown(h) /\ UNCHANGED <<job, repository, analysis>>
  <2>1. handler'[h].pc \in {"idle", "markFailed", "catch"}
    BY <1>5, IdleType DEF Thrown
  <2> QED BY <1>2, <1>5, <2>1 DEF CommitInv
<1> QED BY <1>3, <1>4, <1>5, WorksEffect

LEMMA WorkWorks ==
  ASSUME TypeOK, QueueInv, WorkInv, NEW h \in Handlers, Works(h) PROVE WorkInv'
<1> DEFINE i == handler[h].id
<1>1. Frame(h) /\ RowsFrame(h) /\ Busy(h) /\ FaultsOK
  BY WorksEffect, TypeParts
<1>2. lost' => faults' > 0
  <2>1. faults \in Nat /\ (lost => faults > 0)
    BY <1>1, IntakeConstants DEF WorkInv, FaultsOK
  <2>2. (faults' = faults \/ faults' = faults + 1) /\ (lost' # lost => faults' > faults)
    BY <1>1 DEF Frame
  <2>3. faults > 0 => faults' > 0
    BY <2>1, <2>2
  <2>4. faults' > faults => faults' > 0
    BY <2>1, <2>2
  <2> QED BY <2>1, <2>2, <2>3, <2>4
<1>3. ASSUME NEW g \in Handlers \ {h}, handler'[g].pc # "idle"
      PROVE  /\ handler'[g] = handler[g]
             /\ g[2] = "ingest" => job'[handler[g].id] = job[handler[g].id]
             /\ g[2] = "analysis" => analysis'[handler[g].id] = analysis[handler[g].id]
  <2>1. handler'[g] = handler[g] /\ handler[g].id # i /\ Busy(g)
    BY <1>1, <1>3, Others DEF Busy
  <2>2. handler[g].id \in QueueIds(g[2])
    BY <2>1, BusyIs
  <2> QED BY <1>1, <2>1, <2>2, IdsAre DEF RowsFrame
<1>4. lost => lost'
  BY <1>1 DEF Frame
<1>5. ASSUME h[2] = "ingest", handler'[h].pc \notin {"idle", "read"}, ~ lost'
      PROVE  job'[handler'[h].id].status # "COMPLETED"
  <2>1. handler'[h].id = i
    BY <1>1, <1>5, IdleType DEF Frame
  <2>2. handler[h].pc # "read" => job[i].status # "COMPLETED"
    BY <1>1, <1>4, <1>5 DEF WorkInv, Busy
  <2>3. CASE IngestDoes(h)
    BY <1>5, <2>1, <2>2, <2>3, IdleType
    DEF IngestDoes, Begins, Sets, Clones, Readies, Completes, Thrown
  <2>4. CASE Thrown(h)
    BY <1>5, <2>4 DEF Thrown
  <2> QED BY <1>5, <2>3, <2>4, WorksEffect DEF AnalyseDoes
<1>6. ASSUME h[2] = "analysis", handler'[h].pc \notin {"idle", "read", "catch"}
      PROVE  analysis'[handler'[h].id].status # "COMPLETED"
  <2>1. handler'[h].id = i
    BY <1>1, <1>6, IdleType DEF Frame
  <2>2. handler[h].pc \notin {"read", "catch"} => analysis[i].status # "COMPLETED"
    BY <1>1, <1>6 DEF WorkInv, Busy
  <2>3. Thrown(h) => handler'[h].pc \in {"idle", "catch"}
    BY <1>6, IdleType DEF Thrown
  <2>4. CASE AnalyseDoes(h)
    BY <1>6, <2>1, <2>2, <2>3, <2>4, IdleType DEF AnalyseDoes, Looks, Moves, Persists, Finishes
  <2> QED BY <1>6, <2>3, <2>4, WorksEffect DEF IngestDoes
<1>7. ASSUME NEW g \in Handlers
      PROVE  /\ g[2] = "ingest" /\ handler'[g].pc \notin {"idle", "read"} /\ ~ lost'
                  => job'[handler'[g].id].status # "COMPLETED"
             /\ g[2] = "analysis" /\ handler'[g].pc \notin {"idle", "read", "catch"}
                  => analysis'[handler'[g].id].status # "COMPLETED"
  <2>1. CASE g = h
    BY <2>1, <1>5, <1>6
  <2>2. CASE g # h
    BY <2>2, <1>3, <1>4 DEF WorkInv
  <2> QED BY <2>1, <2>2
<1> QED BY <1>2, <1>7 DEF WorkInv

\* A handler is about to complete its own row only.
LEMMA CompletingIs ==
  ASSUME TypeOK, NEW h \in Handlers, Busy(h)
  PROVE  Completing(handler[h].id) <=> handler[h].pc = "complete"
BY BusyIs DEF Completing

LEMMA CompletingKept ==
  ASSUME TypeOK, NEW h \in Handlers, Busy(h), Frame(h), NEW i, Completing(i)'
  PROVE  Completing(i) \/ (i = handler[h].id /\ handler'[h].pc = "complete")
<1>1. PICK g \in Handlers : handler'[g].id = i /\ handler'[g].pc = "complete"
  BY DEF Completing
<1>2. CASE g = h
  BY <1>1, <1>2, IdleType DEF Frame
<1>3. CASE g # h
  BY <1>1, <1>3, Others DEF Completing
<1> QED BY <1>2, <1>3

\* As long as no fault occurs, nobody but the handler itself changes this.
LEMMA CompletingStays ==
  ASSUME TypeOK, NEW h \in Handlers, Busy(h), Frame(h), ~ (faults' > faults),
         NEW i, i # handler[h].id, Completing(i)
  PROVE  Completing(i)'
<1>1. PICK g \in Handlers : handler[g].id = i /\ handler[g].pc = "complete"
  BY DEF Completing
<1>2. g # h /\ handler'[g] = handler[g]
  BY <1>1, Others
<1> QED BY <1>1, <1>2 DEF Completing

LEMMA ResultsWorks ==
  ASSUME TypeOK, QueueInv, WorkInv, ResultsInv, NEW h \in Handlers, Works(h) PROVE ResultsInv'
<1> SUFFICES ASSUME NEW i, i = handler[h].id PROVE ResultsInv'
  OBVIOUS
<1>1. Frame(h) /\ RowsFrame(h) /\ Busy(h) /\ FaultsOK /\ FaultsOK'
  BY WorksEffect, TypeParts DEF Frame
<1>2. faults' = 0 => faults = 0 /\ ~ (faults' > faults)
  BY <1>1 DEF Frame, FaultsOK
<1>3. ASSUME NEW s \in Commits, analysis'[s] = analysis[s],
             \/ s # i
             \/ ~ Completing(s) /\ handler'[h].pc # "complete"
      PROVE  /\ analysis'[s].status = "COMPLETED" \/ Completing(s)' => analysis'[s].results # 0
             /\ faults' = 0 /\ analysis'[s].results # 0 =>
                  /\ analysis'[s].results = 1
                  /\ analysis'[s].status = "COMPLETED" \/ Completing(s)'
  <2>1. Completing(s)' => Completing(s)
    BY <1>1, <1>3, CompletingKept
  <2>2. Completing(s) /\ faults' = 0 => Completing(s)'
    BY <1>1, <1>2, <1>3, CompletingStays
  <2> QED BY <1>2, <1>3, <2>1, <2>2 DEF ResultsInv
<1>4. CASE IngestDoes(h)
  <2>1. \A s \in Commits : s # i /\ analysis'[s] = analysis[s]
    BY <1>4, IdsAre DEF IngestDoes
  <2> QED BY <1>3, <2>1 DEF ResultsInv
<1>5. CASE AnalyseDoes(h)
  <2>1. \A s \in Commits \ {i} : analysis'[s] = analysis[s]
    BY <1>1 DEF RowsFrame
  <2>2. i \in Commits /\ analysis[i].results \in 0 .. 2
    BY <1>5, TypeParts DEF AnalyseDoes, RowsOK, AnalysisRows
  <2>3. Completing(i)' => handler'[h].pc = "complete"
    <3>1. ASSUME Completing(i)', handler'[h].pc # "complete" PROVE FALSE
      <4>1. PICK g \in Handlers : handler'[g].id = i /\ handler'[g].pc = "complete"
        BY <3>1 DEF Completing
      <4>2. g # h /\ handler'[g] = handler[g] /\ handler[g].id # i
        BY <1>1, <3>1, <4>1, Others
      <4> QED BY <4>1, <4>2
    <3> QED BY <3>1
  <2>4. handler'[h].pc = "complete" => Completing(i)'
    <3>1. handler'[h].pc = "complete" => handler'[h].id = i
      BY <1>1, IdleType DEF Frame
    <3> QED BY <3>1 DEF Completing
  <2>5. Completing(i) <=> handler[h].pc = "complete"
    BY <1>1, CompletingIs
  <2>6. handler[h].pc \notin {"read", "catch"} => analysis[i].status # "COMPLETED"
    BY <1>1, <1>5 DEF WorkInv, Busy, AnalyseDoes
  <2>7. /\ analysis[i].status = "COMPLETED" \/ Completing(i) => analysis[i].results # 0
        /\ faults = 0 /\ analysis[i].results # 0 =>
             /\ analysis[i].results = 1
             /\ analysis[i].status = "COMPLETED" \/ Completing(i)
    BY <2>2 DEF ResultsInv
  <2>8. /\ analysis'[i].status = "COMPLETED" \/ Completing(i)' => analysis'[i].results # 0
        /\ faults' = 0 /\ analysis'[i].results # 0 =>
             /\ analysis'[i].results = 1
             /\ analysis'[i].status = "COMPLETED" \/ Completing(i)'
    <3>1. CASE Looks(h)
      <4>1. handler'[h].pc # "complete" /\ handler[h].pc # "complete" /\ analysis' = analysis
        BY <3>1, IdleType DEF Looks
      <4> QED BY <1>2, <2>3, <2>5, <2>7, <4>1
    <3>2. CASE Moves(h)
      <4>1. /\ ~ Completing(i)' /\ ~ Completing(i) /\ analysis[i].status # "COMPLETED"
            /\ analysis'[i].status # "COMPLETED" /\ analysis'[i].results = analysis[i].results
        BY <2>3, <2>5, <2>6, <3>2 DEF Moves
      <4> QED BY <1>2, <2>7, <4>1
    <3>3. CASE Persists(h)
      <4>1. analysis[i].status # "COMPLETED" /\ ~ Completing(i) /\ analysis'[i].status # "COMPLETED"
        BY <2>5, <2>6, <3>3 DEF Persists
      <4>2. faults = 0 => analysis[i].results = 0
        BY <2>7, <4>1
      <4>3. CASE /\ analysis'[i].results = Appended(analysis[i].results)
                 /\ Thrown(h) \/ (handler'[h].pc = "complete" /\ UNCHANGED <<faults, lost>>)
        <5>1. analysis'[i].results # 0 /\ (analysis[i].results = 0 => analysis'[i].results = 1)
          BY <2>2, <4>3 DEF Appended
        <5>2. faults' = 0 => Completing(i)'
          BY <1>2, <2>4, <4>3 DEF Thrown
        <5> QED BY <1>2, <4>1, <4>2, <5>1, <5>2
      <4>4. CASE handler'[h].pc = "catch" /\ UNCHANGED analysis
        BY <1>2, <2>3, <4>1, <4>2, <4>4
      <4> QED BY <3>3, <4>3, <4>4 DEF Persists
    <3>4. CASE Finishes(h)
      <4>1. /\ Completing(i) /\ ~ Completing(i)' /\ analysis'[i].status = "COMPLETED"
            /\ analysis'[i].results = analysis[i].results
        BY <2>3, <2>5, <3>4 DEF Finishes
      <4> QED BY <1>2, <2>7, <4>1
    <3> QED BY <1>5, <3>1, <3>2, <3>3, <3>4 DEF AnalyseDoes
  <2> QED BY <1>3, <2>1, <2>8 DEF ResultsInv
<1>6. CASE Thrown(h) /\ UNCHANGED <<job, repository, analysis>>
  <2>1. faults' # 0 /\ handler'[h].pc # "complete"
    BY <1>1, <1>2, <1>6, IdleType DEF Thrown
  <2>2. \A s \in Commits : Completing(s)' => Completing(s)
    BY <1>1, <2>1, CompletingKept
  <2> QED BY <1>6, <2>1, <2>2 DEF ResultsInv
<1> QED BY <1>4, <1>5, <1>6, WorksEffect

\* Nothing about READY changes when the repository does not, the jobs keep
\* their status and none is newly about to be completed.
LEMMA ReadyKept ==
  ASSUME ReadyInv, UNCHANGED repository, lost => lost',
         \A j \in Jobs : \/ job'[j].status = job[j].status
                         \/ job[j].status = "ABSENT" /\ job'[j].status # "COMPLETED",
         \A j \in Jobs : Completing(j)' => Completing(j)
  PROVE  ReadyInv'
<1> SUFFICES ASSUME ~ lost', repository'.clone # "READY", NEW j \in Jobs, Through(j)'
             PROVE  \E k \in Jobs : Unfinished(k)'
  BY DEF ReadyInv
<1>1. Through(j)
  BY DEF Through
<1>2. PICK k \in Jobs : Unfinished(k)
  BY <1>1 DEF ReadyInv
<1> QED BY <1>2 DEF Unfinished

LEMMA ReadyWorks ==
  ASSUME TypeOK, QueueInv, WorkInv, ReadyInv, NEW h \in Handlers, Works(h) PROVE ReadyInv'
<1> SUFFICES ASSUME NEW i, i = handler[h].id PROVE ReadyInv'
  OBVIOUS
<1>1. Frame(h) /\ RowsFrame(h) /\ Busy(h) /\ (lost => lost')
  BY WorksEffect DEF Frame
<1>2. \A j \in Jobs : Completing(j)' => Completing(j) \/ (j = i /\ handler'[h].pc = "complete")
  BY <1>1, CompletingKept
\* A handler that goes on without being about to complete its job has the
\* job for a witness.
<1>3. ASSUME i \in Jobs, job[i].status # "ABSENT", job'[i].status # "COMPLETED",
             handler'[h].pc # "complete", handler[h].pc # "complete"
      PROVE  ReadyInv'
  <2>1. ~ Completing(i)'
    BY <1>1, <1>2, <1>3, CompletingIs
  <2>2. Unfinished(i)'
    BY <1>1, <1>3, <2>1 DEF Unfinished, RowsFrame
  <2> QED BY <1>3, <2>2 DEF ReadyInv
<1>4. CASE IngestDoes(h) /\ ~ lost'
  <2>1. i \in Jobs /\ job[i].status # "ABSENT" /\ h[2] = "ingest"
    BY <1>4 DEF IngestDoes
  <2>2. handler[h].pc # "read" => job[i].status # "COMPLETED"
    BY <1>1, <1>4, <2>1 DEF WorkInv, Busy
  <2>3. CASE Begins(h)
    <3>1. handler'[h].pc # "complete" /\ handler[h].pc # "complete" /\ UNCHANGED <<job, repository>>
      BY <2>3, IdleType DEF Begins
    <3> QED BY <1>1, <1>2, <3>1, ReadyKept
  <2>4. CASE Sets(h)
    <3>1. /\ handler'[h].pc # "complete" /\ handler[h].pc # "complete"
          /\ job'[i].status # "COMPLETED"
      BY <1>4, <2>4, IdleType DEF Sets, Thrown
    <3> QED BY <1>3, <2>1, <3>1
  <2>5. CASE Clones(h)
    <3>1. /\ handler'[h].pc # "complete" /\ handler[h].pc # "complete"
          /\ job'[i].status # "COMPLETED"
      BY <2>2, <2>5 DEF Clones
    <3> QED BY <1>3, <2>1, <3>1
  <2>6. CASE Readies(h)
    BY <2>6 DEF Readies, ReadyInv
  <2>7. CASE Completes(h)
    <3>1. Completing(i) /\ handler'[h].pc # "complete"
      BY <1>1, <1>4, <2>7, CompletingIs, IdleType DEF Completes, Thrown
    <3> SUFFICES ASSUME repository'.clone # "READY" PROVE \E k \in Jobs : Unfinished(k)'
      BY DEF ReadyInv
    <3>2. PICK k \in Jobs : Unfinished(k)
      BY <1>1, <1>4, <2>1, <2>7, <3>1 DEF ReadyInv, Through, Completes
    <3>3. k # i /\ job'[k] = job[k]
      BY <1>1, <3>1, <3>2 DEF Unfinished, RowsFrame
    <3>4. Unfinished(k)'
      BY <1>2, <3>2, <3>3 DEF Unfinished
    <3> QED BY <3>4
  <2> QED BY <1>4, <2>3, <2>4, <2>5, <2>6, <2>7 DEF IngestDoes
<1>5. CASE AnalyseDoes(h)
  <2>1. i \notin Jobs /\ UNCHANGED <<job, repository>>
    BY <1>5, IdsAre DEF AnalyseDoes
  <2> QED BY <1>1, <1>2, <2>1, ReadyKept
<1>6. CASE lost'
  BY <1>6 DEF ReadyInv
<1>7. CASE Thrown(h) /\ UNCHANGED <<job, repository, analysis>>
  BY <1>6, <1>7 DEF Thrown
<1> QED BY <1>4, <1>5, <1>6, <1>7, WorksEffect

LEMMA BudgetWorks ==
  ASSUME TypeOK, QueueInv, BudgetInv, NEW h \in Handlers, Works(h) PROVE BudgetInv'
<1>1. Frame(h) /\ Busy(h)
  BY WorksEffect
<1>2. faults \in Nat /\ faults' \in Nat /\ faults <= faults'
  BY <1>1, TypeParts, IntakeConstants DEF Frame, FaultsOK
<1>3. \A k \in Ids : entry[k].stalls \in 0 .. 1 /\ entry'[k].stalls \in 0 .. 1
  BY <1>1, TypeParts DEF Frame, HandlersOK, Entries, MaxStalls
<1>4. ASSUME NEW k \in Ids PROVE entry'[k].stalls <= entry[k].stalls
  <2>1. CASE k = handler[h].id
    BY <1>1, <2>1 DEF Frame
  <2>2. CASE k # handler[h].id
    BY <1>1, <1>3, <2>2 DEF Frame
  <2> QED BY <2>1, <2>2
<1>5. ASSUME NEW k \in Ids, Abandoned(k)' PROVE Abandoned(k) \/ faults' > faults
  <2>1. entry'[k].state = "active" /\ \A g \in Handlers : handler'[g].id # k
    BY <1>5 DEF Abandoned
  <2>2. CASE k = handler[h].id
    BY <1>1, <2>1, <2>2 DEF Frame, Busy
  <2>3. CASE k # handler[h].id
    <3>1. entry[k].state = "active"
      BY <1>1, <2>1, <2>3 DEF Frame
    <3>2. ASSUME NEW g \in Handlers, handler[g].id = k PROVE faults' > faults
      <4>1. g # h /\ handler'[g] # handler[g]
        BY <2>1, <2>3, <3>2
      <4> QED BY <1>1, <4>1, Others
    <3> QED BY <3>1, <3>2 DEF Abandoned
  <2> QED BY <2>2, <2>3
<1>6. ASSUME NEW k \in Ids
      PROVE  entry'[k].stalls <= faults' /\ (Abandoned(k)' => entry'[k].stalls < faults')
  <2>1. entry[k].stalls <= faults /\ (Abandoned(k) => entry[k].stalls < faults)
    BY DEF BudgetInv
  <2> QED BY <1>2, <1>3, <1>4, <1>5, <2>1
<1> QED BY <1>6 DEF BudgetInv

\* One fault at most: the second one is beyond what is said.
LEMMA OneFault ==
  ASSUME FaultsOK, faults' = faults \/ faults' = faults + 1, faults' <= 1
  PROVE  /\ faults <= 1
         /\ faults' > faults => faults = 0 /\ faults' > 0
         /\ faults > 0 => faults' > 0 /\ faults' = faults
BY IntakeConstants DEF FaultsOK

\* The handler that the fault ended was about to complete its job: the job is
\* not completed, and is handed out again.
LEMMA EndedSource ==
  ASSUME TypeOK, WorkInv, FaultsOK, NEW j \in Jobs, NEW g \in Handlers, handler[g].id = j,
         handler[g].pc = "complete", faults = 0, faults' > 0, handler'[g] = Idle,
         \A k \in Handlers : handler'[k].id = j => handler[k].id = j,
         job'[j] = job[j], entry'[j] = entry[j]
  PROVE  Source(j)'
<1>1. HandlersOK /\ Busy(g)
  BY TypeParts DEF Busy
<1>2. g[2] = "ingest" /\ entry[j].state = "active" /\ j # None
  BY <1>1, BusyIs, IdsAre DEF Queues
<1>3. ~ lost
  BY DEF WorkInv, FaultsOK
<1>4. job[j].status # "COMPLETED"
  BY <1>2, <1>3 DEF WorkInv
<1>5. \A k \in Handlers : handler'[k].id # j
  BY <1>1, <1>2, BusyIs, IdleType
<1> QED BY <1>2, <1>4, <1>5 DEF Source, Handled

\* A source that is not at work in this step is one afterwards.
LEMMA SourceKept ==
  ASSUME TypeOK, WorkInv, NEW h \in Handlers, Busy(h), Frame(h), NEW j \in Jobs, Source(j),
         j # handler[h].id, UNCHANGED repository, job'[j] = job[j], faults' <= 1
  PROVE  Source(j)'
<1>0. entry'[j] = entry[j] /\ FaultsOK /\ (faults' = faults \/ faults' = faults + 1) /\ j # None
  BY TypeParts, IntakeConstants DEF Frame, Ids
<1>1. faults' > faults => faults = 0 /\ faults' > 0
  BY <1>0, OneFault
<1>2. faults > 0 => faults' > 0
  BY <1>0, OneFault
<1>3. \A g \in Handlers : handler'[g].id = j => handler'[g] = handler[g]
  <2> TAKE g \in Handlers
  <2>1. CASE g = h
    BY <1>0, <2>1, IdleType DEF Frame
  <2>2. CASE g # h
    BY <1>0, <2>2, IdleType DEF Frame
  <2> QED BY <2>1, <2>2
<1>4. CASE job[j].status = "COMPLETED" /\ job[j].sha = repository.sha /\ Handled(j, {"read"})
  BY <1>3, <1>4 DEF Source, Handled
<1>5. ASSUME NEW g \in Handlers, handler[g].id = j,
             \/ handler[g].pc = "complete" /\ handler[g].sha = repository.sha
             \/ handler[g].pc = "markFailed" /\ faults > 0
      PROVE  Source(j)'
  <2>1. g # h /\ (handler'[g] = handler[g] \/ (faults' > faults /\ handler'[g] = Idle))
    BY <1>5 DEF Frame
  <2>2. CASE handler'[g] = handler[g]
    BY <1>2, <1>5, <2>2 DEF Source
  <2>3. CASE faults' > faults /\ handler'[g] = Idle
    <3>1. faults = 0 /\ faults' > 0 /\ handler[g].pc = "complete"
      BY <1>1, <1>5, <2>3
    <3> QED BY <1>0, <1>3, <1>5, <2>3, <3>1, EndedSource
  <2> QED BY <2>1, <2>2, <2>3
<1>6. CASE /\ faults > 0 /\ job[j].status # "COMPLETED" /\ entry[j].state \in {"waiting", "active"}
           /\ Handled(j, {"read", "requeue", "start", "cloning"})
  BY <1>0, <1>2, <1>3, <1>6 DEF Source, Handled
<1> QED BY <1>4, <1>5, <1>6 DEF Source

LEMMA SourceWorks ==
  ASSUME TypeOK, QueueInv, WorkInv, SourceInv, NEW h \in Handlers, Works(h) PROVE SourceInv'
<1> SUFFICES ASSUME NEW i, i = handler[h].id, faults' <= 1, repository'.clone = "READY"
             PROVE  \E j \in Jobs : Source(j)'
  BY DEF SourceInv
<1>0. Frame(h) /\ RowsFrame(h) /\ Busy(h) /\ FaultsOK
      /\ (faults' = faults \/ faults' = faults + 1)
  BY WorksEffect, TypeParts DEF Frame
<1>1. /\ faults <= 1 /\ (faults' > faults => faults = 0 /\ faults' > 0)
      /\ faults > 0 => faults' > 0 /\ faults' = faults
  BY <1>0, OneFault
<1>2. ~ (faults > faults)
  BY <1>0, IntakeConstants DEF FaultsOK
<1>3. Thrown(h) => faults = 0 /\ faults' > 0
  BY <1>1 DEF Thrown
<1>4. /\ entry[i].state = "active" /\ i \in Ids /\ i # None
      /\ \A g \in Handlers \ {h} : handler[g].id # i /\ handler'[g].id # i
      /\ handler'[h].pc # "idle" => handler'[h].id = i /\ entry' = entry
  BY <1>0, BusyIs, IdleType DEF Frame
<1>5. ASSUME NEW j \in Jobs, Source(j), j # i, UNCHANGED repository PROVE Source(j)'
  <2>1. job'[j] = job[j]
    BY <1>0, <1>5 DEF RowsFrame
  <2> QED BY <1>0, <1>5, <2>1, SourceKept
\* What the step's own job was, as a source.
<1>6. ASSUME Source(i)
      PROVE  \/ handler[h].pc = "read" /\ job[i].status = "COMPLETED" /\ job[i].sha = repository.sha
             \/ handler[h].pc = "complete" /\ handler[h].sha = repository.sha
             \/ handler[h].pc = "markFailed" /\ faults > 0
             \/ /\ handler[h].pc \in {"read", "requeue", "start", "cloning"} /\ faults > 0
                /\ job[i].status # "COMPLETED"
  BY <1>4, <1>6 DEF Source, Handled
\* What makes it one again.
<1>7. ASSUME \/ /\ job'[i].status = "COMPLETED" /\ job'[i].sha = repository'.sha
                /\ handler'[h] = Idle
             \/ handler'[h].pc = "complete" /\ handler'[h].sha = repository'.sha
             \/ handler'[h].pc = "markFailed" /\ faults' > 0
             \/ /\ handler'[h].pc \in {"read", "requeue", "start", "cloning"} /\ faults' > 0
                /\ job'[i].status # "COMPLETED"
      PROVE  Source(i)'
  <2>1. CASE job'[i].status = "COMPLETED" /\ job'[i].sha = repository'.sha /\ handler'[h] = Idle
    <3>1. \A g \in Handlers : handler'[g].id # i
      BY <1>4, <2>1, IdleType
    <3> QED BY <2>1, <3>1 DEF Source, Handled
  <2>2. CASE \/ handler'[h].pc = "complete" /\ handler'[h].sha = repository'.sha
             \/ handler'[h].pc = "markFailed" /\ faults' > 0
    BY <1>4, <2>2 DEF Source
  <2>3. CASE /\ handler'[h].pc \in {"read", "requeue", "start", "cloning"} /\ faults' > 0
             /\ job'[i].status # "COMPLETED"
    <3>1. \A g \in Handlers : handler'[g].id = i => g = h
      BY <1>4
    <3> QED BY <1>4, <2>3, <3>1 DEF Source, Handled
  <2> QED BY <1>7, <2>1, <2>2, <2>3
<1>8. CASE UNCHANGED repository /\ (Source(i) => Source(i)')
  <2>1. PICK j \in Jobs : Source(j)
    BY <1>1, <1>8 DEF SourceInv
  <2>2. Source(j)'
    BY <1>5, <1>8, <2>1
  <2> QED BY <2>2
<1>9. CASE IngestDoes(h)
  <2>1. i \in Jobs
    BY <1>9 DEF IngestDoes
  <2>2. CASE Begins(h)
    <3>1. ASSUME Source(i) PROVE Source(i)'
      <4>1. \/ job[i].status = "COMPLETED" /\ job[i].sha = repository.sha
            \/ faults > 0 /\ job[i].status # "COMPLETED"
        BY <1>6, <2>2, <3>1 DEF Begins
      <4> QED BY <1>1, <1>7, <2>2, <4>1 DEF Begins
    <3> QED BY <1>8, <2>2, <3>1 DEF Begins
  <2>3. CASE Sets(h)
    <3>1. ASSUME Source(i) PROVE Source(i)'
      <4>1. faults > 0 /\ faults' > 0
        BY <1>1, <1>6, <2>3, <3>1 DEF Sets
      <4>2. ~ Thrown(h)
        BY <1>2, <1>3, <4>1
      <4> QED BY <1>7, <2>3, <4>1, <4>2 DEF Sets
    <3> QED BY <1>8, <2>3, <3>1 DEF Sets
  <2>4. CASE Clones(h)
    <3>1. handler[h].pc \notin {"cloning", "markFailed"} /\ UNCHANGED repository
      BY <2>4 DEF Clones
    <3>2. ~ Source(i)
      BY <1>6, <2>4, <3>1 DEF Clones
    <3> QED BY <1>8, <3>1, <3>2
  <2>5. CASE Readies(h)
    <3>1. Thrown(h) => handler'[h].pc = "markFailed"
      BY <1>9, <2>5 DEF Thrown, Readies, IngestDoes, Guarded
    <3>2. Source(i)'
      BY <1>3, <1>7, <2>5, <3>1 DEF Readies
    <3> QED BY <2>1, <3>2
  <2>6. CASE Completes(h)
    <3>1. ASSUME Source(i) PROVE Source(i)'
      <4>1. job'[i].sha = repository'.sha
        BY <1>6, <2>6, <3>1 DEF Completes
      <4>2. Thrown(h) => handler'[h].pc = "markFailed"
        BY <1>9, <2>6 DEF Thrown, Completes, IngestDoes, Guarded
      <4> QED BY <1>3, <1>7, <2>6, <4>1, <4>2 DEF Completes
    <3> QED BY <1>8, <2>6, <3>1 DEF Completes
  <2> QED BY <1>9, <2>2, <2>3, <2>4, <2>5, <2>6 DEF IngestDoes
<1>10. CASE AnalyseDoes(h)
  <2>1. i \notin Jobs /\ UNCHANGED repository
    BY <1>10, IdsAre DEF AnalyseDoes
  <2>2. PICK j \in Jobs : Source(j)
    BY <1>1, <2>1 DEF SourceInv
  <2>3. Source(j)'
    BY <1>5, <2>1, <2>2
  <2> QED BY <2>3
<1>11. CASE Thrown(h) /\ UNCHANGED <<job, repository, analysis>>
  <2>1. PICK j \in Jobs : Source(j)
    BY <1>1, <1>11 DEF SourceInv
  <2>2. CASE j # i
    <3>1. Source(j)'
      BY <1>5, <1>11, <2>1, <2>2
    <3> QED BY <3>1
  <2>3. CASE j = i
    <3>1. faults = 0 /\ faults' > 0 /\ Source(i)
      BY <1>3, <1>11, <2>1, <2>3
    <3>2. h[2] = "ingest"
      BY <1>0, <2>3, BusyIs, IdsAre DEF Queues
    <3>3. \/ handler[h].pc = "read" /\ job[i].status = "COMPLETED" /\ job[i].sha = repository.sha
          \/ handler[h].pc = "complete"
      BY <1>2, <1>6, <3>1
    <3>4. Source(i)'
      BY <1>7, <1>11, <3>1, <3>2, <3>3 DEF Thrown, Guarded
    <3> QED BY <2>3, <3>4
  <2> QED BY <2>2, <2>3
<1> QED BY <1>9, <1>10, <1>11, WorksEffect

-----------------------------------------------------------------------------
(* Each part of the invariant is kept by the queues, by a crash and by the *)
(* requests.                                                               *)

LEMMA TakeKeeps ==
  ASSUME IInv, NEW h \in Handlers, NEW i \in Ids, Take(h, i) PROVE IInv'
<1> USE DEF IInv
<1>1. /\ TypeOK' /\ UNCHANGED <<job, created, repository, analysis, client, faults, lost>>
      /\ handler[h] = Idle /\ handler'[h].id = i /\ handler'[h].pc = "read"
      /\ \A g \in Handlers : handler[g].id # i
      /\ \A g \in Handlers \ {h} : handler'[g] = handler[g]
      /\ entry[i].state = "waiting" /\ entry'[i].state = "active"
      /\ entry'[i].stalls = entry[i].stalls
      /\ \A k \in Ids \ {i} : entry'[k] = entry[k]
  BY TakeEffect
<1>2. \A g \in Handlers : handler'[g].pc \notin {"idle", "read"} => handler'[g] = handler[g]
  BY <1>1
<1>3. \A k \in Ids : Completing(k)' <=> Completing(k)
  BY <1>1, IdleType DEF Completing
<1>4. QueueInv'
  <2>1. \A j \in Jobs : entry'[j].state # "none" => entry[j].state # "none"
    BY <1>1 DEF Ids
  <2> QED BY <1>1, <2>1 DEF QueueInv
<1>5. CreatedInv'
  BY <1>1 DEF CreatedInv
<1>6. CommitInv'
  BY <1>1, <1>2 DEF CommitInv
<1>7. WorkInv'
  BY <1>1, <1>2 DEF WorkInv
<1>8. ResultsInv'
  BY <1>1, <1>3 DEF ResultsInv, Ids
<1>9. ReadyInv'
  BY <1>1, <1>3, ReadyKept DEF Ids
<1>10. BudgetInv'
  <2>1. ASSUME NEW k \in Ids
        PROVE  /\ entry'[k].stalls = entry[k].stalls
               /\ Abandoned(k)' => Abandoned(k)
    <3>1. CASE k = i
      BY <1>1, <3>1 DEF Abandoned
    <3>2. CASE k # i
      <4>1. handler[h].id # k
        BY <1>1, IdleType, IdsAre
      <4> QED BY <1>1, <3>2, <4>1 DEF Abandoned
    <3> QED BY <3>1, <3>2
  <2> QED BY <1>1, <2>1 DEF BudgetInv
<1>11. SourceInv'
  <2> SUFFICES ASSUME faults <= 1, repository.clone = "READY" PROVE \E j \in Jobs : Source(j)'
    BY <1>1 DEF SourceInv
  <2>1. PICK j \in Jobs : Source(j)
    BY DEF SourceInv
  <2>2. entry[j].state \in {"waiting", "active"} => entry'[j].state \in {"waiting", "active"}
    BY <1>1 DEF Ids
  <2>3. \A g \in Handlers : handler'[g].id = j => handler'[g].pc = "read" \/ handler'[g] = handler[g]
    BY <1>1
  <2>4. \A g \in Handlers : handler[g].id = j => handler'[g] = handler[g]
    BY <1>1, IdleType, IdsAre DEF Ids
  <2>5. Source(j)'
    BY <1>1, <2>1, <2>2, <2>3, <2>4 DEF Source, Handled
  <2> QED BY <2>5
<1> QED BY <1>1, <1>4, <1>5, <1>6, <1>7, <1>8, <1>9, <1>10, <1>11

\* The queue gives a job up only when its handler died twice.
LEMMA StalledKeeps ==
  ASSUME IInv, NEW i \in Ids, Stalled(i) PROVE IInv'
<1> USE DEF IInv
<1>1. /\ TypeOK' /\ UNCHANGED <<job, created, repository, analysis, client, handler, faults, lost>>
      /\ Abandoned(i) /\ entry'[i].state \in {"waiting", "done"}
      /\ \/ entry[i].stalls = 0 /\ entry'[i].state = "waiting" /\ entry'[i].stalls = 1
         \/ entry'[i].stalls = 0 /\ entry[i].stalls # 0
      /\ \A k \in Ids \ {i} : entry'[k] = entry[k]
  BY StalledEffect
<1>2. \A k \in Ids : Completing(k)' <=> Completing(k)
  BY <1>1 DEF Completing
<1>3. faults \in Nat /\ entry[i].stalls < faults /\ entry[i].stalls \in 0 .. 1
  BY <1>1, TypeParts, IntakeConstants DEF BudgetInv, FaultsOK, HandlersOK, Entries, MaxStalls
<1>4. QueueInv'
  <2>1. \A j \in Jobs : entry'[j].state # "none" => entry[j].state # "none"
    BY <1>1 DEF Ids, Abandoned
  <2> QED BY <1>1, <2>1 DEF QueueInv
<1>5. CreatedInv' /\ CommitInv' /\ WorkInv'
  BY <1>1 DEF CreatedInv, CommitInv, WorkInv
<1>6. ResultsInv'
  BY <1>1, <1>2 DEF ResultsInv, Ids
<1>7. ReadyInv'
  BY <1>1, <1>2, ReadyKept DEF Ids
<1>8. BudgetInv'
  <2>1. ASSUME NEW k \in Ids \ {i}
        PROVE  entry'[k].stalls <= faults /\ (Abandoned(k)' => entry'[k].stalls < faults)
    BY <1>1, <2>1 DEF BudgetInv, Abandoned
  <2>2. entry'[i].stalls <= faults /\ ~ Abandoned(i)'
    BY <1>1, <1>3 DEF Abandoned
  <2>3. ASSUME NEW k \in Ids
        PROVE  entry'[k].stalls <= faults' /\ (Abandoned(k)' => entry'[k].stalls < faults')
    BY <1>1, <2>1, <2>2
  <2> QED BY <2>3 DEF BudgetInv
<1>9. SourceInv'
  <2> SUFFICES ASSUME faults <= 1, repository.clone = "READY" PROVE \E j \in Jobs : Source(j)'
    BY <1>1 DEF SourceInv
  <2>1. PICK j \in Jobs : Source(j)
    BY DEF SourceInv
  <2>2. entry[i].stalls = 0
    BY <1>3
  <2>3. entry[j].state \in {"waiting", "active"} => entry'[j].state \in {"waiting", "active"}
    BY <1>1, <2>2 DEF Ids
  <2>4. Source(j)'
    BY <1>1, <2>1, <2>3 DEF Source, Handled
  <2> QED BY <2>4
<1> QED BY <1>1, <1>4, <1>5, <1>6, <1>7, <1>8, <1>9

LEMMA CrashKeeps ==
  ASSUME IInv, NEW w \in Workers, Crash(w) PROVE IInv'
<1> USE DEF IInv
<1>1. /\ TypeOK' /\ UNCHANGED <<job, created, repository, analysis, client, entry, lost>>
      /\ \A g \in Handlers : handler'[g] = handler[g] \/ handler'[g] = Idle
      /\ faults' = faults + 1 /\ faults' > faults
  BY CrashEffect
<1>2. \A g \in Handlers : handler'[g].pc # "idle" => handler'[g] = handler[g]
  BY <1>1, IdleType
<1>3. \A k \in Ids : Completing(k)' => Completing(k)
  BY <1>2 DEF Completing
<1>4. faults \in Nat /\ faults' > 0 /\ FaultsOK
  BY <1>1, TypeParts, IntakeConstants DEF FaultsOK
<1>5. QueueInv' /\ CreatedInv'
  BY <1>1 DEF QueueInv, CreatedInv
<1>6. CommitInv'
  BY <1>1, <1>2 DEF CommitInv
<1>7. WorkInv'
  BY <1>1, <1>2, <1>4 DEF WorkInv
<1>8. ResultsInv'
  <2>1. faults' # 0
    BY <1>4
  <2> QED BY <1>1, <1>3, <2>1 DEF ResultsInv, Ids
<1>9. ReadyInv'
  BY <1>1, <1>3, ReadyKept DEF Ids
<1>10. BudgetInv'
  <2>1. \A k \in Ids : entry[k].stalls \in 0 .. 1
    BY TypeParts DEF HandlersOK, Entries, MaxStalls
  <2>2. ASSUME NEW k \in Ids PROVE entry[k].stalls <= faults' /\ entry[k].stalls < faults'
    <3>1. entry[k].stalls <= faults
      BY DEF BudgetInv
    <3> QED BY <1>1, <1>4, <2>1, <3>1
  <2> QED BY <1>1, <2>2 DEF BudgetInv
<1>11. SourceInv'
  <2> SUFFICES ASSUME faults' <= 1, repository.clone = "READY" PROVE \E j \in Jobs : Source(j)'
    BY <1>1 DEF SourceInv
  <2>1. faults = 0 /\ ~ (faults > 0)
    BY <1>1, <1>4
  <2>2. PICK j \in Jobs : Source(j)
    BY <2>1 DEF SourceInv
  <2>3. \A g \in Handlers : handler'[g].id = j => handler'[g] = handler[g]
    BY <1>1, IdleType, IdsAre DEF Ids
  <2>4. CASE job[j].status = "COMPLETED" /\ job[j].sha = repository.sha /\ Handled(j, {"read"})
    <3>1. Source(j)'
      BY <1>1, <2>3, <2>4 DEF Source, Handled
    <3> QED BY <3>1
  <2>5. ASSUME NEW g \in Handlers, handler[g].id = j, handler[g].pc = "complete",
               handler[g].sha = repository.sha
        PROVE  Source(j)'
    <3>1. CASE handler'[g] = handler[g]
      BY <1>1, <2>5, <3>1 DEF Source
    <3>2. CASE handler'[g] = Idle
      BY <1>1, <1>4, <2>1, <2>3, <2>5, <3>2, EndedSource
    <3> QED BY <1>1, <3>1, <3>2
  <2> QED BY <2>1, <2>2, <2>4, <2>5 DEF Source
<1> QED BY <1>1, <1>5, <1>6, <1>7, <1>8, <1>9, <1>10, <1>11

\* What a request asks for is there.
LEMMA ClientQueue ==
  ASSUME TypeOK, QueueInv, CommitInv, NEW k \in Clients, Client(k) PROVE QueueInv'
<1> DEFINE Known(c) ==
      /\ client[c].pc = "enqueue" => /\ client[c].id \in Ids
                                     /\ client[c].id \in Jobs => job[client[c].id].status # "ABSENT"
      /\ client[c].pc \in {"listJobs", "find"} => client[c].id \in Commits
<1>0. /\ \A j \in Jobs : entry[j].state # "none" => job[j].status # "ABSENT"
      /\ \A c \in Clients : Known(c)
      /\ job \in [Jobs -> JobRows] /\ entry \in [Ids -> Entries] /\ client \in [Clients -> Requests]
  BY TypeParts DEF QueueInv, RowsOK, HandlersOK
<1>a. ASSUME NEW pc, NEW i, Ask(k, pc, i)
      PROVE  /\ client'[k] = [pc |-> pc, id |-> i]
             /\ \A c \in Clients \ {k} : client'[c] = client[c]
  BY <1>0, <1>a DEF Ask
<1>d. ASSUME Done(k)
      PROVE  client'[k] = Free /\ \A c \in Clients \ {k} : client'[c] = client[c]
  BY <1>0, <1>d DEF Done
<1>f. Free.pc = "idle"
  BY DEF Free
<1>1. ASSUME NEW j \in Jobs, FindOrCreateJob(k, j) PROVE QueueInv'
  <2>1. entry' = entry /\ client'[k] = [pc |-> "enqueue", id |-> j]
        /\ \A c \in Clients \ {k} : client'[c] = client[c]
    BY <1>1, <1>a DEF FindOrCreateJob
  <2>2. /\ \A i \in Jobs : job[i].status # "ABSENT" => job'[i].status # "ABSENT"
        /\ job'[j].status # "ABSENT"
    BY <1>0, <1>1 DEF FindOrCreateJob, Needed, canRetryJob, JobRows
  <2>3. \A c \in Clients : Known(c)'
    BY <1>0, <2>1, <2>2 DEF Ids
  <2>4. \A i \in Jobs : entry'[i].state # "none" => job'[i].status # "ABSENT"
    BY <1>0, <2>1, <2>2
  <2> QED BY <2>3, <2>4 DEF QueueInv
<1>2. CASE Enqueue(k)
  <2>1. job' = job /\ client'[k] = Free /\ \A c \in Clients \ {k} : client'[c] = client[c]
    BY <1>2, <1>d DEF Enqueue, dbVars
  <2>2. \A j \in Jobs : entry'[j].state # "none" => job'[j].status # "ABSENT"
    <3> TAKE j \in Jobs
    <3>1. j \in Ids /\ Known(k) /\ client[k].pc = "enqueue"
      BY <1>0, <1>2 DEF Ids, Enqueue
    <3>2. CASE j = client[k].id
      BY <2>1, <3>1, <3>2
    <3>3. CASE j # client[k].id
      <4>1. entry'[j] = entry[j]
        BY <1>0, <1>2, <3>1, <3>3 DEF Enqueue
      <4> QED BY <1>0, <2>1, <4>1
    <3> QED BY <3>2, <3>3
  <2>3. \A c \in Clients : Known(c)'
    BY <1>0, <1>f, <2>1
  <2> QED BY <2>2, <2>3 DEF QueueInv
<1>3. ASSUME UNCHANGED <<job, entry>>, \A c \in Clients \ {k} : client'[c] = client[c], Known(k)'
      PROVE  QueueInv'
  <2>1. \A c \in Clients : Known(c)'
    BY <1>0, <1>3
  <2>2. \A i \in Jobs : entry'[i].state # "none" => job'[i].status # "ABSENT"
    BY <1>0, <1>3
  <2> QED BY <2>1, <2>2 DEF QueueInv
<1>4. CASE RequestAnalysis(k)
  <2>1. client'[k] = [pc |-> "listJobs", id |-> repository.sha] /\ repository.sha \in Commits
        /\ \A c \in Clients \ {k} : client'[c] = client[c]
    BY <1>4, <1>a DEF RequestAnalysis, CommitInv
  <2>2. UNCHANGED <<job, entry>>
    BY <1>4 DEF RequestAnalysis, OnlyClient, dbVars
  <2> QED BY <1>3, <2>1, <2>2
<1>5. CASE ListJobs(k)
  <2> DEFINE s == IF CompletedAt = {} THEN client[k].id ELSE job[created[Newest(CompletedAt)]].sha
  <2>1. Ask(k, "find", s) /\ client[k].pc = "listJobs" /\ UNCHANGED <<job, entry>>
    BY <1>5 DEF ListJobs, OnlyClient, dbVars
  <2>2. s \in Commits
    <3>1. Known(k)
      BY <1>0
    <3>2. CompletedAt # {} => job[created[Newest(CompletedAt)]].sha \in Commits
      BY CreatedType DEF CommitInv
    <3> QED BY <2>1, <3>1, <3>2
  <2> HIDE DEF s
  <2>3. client'[k] = [pc |-> "find", id |-> s] /\ \A c \in Clients \ {k} : client'[c] = client[c]
    BY <2>1, <1>a
  <2> QED BY <1>3, <2>1, <2>2, <2>3
<1>6. CASE FindOrCreateAnalysis(k)
  <2>1. client[k].id \in Commits /\ client[k].id \in Ids /\ client[k].id \notin Jobs
    BY <1>0, <1>6, IdsAre DEF FindOrCreateAnalysis, Ids
  <2>2. UNCHANGED <<job, entry>>
    BY <1>6 DEF FindOrCreateAnalysis
  <2>3. CASE Ask(k, "enqueue", client[k].id)
    <3>1. client'[k] = [pc |-> "enqueue", id |-> client[k].id]
          /\ \A c \in Clients \ {k} : client'[c] = client[c]
      BY <2>3, <1>a
    <3> QED BY <1>3, <2>1, <2>2, <3>1
  <2>4. CASE Done(k)
    BY <1>3, <1>d, <1>f, <2>2, <2>4
  <2> QED BY <1>6, <2>3, <2>4 DEF FindOrCreateAnalysis
<1>7. CASE Abandon(k)
  <2>1. UNCHANGED <<job, entry>> /\ Done(k)
    BY <1>7 DEF Abandon, dbVars
  <2> QED BY <1>3, <1>d, <1>f, <2>1
<1> QED BY <1>1, <1>2, <1>4, <1>5, <1>6, <1>7 DEF Client

LEMMA ClientCreated ==
  ASSUME TypeOK, CreatedInv, NEW k \in Clients, Client(k) PROVE CreatedInv'
<1>1. ASSUME NEW j \in Jobs, job[j].status = "ABSENT", job' = [job EXCEPT ![j].status = "QUEUED"],
             created' = Append(created, j)
      PROVE  CreatedInv'
  <2>1. /\ \A m, n \in DOMAIN created' : created'[m] = created'[n] => m = n
        /\ \A i \in Jobs : (\E n \in DOMAIN created' : created'[n] = i)
                             <=> i = j \/ \E n \in DOMAIN created : created[n] = i
    BY <1>1, AppendType
  <2>2. \A i \in Jobs : job'[i].status # "ABSENT" <=> i = j \/ job[i].status # "ABSENT"
    BY <1>1, TypeParts DEF RowsOK, JobRows
  <2> QED BY <2>1, <2>2 DEF CreatedInv
<1>2. CASE UNCHANGED <<job, created>>
  BY <1>2 DEF CreatedInv
<1> QED BY <1>1, <1>2 DEF Client, FindOrCreateJob, Enqueue, RequestAnalysis, ListJobs,
    FindOrCreateAnalysis, Abandon, OnlyClient, dbVars

LEMMA ClientKeeps ==
  ASSUME IInv, NEW k \in Clients, Client(k) PROVE IInv'
<1> USE DEF IInv
<1>1. /\ TypeOK' /\ UNCHANGED <<repository, handler, lost>>
      /\ faults' = faults \/ (faults' = faults + 1 /\ faults' > faults)
      /\ \A j \in Jobs : job[j].status # "ABSENT" => job'[j] = job[j]
      /\ \A j \in Jobs : job[j].status = "ABSENT" => job'[j] = job[j] \/ job'[j].status = "QUEUED"
      /\ \A s \in Commits :
           \/ analysis'[s] = analysis[s]
           \/ /\ analysis[s].status = "ABSENT" /\ analysis'[s].status = "QUEUED"
              /\ analysis'[s].results = analysis[s].results
      /\ \A i \in Ids : /\ entry'[i].stalls = entry[i].stalls
                        /\ \/ entry'[i] = entry[i]
                           \/ entry[i].state \in {"none", "done"} /\ entry'[i].state = "waiting"
  BY ClientEffect
<1>2. \A s : Completing(s)' <=> Completing(s)
  BY <1>1 DEF Completing
<1>3. faults \in Nat /\ (faults > 0 => faults' > 0) /\ (faults' = 0 => faults = 0)
      /\ (faults' <= 1 => faults <= 1) /\ FaultsOK
  BY <1>1, TypeParts, IntakeConstants DEF FaultsOK
<1>4. QueueInv' /\ CreatedInv'
  BY ClientQueue, ClientCreated
<1>5. \A j \in Jobs : job'[j].status = "COMPLETED" => job'[j] = job[j]
  BY <1>1
<1>6. \A s \in Commits : analysis'[s].status = "COMPLETED" => analysis'[s] = analysis[s]
  BY <1>1
<1>7. CommitInv'
  BY <1>1, <1>5 DEF CommitInv
<1>8. WorkInv'
  <2>1. ASSUME NEW h \in Handlers, h[2] = "ingest", handler[h].pc \notin {"idle", "read"}, ~ lost
        PROVE  job'[handler[h].id].status # "COMPLETED"
    <3>1. handler[h].id \in Jobs
      BY <2>1, BusyIs, IdsAre, TypeParts DEF Busy
    <3> QED BY <1>5, <2>1, <3>1 DEF WorkInv
  <2>2. ASSUME NEW h \in Handlers, h[2] = "analysis", handler[h].pc \notin {"idle", "read", "catch"}
        PROVE  analysis'[handler[h].id].status # "COMPLETED"
    <3>1. handler[h].id \in Commits
      BY <2>2, BusyIs, IdsAre, TypeParts DEF Busy
    <3> QED BY <1>6, <2>2, <3>1 DEF WorkInv
  <2> QED BY <1>1, <1>3, <2>1, <2>2 DEF WorkInv
<1>9. ResultsInv'
  <2>1. ASSUME NEW s \in Commits
        PROVE  /\ analysis'[s].results = analysis[s].results
               /\ analysis'[s].status = "COMPLETED" <=> analysis[s].status = "COMPLETED"
    BY <1>1
  <2> QED BY <1>2, <1>3, <2>1 DEF ResultsInv
<1>10. ReadyInv'
  <2>1. \A j \in Jobs : \/ job'[j].status = job[j].status
                        \/ job[j].status = "ABSENT" /\ job'[j].status # "COMPLETED"
    BY <1>1
  <2> QED BY <1>1, <1>2, <2>1, ReadyKept
<1>11. BudgetInv'
  <2>1. \A i \in Ids : entry[i].stalls \in 0 .. 1
    BY TypeParts DEF HandlersOK, Entries, MaxStalls
  <2>2. ASSUME NEW i \in Ids PROVE Abandoned(i)' => Abandoned(i)
    BY <1>1 DEF Abandoned
  <2>3. ASSUME NEW i \in Ids
        PROVE  entry'[i].stalls <= faults' /\ (Abandoned(i)' => entry'[i].stalls < faults')
    <3>1. entry[i].stalls <= faults /\ (Abandoned(i) => entry[i].stalls < faults)
      BY DEF BudgetInv
    <3>2. entry'[i].stalls = entry[i].stalls
      BY <1>1
    <3> QED BY <1>1, <1>3, <2>1, <2>2, <3>1, <3>2
  <2> QED BY <2>3 DEF BudgetInv
<1>12. SourceInv'
  <2> SUFFICES ASSUME faults' <= 1, repository.clone = "READY" PROVE \E j \in Jobs : Source(j)'
    BY <1>1 DEF SourceInv
  <2>1. PICK j \in Jobs : Source(j)
    BY <1>3 DEF SourceInv
  <2>2. /\ entry[j].state \in {"waiting", "active"} => entry'[j] = entry[j]
        /\ job[j].status = "COMPLETED" => job'[j] = job[j]
        /\ job[j].status # "COMPLETED" => job'[j].status # "COMPLETED"
    BY <1>1 DEF Ids
  <2>3. Source(j)'
    BY <1>1, <1>3, <2>1, <2>2 DEF Source, Handled
  <2> QED BY <2>3
<1> QED BY <1>1, <1>4, <1>7, <1>8, <1>9, <1>10, <1>11, <1>12

-----------------------------------------------------------------------------
(* The theorems.                                                           *)

LEMMA InitInv == Init => IInv
<1> SUFFICES ASSUME Init PROVE IInv
  OBVIOUS
<1>1. TypeOK
  BY InitType
<1>2. /\ \A h \in Handlers : handler[h] = Idle
      /\ \A c \in Clients : client[c] = Free
      /\ \A j \in Jobs : job[j] = NoJob
      /\ \A i \in Ids : entry[i] = NewEntry
      /\ \A s \in Commits : analysis[s] = [status |-> "ABSENT", results |-> 0]
      /\ created = <<>> /\ repository.clone = "PENDING" /\ faults = 0 /\ lost = FALSE
  BY DEF Init
<1>3. Free.pc = "idle" /\ NoJob.status = "ABSENT" /\ NewEntry.state = "none" /\ NewEntry.stalls = 0
  BY DEF Free, NoJob, NewEntry
<1>4. \A h \in Handlers : handler[h].pc = "idle" /\ handler[h].id = None
  BY <1>2, IdleType
<1>5. QueueInv
  BY <1>2, <1>3 DEF QueueInv, Ids
<1>6. CreatedInv
  BY <1>2, <1>3 DEF CreatedInv
<1>7. CommitInv /\ WorkInv
  BY <1>2, <1>3, <1>4 DEF CommitInv, WorkInv
<1>8. ResultsInv
  BY <1>2, <1>4 DEF ResultsInv, Completing
<1>9. ReadyInv
  BY <1>2, <1>3, <1>4 DEF ReadyInv, Through, Completing
<1>10. BudgetInv
  BY <1>2, <1>3 DEF BudgetInv, Abandoned
<1>11. SourceInv
  BY <1>2 DEF SourceInv
<1> QED BY <1>1, <1>5, <1>6, <1>7, <1>8, <1>9, <1>10, <1>11 DEF IInv

LEMMA StepInv == IInv /\ [Next]_vars => IInv'
<1> SUFFICES ASSUME IInv, [Next]_vars PROVE IInv'
  OBVIOUS
<1>1. ASSUME NEW h \in Handlers, NEW i \in Ids, Take(h, i) PROVE IInv'
  BY <1>1, TakeKeeps
<1>2. ASSUME NEW i \in Ids, Stalled(i) PROVE IInv'
  BY <1>2, StalledKeeps
<1>3. ASSUME NEW w \in Workers, Crash(w) PROVE IInv'
  BY <1>3, CrashKeeps
<1>4. ASSUME NEW h \in Handlers, Works(h) PROVE IInv'
  BY <1>4, WorksType, QueueWorks, CreatedWorks, CommitWorks, WorkWorks, ResultsWorks, ReadyWorks,
     BudgetWorks, SourceWorks DEF IInv
<1>5. ASSUME NEW k \in Clients, Client(k) PROVE IInv'
  BY <1>5, ClientKeeps
<1>6. CASE UNCHANGED vars
  BY <1>6 DEF vars, dbVars, IInv, TypeOK, QueueInv, CreatedInv, CommitInv, WorkInv, ResultsInv,
     ReadyInv, BudgetInv, SourceInv, Completing, Through, Unfinished, Abandoned, Source, Handled
<1> QED BY <1>1, <1>2, <1>3, <1>4, <1>5, <1>6 DEF Next, Works

\* The inductive invariant holds in every reachable state.
THEOREM Invariance == Spec => []IInv
BY InitInv, StepInv, PTL DEF Spec

\* Rows, queue entries, handlers and requests stay within their types, and a
\* job of the queues has one handler at a time (worker.ts, BullMQ's locks).
THEOREM TypeCorrect == Spec => []TypeOK
BY Invariance, PTL DEF IInv

LEMMA IngestedByInv == IInv => (faults <= 1 => RepositoryIsIngested)
<1> SUFFICES ASSUME IInv, faults <= 1, Quiet PROVE
      /\ repository.clone = "READY" =>
           \E j \in Jobs : job[j].status = "COMPLETED" /\ job[j].sha = repository.sha
      /\ ~ lost /\ CompletedAt = DOMAIN created /\ created # <<>> => repository.clone = "READY"
  BY DEF RepositoryIsIngested
<1>1. \A i \in Ids : entry[i].state \notin {"waiting", "active"}
  BY DEF Quiet
<1>2. \A h \in Handlers : handler[h].id = None
  BY <1>1, TypeParts, BusyIs DEF IInv, Busy, HandlersOK, Holds
<1>3. \A i \in Ids : ~ Completing(i)
  BY <1>2, IdsAre DEF Completing
<1>4. ASSUME repository.clone = "READY"
      PROVE  \E j \in Jobs : job[j].status = "COMPLETED" /\ job[j].sha = repository.sha
  <2>1. PICK j \in Jobs : Source(j)
    BY <1>4 DEF IInv, SourceInv
  <2>2. j \in Ids /\ j # None
    BY IdsAre DEF Ids
  <2> QED BY <1>1, <1>2, <2>1, <2>2 DEF Source
<1>5. ASSUME ~ lost, CompletedAt = DOMAIN created, created # <<>>, repository.clone # "READY"
      PROVE  FALSE
  <2>1. PICK n \in 0 .. Cardinality(Jobs) : created \in [1 .. n -> Jobs]
    BY CreatedType DEF IInv
  <2>2. n \in Nat /\ n # 0
    <3>1. Cardinality(Jobs) \in Nat
      BY IntakeConstants, FS_CardinalityType
    <3>2. created \in Seq(Jobs) /\ Len(created) = n
      BY <2>1, <3>1
    <3> QED BY <1>5, <3>1, <3>2, EmptySeq
  <2>3. created[1] \in Jobs /\ job[created[1]].status = "COMPLETED"
    BY <1>5, <2>1, <2>2 DEF CompletedAt
  <2>4. PICK u \in Jobs : Unfinished(u)
    BY <1>5, <2>3 DEF IInv, ReadyInv, Through
  <2>5. PICK m \in DOMAIN created : created[m] = u
    BY <2>4 DEF IInv, CreatedInv, Unfinished
  <2> QED BY <1>5, <2>4, <2>5 DEF CompletedAt, Unfinished
<1> QED BY <1>4, <1>5

\* Once nothing is at work, a READY repository is at the commit of a completed
\* job, and is READY when all its jobs are completed, however many jobs wrote
\* the one row in whatever order (markRepositoryReady, markRepositoryFailed),
\* as long as no more than one call failed or worker died.
THEOREM RepositoryIngested == Spec => [](faults <= 1 => RepositoryIsIngested)
BY Invariance, IngestedByInv, PTL

\* A handler that finds its row completed writes no more.
LEMMA CompletedWorks ==
  ASSUME IInv, NEW h \in Handlers, Works(h)
  PROVE  /\ \A s \in Commits : analysis[s].status = "COMPLETED" => analysis'[s] = analysis[s]
         /\ \A j \in Jobs : job[j].status = "COMPLETED" /\ ~ lost => job'[j] = job[j]
<1> SUFFICES ASSUME NEW i, i = handler[h].id
             PROVE  /\ i \in Commits /\ analysis[i].status = "COMPLETED" => analysis'[i] = analysis[i]
                    /\ i \in Jobs /\ job[i].status = "COMPLETED" /\ ~ lost => job'[i] = job[i]
  BY WorksEffect DEF IInv, RowsFrame
<1>1. Busy(h) /\ i \in QueueIds(h[2]) /\ h[2] \in Queues
  BY WorksEffect, BusyIs DEF IInv
<1>2. i \in Commits /\ analysis[i].status = "COMPLETED"
        => h[2] = "analysis" /\ handler[h].pc \in {"read", "catch"}
  BY <1>1, IdsAre DEF IInv, WorkInv, Busy, Queues
<1>3. i \in Jobs /\ job[i].status = "COMPLETED" /\ ~ lost => h[2] = "ingest" /\ handler[h].pc = "read"
  BY <1>1, IdsAre DEF IInv, WorkInv, Busy, Queues
<1>4. i \notin Jobs \cap Commits
  BY IdsAre
<1>5. CASE IngestDoes(h)
  BY <1>2, <1>3, <1>4, <1>5 DEF IngestDoes, Begins, Sets, Clones, Readies, Completes
<1>6. CASE AnalyseDoes(h)
  BY <1>2, <1>3, <1>4, <1>6 DEF AnalyseDoes, Looks, Moves, Persists, Finishes
<1> QED BY <1>5, <1>6, WorksEffect DEF IInv

\* What is completed stays as it is, with its results, whatever is requested,
\* redelivered or retried afterwards (processAnalysisJob and processIngestJob
\* return early), and a completed analysis has results, one set of them unless
\* a fault had persistResult append another.
THEOREM CompletedIsKept == Spec => CompletedStands
<1>1. IInv => CompletedHasResults
  <2> SUFFICES ASSUME IInv, NEW s \in Commits, analysis[s].status = "COMPLETED"
               PROVE  analysis[s].results \in IF faults = 0 THEN {1} ELSE {1, 2}
    BY DEF CompletedHasResults
  <2>1. analysis[s].results \in 0 .. 2
    BY TypeParts DEF IInv, RowsOK, AnalysisRows
  <2> QED BY <2>1 DEF IInv, ResultsInv
<1>2. IInv /\ [Next]_vars =>
        [/\ \A s \in Commits : analysis[s].status = "COMPLETED" => analysis'[s] = analysis[s]
         /\ \A j \in Jobs : job[j].status = "COMPLETED" /\ ~ lost => job'[j] = job[j]]_vars
  <2> SUFFICES ASSUME IInv, Next
               PROVE  /\ \A s \in Commits : analysis[s].status = "COMPLETED" => analysis'[s] = analysis[s]
                      /\ \A j \in Jobs : job[j].status = "COMPLETED" /\ ~ lost => job'[j] = job[j]
    OBVIOUS
  <2>1. CASE \E k \in Clients : Client(k)
    BY <2>1, ClientEffect DEF IInv
  <2>2. CASE \E h \in Handlers : Works(h)
    BY <2>2, CompletedWorks
  <2>3. CASE UNCHANGED <<job, analysis>>
    BY <2>3
  <2>4. \/ \E k \in Clients : Client(k)
        \/ \E h \in Handlers : Works(h)
        \/ UNCHANGED <<job, analysis>>
    BY DEF Next, Works, Take, Stalled, Crash, dbVars
  <2> QED BY <2>1, <2>2, <2>3, <2>4
<1> QED BY <1>1, <1>2, Invariance, PTL DEF Spec, CompletedStands

=============================================================================
