-------------------------- MODULE ValidationProofs ---------------------------
(***************************************************************************)
(* Proofs about validation runs, for every set of workers, clients,        *)
(* revisions and repositories, and every number of attempts and faults.    *)
(* The inductive invariant is IInv.  WorkerOK says where a handler can     *)
(* stand in a run that has no result yet, and that what it has seen and    *)
(* what is left are the profile's commands; ResultOK says that a result    *)
(* agrees with what the handler that wrote it saw.                         *)
(***************************************************************************)
EXTENDS ValidationProperties, FiniteSetTheorems, SequenceTheorems, TLAPS

Tools    == {"pnpm", "npm", "yarn", "none", "git", "forge", "node"}
Codes    == {"UNSUPPORTED_TEST_REQUIREMENT", "UNSUPPORTED_RUNTIME_VERSION",
             "DEPENDENCY_RESOLUTION_FAILED", "UNSUPPORTED_FRAMEWORK"}
Errors   == Codes \cup {"none", "INSTALL_FAILED", "INSTALL_SCRIPTS_REQUIRED", "BUILD_FAILED",
                        "TEST_FAILED", "EXECUTION_TIMEOUT", "SANDBOX_START_FAILED",
                        "REVISION_ARTIFACT_MISSING", "REVISION_INTEGRITY_MISMATCH"}
Commands == [step : Steps, network : {"none", "install"}, tool : Tools]
Results  == {"pass", "timeout"} \cup Failures
Seen     == [step : Steps, result : Results]
Rows     == [status : Statuses, outcome : Outcomes, error : Errors, counted : BOOLEAN,
             build : {"none", "PASSED", "FAILED", "SKIPPED"},
             test : {"none", "PASSED", "FAILED", "SKIPPED"}]
Handlers == [run : Revisions \cup {None}, pc : HandlerPcs, left : Seq(Commands), current : Statuses,
             verdict : Rows, seen : Seq(Seen), failed : BOOLEAN]
Entries  == [state : {"none", "waiting", "active", "done"}, attempts : 0 .. MaxAttempts - 1,
             stalls : 0 .. MaxStalls]
Requests == [pc : {"idle", "enqueue"}, rev : Revisions \cup {None}]

Shape ==
  /\ run \in [Revisions -> Rows]
  /\ step \in [Revisions -> [Steps -> StepStatuses]]
  /\ entry \in [Revisions -> Entries]
  /\ handler \in [Workers -> Handlers]
  /\ box \in [Workers -> {"none", "up", "reaped"}]
  /\ client \in [Clients -> Requests]
  /\ evidence \in [Revisions -> Seq(Seen)]

\* A run has one handler, which executes its job; and a job is there for a row that is there.
QueueInv ==
  /\ \A v, w \in Workers : handler[v].run # None /\ handler[v].run = handler[w].run => v = w
  /\ \A w \in Workers : handler[w].run # None => entry[handler[w].run].state = "active"
  /\ \A r \in Revisions : entry[r].state # "none" => run[r].status # "ABSENT"
  /\ \A c \in Clients : /\ client[c].pc = "idle" <=> client[c].rev = None
                        /\ client[c].rev # None => run[client[c].rev].status # "ABSENT"

-----------------------------------------------------------------------------
(* A handler goes through the commands P of the profile in their order.    *)

\* The commands left are those after the first k.
Left(h, k, P) ==
  /\ h.left # <<>>
  /\ Len(h.left) + k = Len(P)
  /\ \A i \in 1 .. Len(h.left) : h.left[i] = P[k + i]

\* The first k commands passed, and the rows say so.
PassedSoFar(h, k, P, rows) ==
  \A i \in 1 .. k :
    /\ h.seen[i] = [step |-> P[i].step, result |-> "pass"]
    /\ rows[P[i].step] = "PASSED"

\* What a result says agrees with what was seen, and so do the rows.
RowOf(seen, n) ==
  LET results == {seen[i].result : i \in {j \in DOMAIN seen : seen[j].step = n}}
  IN  CASE results = {} -> "SKIPPED" [] results = {"pass"} -> "PASSED" [] OTHER -> "FAILED"

Agrees(row, seen, P, rows) ==
  /\ row.outcome = "PASSED" =>
       /\ Len(seen) = Len(P)
       /\ \A i \in 1 .. Len(seen) : seen[i] = [step |-> P[i].step, result |-> "pass"]
       /\ row.error = "none" /\ row.build = "PASSED" /\ row.test = "PASSED"
  /\ row.status = "COMPLETED" => \A i \in 1 .. Len(P) : rows[P[i].step] = RowOf(seen, P[i].step)

\* A handler h, the container b it has, the rows of its run, and whether that has a result.
Stands(h, b, P, rows, done) ==
  LET k == Len(h.seen) IN
  /\ h.pc # "idle"
  /\ b # "none" => h.pc \in WithBox
  /\ h.pc \notin {"read", "catch", "cleanup"} => ~ done
  /\ h.pc \in BeforeTry \cup {"materialize", "verify", "select"} => h.seen = <<>>
  /\ h.pc \in {"prepare", "enter", "execute"} => Left(h, k, P) /\ PassedSoFar(h, k, P, rows)
  /\ h.pc = "record" =>
       /\ k > 0 /\ Left(h, k - 1, P) /\ PassedSoFar(h, k - 1, P, rows)
       /\ h.seen[k].step = P[k].step
  /\ h.pc = "finish" => Agrees(h.verdict, h.seen, P, rows)

WorkerOK(w) ==
  IF handler[w].run = None THEN handler[w] = Idle /\ box[w] = "none"
  ELSE Stands(handler[w], box[w], Profile.commands, step[handler[w].run], Done(handler[w].run))

ResultOK(r) == Done(r) => Agrees(run[r], evidence[r], Profile.commands, step[r])

IInv ==
  /\ Shape
  /\ QueueInv
  /\ \A w \in Workers : WorkerOK(w)
  /\ \A r \in Revisions : ResultOK(r)

-----------------------------------------------------------------------------
(* The profile                                                             *)

LEMMA packageManagerIsTool ==
  ASSUME NEW files
  PROVE  packageManager(files) \in Tools
<1> DEFINE p == packageManager(files)
<1>1. CASE "pnpm-lock.yaml" \in files
  <2>1. p = "pnpm"
    BY <1>1 DEF packageManager
  <2> QED BY <2>1 DEF Tools
<1>2. CASE "pnpm-lock.yaml" \notin files /\ "package-lock.json" \in files
  <2>1. p = "npm"
    BY <1>2 DEF packageManager
  <2> QED BY <2>1 DEF Tools
<1>3. CASE /\ "pnpm-lock.yaml" \notin files /\ "package-lock.json" \notin files
           /\ "yarn.lock" \in files
  <2>1. p = "yarn"
    BY <1>3 DEF packageManager
  <2> QED BY <2>1 DEF Tools
<1>4. CASE /\ "pnpm-lock.yaml" \notin files /\ "package-lock.json" \notin files
           /\ "yarn.lock" \notin files
  <2>1. p = "none"
    BY <1>4 DEF packageManager
  <2> QED BY <2>1 DEF Tools
<1> QED BY <1>1, <1>2, <1>3, <1>4

\* A repository has no profile, or is built and tested, perhaps after an installation.
IsProfile(p) ==
  \/ \E code \in Codes : p.unsupported = code /\ p.commands = <<>>
  \/ /\ p.unsupported = "none"
     /\ \E t \in Tools :
          \/ p.commands = <<Command("BUILD", "none", t), Command("TEST", "none", t)>>
          \/ \E u \in Tools :
               p.commands = <<Command("INSTALL", "install", u), Command("BUILD", "none", t),
                              Command("TEST", "none", t)>>

LEMMA Joined ==
  ASSUME NEW S, NEW a \in S, NEW b \in S, NEW c \in S
  PROVE  <<a>> \o <<b, c>> = <<a, b, c>> /\ <<>> \o <<b, c>> = <<b, c>>
<1>1. <<a>> \in Seq(S) /\ <<b, c>> \in Seq(S) /\ <<a, b, c>> \in Seq(S) /\ <<>> \in Seq(S)
  OBVIOUS
<1>2. <<a>> \o <<b, c>> \in Seq(S) /\ Len(<<a>> \o <<b, c>>) = 3
  BY <1>1
<1>3. \A i \in 1 .. 3 : (<<a>> \o <<b, c>>)[i] = <<a, b, c>>[i]
  BY <1>1
<1>4. <<a>> \o <<b, c>> = <<a, b, c>>
  BY <1>1, <1>2, <1>3, SeqEqual
<1>5. <<>> \o <<b, c>> = <<b, c>>
  BY <1>1
<1> QED BY <1>4, <1>5

LEMMA CommandType ==
  ASSUME NEW s \in Steps, NEW n \in {"none", "install"}, NEW t \in Tools
  PROVE  Command(s, n, t) \in Commands /\ Command(s, n, t).step = s
BY DEF Command, Commands

LEMMA selectProfileShape ==
  ASSUME NEW d, d.dockerRequired \in BOOLEAN, d.framework \in {"FOUNDRY", "HARDHAT", "none"},
         d.packageManager \in Tools, d.dockerRequired => d.framework = "none"
  PROVE  IsProfile(selectProfile(d))
<1> DEFINE two(t) == <<Command("BUILD", "none", t), Command("TEST", "none", t)>>
           one(u) == <<Command("INSTALL", "install", u)>>
<1>0. \A u, t \in Tools :
        /\ one(u) \o two(t) = <<Command("INSTALL", "install", u), Command("BUILD", "none", t),
                                Command("TEST", "none", t)>>
        /\ <<>> \o two(t) = two(t)
  <2> TAKE u, t \in Tools
  <2>1. /\ Command("INSTALL", "install", u) \in Commands /\ Command("BUILD", "none", t) \in Commands
        /\ Command("TEST", "none", t) \in Commands
    BY CommandType DEF Steps
  <2> QED BY <2>1, Joined
<1>1. CASE d.dockerRequired
  <2>1. selectProfile(d) = Unsupported("UNSUPPORTED_TEST_REQUIREMENT")
    BY <1>1 DEF selectProfile
  <2> QED BY <2>1 DEF IsProfile, Unsupported, Codes
<1>2. CASE ~ d.dockerRequired /\ d.framework = "none"
  <2>1. selectProfile(d) = Unsupported("UNSUPPORTED_FRAMEWORK")
    BY <1>2 DEF selectProfile
  <2> QED BY <2>1 DEF IsProfile, Unsupported, Codes
<1>3. CASE ~ d.dockerRequired /\ d.framework = "FOUNDRY"
  <2>1. selectProfile(d) =
          [image |-> "foundry",
           commands |-> (IF d.hasGitmodules THEN one("git") ELSE <<>>) \o two("forge"),
           unsupported |-> "none"]
    BY <1>3 DEF selectProfile
  <2>2. "git" \in Tools /\ "forge" \in Tools
    BY DEF Tools
  <2>3. CASE d.hasGitmodules
    BY <2>1, <2>2, <2>3, <1>0 DEF IsProfile
  <2>4. CASE ~ d.hasGitmodules
    BY <2>1, <2>2, <2>4, <1>0 DEF IsProfile
  <2> QED BY <2>3, <2>4
<1>4. CASE ~ d.dockerRequired /\ d.framework = "HARDHAT"
  <2>1. selectProfile(d) =
          IF d.nodeMajor # Null /\ d.nodeMajor \notin SUPPORTED_NODE
          THEN Unsupported("UNSUPPORTED_RUNTIME_VERSION")
          ELSE IF d.packageManager = "none"
          THEN Unsupported("DEPENDENCY_RESOLUTION_FAILED")
          ELSE [image |-> IF d.nodeMajor = 20 THEN "node20" ELSE "node22",
                commands |-> one(d.packageManager) \o two("node"), unsupported |-> "none"]
    BY <1>4 DEF selectProfile
  <2>3. "node" \in Tools
    BY DEF Tools
  <2>4. \A code \in Codes : IsProfile(Unsupported(code))
    BY DEF IsProfile, Unsupported
  <2>5. "UNSUPPORTED_RUNTIME_VERSION" \in Codes /\ "DEPENDENCY_RESOLUTION_FAILED" \in Codes
    BY DEF Codes
  <2>6. \A image : IsProfile([image |-> image, unsupported |-> "none",
                             commands |-> one(d.packageManager) \o two("node")])
    BY <2>3, <1>0 DEF IsProfile
  <2> QED BY <2>1, <2>4, <2>5, <2>6
<1> QED BY <1>1, <1>2, <1>3, <1>4

\* What the handler relies on: commands of different steps, among them a build and a test.
LEMMA ProfileShape ==
  LET P == Profile.commands IN
  /\ P \in Seq(Commands)
  /\ Profile.unsupported \in Codes \cup {"none"}
  /\ Profile.unsupported # "none" => P = <<>>
  /\ Profile.unsupported = "none" => P # <<>> /\ "BUILD" \in Planned /\ "TEST" \in Planned
  /\ \A i, j \in 1 .. Len(P) : P[i].step = P[j].step => i = j
  /\ Planned = {P[i].step : i \in 1 .. Len(P)} /\ Planned \subseteq Steps
<1> DEFINE P == Profile.commands
           d == detectWorkspace(repo)
<1>1. IsProfile(Profile)
  <2>1. d.packageManager = packageManager(repo.files)
    BY DEF detectWorkspace
  <2>2. /\ d.framework \in {"FOUNDRY", "HARDHAT", "none"} /\ d.dockerRequired \in BOOLEAN
        /\ d.dockerRequired => d.framework = "none"
    BY DEF detectWorkspace
  <2>3. d.packageManager \in Tools
    BY <2>1, packageManagerIsTool
  <2> HIDE DEF d
  <2>4. IsProfile(selectProfile(d))
    BY <2>2, <2>3, selectProfileShape
  <2> QED BY <2>4 DEF Profile, d
<1>2. "INSTALL" \in Steps /\ "BUILD" \in Steps /\ "TEST" \in Steps
  BY DEF Steps
<1>3. CASE Profile.unsupported \in Codes /\ P = <<>>
  BY <1>3 DEF Planned, Codes
<1>4. CASE Profile.unsupported = "none" /\ Len(P) = 2 /\ P \in Seq(Commands)
           /\ P[1].step = "BUILD" /\ P[2].step = "TEST"
  <2>1. DOMAIN P = 1 .. 2
    BY <1>4
  <2> QED BY <1>4, <1>2, <2>1 DEF Planned
<1>5. CASE Profile.unsupported = "none" /\ Len(P) = 3 /\ P \in Seq(Commands)
           /\ P[1].step = "INSTALL" /\ P[2].step = "BUILD" /\ P[3].step = "TEST"
  <2>1. DOMAIN P = 1 .. 3
    BY <1>5
  <2> QED BY <1>5, <1>2, <2>1 DEF Planned
<1>6. ASSUME NEW t \in Tools, P = <<Command("BUILD", "none", t), Command("TEST", "none", t)>>
      PROVE  Len(P) = 2 /\ P \in Seq(Commands) /\ P[1].step = "BUILD" /\ P[2].step = "TEST"
  BY <1>2, <1>6, CommandType
<1>7. ASSUME NEW t \in Tools, NEW u \in Tools,
             P = <<Command("INSTALL", "install", u), Command("BUILD", "none", t),
                   Command("TEST", "none", t)>>
      PROVE  /\ Len(P) = 3 /\ P \in Seq(Commands)
             /\ P[1].step = "INSTALL" /\ P[2].step = "BUILD" /\ P[3].step = "TEST"
  BY <1>2, <1>7, CommandType
<1> HIDE DEF P
<1>8. \/ Profile.unsupported \in Codes /\ P = <<>>
      \/ Profile.unsupported = "none" /\ Len(P) = 2 /\ P \in Seq(Commands)
           /\ P[1].step = "BUILD" /\ P[2].step = "TEST"
      \/ Profile.unsupported = "none" /\ Len(P) = 3 /\ P \in Seq(Commands)
           /\ P[1].step = "INSTALL" /\ P[2].step = "BUILD" /\ P[3].step = "TEST"
  BY <1>1, <1>6, <1>7 DEF IsProfile, P
<1> QED BY <1>8, <1>3, <1>4, <1>5

-----------------------------------------------------------------------------
(* What a step of one worker leaves alone                                  *)

LEMMA IdleType == Idle \in Handlers /\ NoRun \in Rows /\ NewEntry \in Entries
<1>1. NoRun \in Rows
  BY DEF NoRun, Rows, Statuses, Outcomes, Errors
<1>2. NewEntry \in Entries
  BY ValidationConstants DEF NewEntry, Entries, MaxStalls
<1> QED BY <1>1, <1>2 DEF Idle, Handlers, HandlerPcs, Statuses

\* A handler's step changes only its own record, and of the rows, jobs and
\* results only those of its run, which it keeps or lets go of for good.
Frame(w) ==
  LET r == handler[w].run IN
  /\ Shape'
  /\ UNCHANGED <<repo, client>>
  /\ \A v \in Workers \ {w} : /\ handler'[v] = handler[v]
                              /\ box'[v] = "none" <=> box[v] = "none"
  /\ \A s \in Revisions \ {r} :
       /\ run'[s] = run[s] /\ step'[s] = step[s]
       /\ entry'[s] = entry[s] /\ evidence'[s] = evidence[s]
  /\ run'[r].status # "ABSENT"
  /\ \/ handler'[w] = Idle /\ entry'[r].state # "none"
     \/ handler'[w].run = r /\ handler'[w].pc # "idle" /\ entry' = entry

LEMMA ProfileKept ==
  ASSUME repo' = repo
  PROVE  Profile' = Profile /\ Planned' = Planned
BY DEF Profile, Planned

LEMMA SameWorker ==
  ASSUME IInv, NEW v \in Workers, repo' = repo, handler'[v] = handler[v],
         box'[v] = "none" <=> box[v] = "none",
         \A s \in Revisions : handler[v].run = s => run'[s] = run[s] /\ step'[s] = step[s]
  PROVE  WorkerOK(v)'
<1>0. WorkerOK(v)
  BY DEF IInv
<1>1. CASE handler[v].run = None
  BY <1>0, <1>1 DEF WorkerOK
<1>2. ASSUME NEW s \in Revisions, handler[v].run = s, s # None
      PROVE  WorkerOK(v)'
  <2>1. step'[s] = step[s] /\ run'[s] = run[s]
    BY <1>2
  <2>2. Profile' = Profile
    BY ProfileKept
  <2>3. Done(s)' = Done(s)
    BY <2>1 DEF Done
  <2>4. Stands(handler[v], box[v], Profile.commands, step[s], Done(s))
    BY <1>0, <1>2 DEF WorkerOK
  <2>5. Stands(handler[v], box'[v], Profile.commands, step[s], Done(s))
    BY <2>4 DEF Stands
  <2>6. Stands(handler'[v], box'[v], Profile'.commands, step'[s], Done(s)')
    BY <2>1, <2>2, <2>3, <2>5
  <2> QED BY <1>2, <2>6 DEF WorkerOK
<1> QED BY <1>1, <1>2 DEF IInv, Shape, Handlers

LEMMA SameResult ==
  ASSUME IInv, NEW s \in Revisions, repo' = repo,
         run'[s] = run[s] /\ step'[s] = step[s] /\ evidence'[s] = evidence[s]
  PROVE  ResultOK(s)'
<1>1. Profile' = Profile
  BY ProfileKept
<1>2. ResultOK(s)
  BY DEF IInv
<1> QED BY <1>1, <1>2 DEF ResultOK, Done

LEMMA OthersKept ==
  ASSUME IInv, NEW w \in Workers, handler[w].run # None, Frame(w),
         NEW v \in Workers \ {w}
  PROVE  WorkerOK(v)'
<1>1. ASSUME NEW s \in Revisions, handler[v].run = s
      PROVE  run'[s] = run[s] /\ step'[s] = step[s]
  <2>1. s # handler[w].run
    BY <1>1 DEF IInv, QueueInv
  <2> QED BY <2>1 DEF Frame
<1> QED BY <1>1, SameWorker DEF Frame

LEMMA FrameKept ==
  ASSUME IInv, NEW w \in Workers, NEW r \in Revisions, handler[w].run = r, Frame(w),
         WorkerOK(w)', ResultOK(r)'
  PROVE  IInv'
<1>1. r # None
  BY ValidationConstants
<1>2. \A v \in Workers : WorkerOK(v)'
  BY <1>1, OthersKept
<1>3. ASSUME NEW s \in Revisions
      PROVE  ResultOK(s)'
  <2>1. CASE s = r
    BY <2>1
  <2>2. CASE s # r
    BY <2>2, SameResult DEF Frame
  <2> QED BY <2>1, <2>2
<1>4. QueueInv'
  <2>1. QueueInv /\ entry[r].state = "active"
    BY <1>1 DEF IInv, QueueInv
  <2>2. \A v \in Workers : handler'[v].run = None \/ handler'[v].run = handler[v].run
    BY DEF Frame, Idle
  <2>3. \A u, v \in Workers : handler'[v].run # None /\ handler'[v].run = handler'[u].run => u = v
    BY <2>1, <2>2 DEF QueueInv
  <2>4. \A v \in Workers : handler'[v].run # None => entry'[handler'[v].run].state = "active"
    <3> SUFFICES ASSUME NEW v \in Workers, handler'[v].run # None
                 PROVE  entry'[handler'[v].run].state = "active"
      OBVIOUS
    <3>1. CASE v = w
      BY <3>1, <2>1, <1>1 DEF Frame, Idle
    <3>2. CASE v # w
      <4>1. handler[v].run \in Revisions \ {r} /\ handler'[v] = handler[v]
        BY <3>2, <2>1 DEF Frame, QueueInv, IInv, Shape, Handlers
      <4> QED BY <4>1, <2>1 DEF Frame, QueueInv
    <3> QED BY <3>1, <3>2
  <2>5. \A s \in Revisions : entry'[s].state # "none" => run'[s].status # "ABSENT"
    BY <2>1 DEF Frame, QueueInv
  <2>6. \A c \in Clients : /\ client'[c].pc = "idle" <=> client'[c].rev = None
                           /\ client'[c].rev # None => run'[client'[c].rev].status # "ABSENT"
    <3> TAKE c \in Clients
    <3>1. client'[c] = client[c] /\ client[c].rev \in Revisions \cup {None}
      BY DEF Frame, IInv, Shape, Requests
    <3> QED BY <3>1, <2>1 DEF Frame, QueueInv
  <2> QED BY <2>3, <2>4, <2>5, <2>6 DEF QueueInv
<1> QED BY <1>2, <1>3, <1>4 DEF IInv, Frame

-----------------------------------------------------------------------------
(* How a step leaves its handler                                           *)

Goes(w, h) ==
  /\ h \in Handlers /\ h.run = handler[w].run /\ h.pc # "idle"
  /\ handler' \in [Workers -> Handlers] /\ handler'[w] = h
  /\ \A v \in Workers \ {w} : handler'[v] = handler[v]
  /\ entry' = entry

Ends(w) ==
  /\ handler' \in [Workers -> Handlers] /\ handler'[w] = Idle
  /\ \A v \in Workers \ {w} : handler'[v] = handler[v]
  /\ entry' \in [Revisions -> Entries] /\ entry'[handler[w].run].state # "none"
  /\ \A s \in Revisions \ {handler[w].run} : entry'[s] = entry[s]

Threw(w) ==
  IF handler[w].pc \in BeforeTry THEN Ends(w)
  ELSE Goes(w, [handler[w] EXCEPT !.pc = "catch", !.failed = TRUE])

LEMMA GotoGoes ==
  ASSUME Shape, NEW w \in Workers, NEW h \in Handlers, h.run = handler[w].run, h.pc # "idle",
         Goto(w, h)
  PROVE  Goes(w, h)
BY DEF Shape, Goto, Goes

LEMMA ToGoes ==
  ASSUME Shape, NEW w \in Workers, NEW pc \in HandlerPcs \ {"idle"}, To(w, pc)
  PROVE  /\ Goes(w, [handler[w] EXCEPT !.pc = pc])
         /\ handler'[w] = [handler[w] EXCEPT !.pc = pc]
<1>1. [handler[w] EXCEPT !.pc = pc] \in Handlers
  BY DEF Shape, Handlers
<1>2. [handler[w] EXCEPT !.pc = pc].run = handler[w].run
      /\ [handler[w] EXCEPT !.pc = pc].pc = pc
  BY DEF Shape, Handlers
<1>3. Goto(w, [handler[w] EXCEPT !.pc = pc])
  BY DEF To
<1>4. Goes(w, [handler[w] EXCEPT !.pc = pc])
  BY <1>1, <1>2, <1>3, GotoGoes
<1> QED BY <1>4 DEF Goes

LEMMA SettleEnds ==
  ASSUME Shape, NEW w \in Workers, handler[w].run \in Revisions, NEW failed \in BOOLEAN,
         Settle(w, failed)
  PROVE  Ends(w)
<1> DEFINE r == handler[w].run
<1>1. Forgotten \in Entries /\ Forgotten.state = "done"
  BY IdleType DEF Entries, NewEntry, Forgotten
<1>2. entry[r].attempts + 1 < MaxAttempts =>
        Again(entry[r]) \in Entries /\ Again(entry[r]).state = "waiting"
  <2>1. entry[r] \in Entries /\ entry[r].attempts \in 0 .. MaxAttempts - 1
    BY DEF Shape, Entries
  <2>2. entry[r].attempts + 1 < MaxAttempts => entry[r].attempts + 1 \in 0 .. MaxAttempts - 1
    BY <2>1, ValidationConstants
  <2> QED BY <2>1, <2>2 DEF Entries, Again
<1>3. PICK e \in Entries : entry' = [entry EXCEPT ![r] = e] /\ e.state # "none"
  BY <1>1, <1>2 DEF Settle
<1>4. /\ entry' \in [Revisions -> Entries] /\ entry'[r].state # "none"
      /\ \A s \in Revisions \ {r} : entry'[s] = entry[s]
  BY <1>3 DEF Shape
<1>5. /\ handler' \in [Workers -> Handlers] /\ handler'[w] = Idle
      /\ \A v \in Workers \ {w} : handler'[v] = handler[v]
  BY IdleType DEF Settle, Shape
<1> QED BY <1>4, <1>5 DEF Ends

LEMMA ThrowThrew ==
  ASSUME Shape, NEW w \in Workers, handler[w].run \in Revisions, Throw(w)
  PROVE  Threw(w)
<1>1. CASE handler[w].pc \in BeforeTry
  BY <1>1, SettleEnds DEF Throw, Threw
<1>2. CASE handler[w].pc \notin BeforeTry
  <2> DEFINE h == [handler[w] EXCEPT !.pc = "catch", !.failed = TRUE]
  <2>1. h \in Handlers /\ h.run = handler[w].run /\ h.pc = "catch"
    BY DEF Shape, Handlers, HandlerPcs
  <2>2. Goto(w, h)
    BY <1>2 DEF Throw
  <2> HIDE DEF h
  <2>3. Goes(w, h)
    BY <2>1, <2>2, GotoGoes
  <2> QED BY <1>2, <2>3 DEF Threw, h
<1> QED BY <1>1, <1>2

LEMMA WrittenGoes ==
  ASSUME Shape, NEW w \in Workers, handler[w].run \in Revisions, NEW h \in Handlers,
         h.run = handler[w].run, h.pc # "idle", Written(w, h)
  PROVE  Goes(w, h) \/ Threw(w)
BY GotoGoes, ThrowThrew DEF Written

\* What a step does to the rest of the state.
Rest(w, r) ==
  /\ UNCHANGED <<repo, client>>
  /\ run' \in [Revisions -> Rows] /\ run'[r].status # "ABSENT"
  /\ step' \in [Revisions -> [Steps -> StepStatuses]]
  /\ evidence' \in [Revisions -> Seq(Seen)]
  /\ box' \in [Workers -> {"none", "up", "reaped"}]
  /\ \A s \in Revisions \ {r} :
       run'[s] = run[s] /\ step'[s] = step[s] /\ evidence'[s] = evidence[s]
  /\ \A v \in Workers \ {w} : box'[v] = "none" <=> box[v] = "none"

LEMMA Framed ==
  ASSUME Shape, NEW w \in Workers, NEW r \in Revisions, handler[w].run = r, Rest(w, r),
         Ends(w) \/ Threw(w) \/ \E h : Goes(w, h)
  PROVE  Frame(w)
<1>1. Ends(w) \/ \E h : Goes(w, h)
  BY DEF Threw
<1>2. /\ handler' \in [Workers -> Handlers]
      /\ \A v \in Workers \ {w} : handler'[v] = handler[v]
      /\ entry' \in [Revisions -> Entries]
      /\ \A s \in Revisions \ {r} : entry'[s] = entry[s]
  BY <1>1 DEF Goes, Ends, Shape
<1>3. Shape'
  BY <1>2 DEF Rest, Shape
<1>4. \/ handler'[w] = Idle /\ entry'[r].state # "none"
      \/ handler'[w].run = r /\ handler'[w].pc # "idle" /\ entry' = entry
  BY <1>1 DEF Goes, Ends
<1> QED BY <1>2, <1>3, <1>4 DEF Frame, Rest

\* What there is to know of a handler that is about to take a step.
LEMMA Standing ==
  ASSUME IInv, NEW w \in Workers, handler[w].run # None \/ handler[w].pc # "idle"
  PROVE  \E r \in Revisions :
           /\ handler[w].run = r /\ run[r].status # "ABSENT"
           /\ Stands(handler[w], box[w], Profile.commands, step[r], Done(r))
<1>1. WorkerOK(w)
  BY DEF IInv
<1>2. handler[w].run # None
  BY <1>1 DEF WorkerOK, Idle
<1>3. PICK r \in Revisions : handler[w].run = r
  BY <1>2 DEF IInv, Shape, Handlers
<1>4. run[r].status # "ABSENT"
  BY <1>2, <1>3 DEF IInv, QueueInv
<1>5. Stands(handler[w], box[w], Profile.commands, step[r], Done(r))
  BY <1>1, <1>2, <1>3 DEF WorkerOK
<1> QED BY <1>3, <1>4, <1>5

LEMMA StillRest ==
  ASSUME IInv, NEW w \in Workers, NEW r \in Revisions, run[r].status # "ABSENT",
         UNCHANGED <<dbVars, box, client, evidence>>
  PROVE  Rest(w, r) /\ ResultOK(r)'
<1>1. Profile' = Profile
  BY ProfileKept DEF dbVars
<1>2. ResultOK(r)
  BY DEF IInv
<1> QED BY <1>1, <1>2 DEF IInv, Shape, Rest, dbVars, ResultOK, Done

LEMMA EndsKept ==
  ASSUME IInv, NEW w \in Workers, NEW r \in Revisions, handler[w].run = r, Rest(w, r),
         ResultOK(r)', Ends(w), box'[w] = "none"
  PROVE  IInv'
<1>1. WorkerOK(w)'
  BY DEF WorkerOK, Ends, Idle
<1>2. Frame(w)
  BY Framed DEF IInv
<1> QED BY <1>1, <1>2, FrameKept

LEMMA GoesKept ==
  ASSUME IInv, NEW w \in Workers, NEW r \in Revisions, handler[w].run = r, Rest(w, r),
         ResultOK(r)', NEW h, Goes(w, h),
         Stands(h, box'[w], Profile.commands, step'[r], Done(r)')
  PROVE  IInv'
<1>1. Profile' = Profile
  BY ProfileKept DEF Rest
<1>2. WorkerOK(w)'
  BY <1>1, ValidationConstants DEF WorkerOK, Goes
<1>3. Frame(w)
  BY Framed DEF IInv
<1> QED BY <1>2, <1>3, FrameKept

LEMMA ThrewKept ==
  ASSUME IInv, NEW w \in Workers, NEW r \in Revisions, handler[w].run = r, Rest(w, r),
         ResultOK(r)', Threw(w), box'[w] = "none" \/ handler[w].pc \notin BeforeTry
  PROVE  IInv'
<1>1. CASE handler[w].pc \in BeforeTry
  BY <1>1, EndsKept DEF Threw
<1>2. CASE handler[w].pc \notin BeforeTry
  <2> DEFINE h == [handler[w] EXCEPT !.pc = "catch", !.failed = TRUE]
  <2>1. h.pc = "catch"
    BY DEF IInv, Shape, Handlers
  <2>2. Goes(w, h)
    BY <1>2 DEF Threw
  <2> HIDE DEF h
  <2>3. Stands(h, box'[w], Profile.commands, step'[r], Done(r)')
    BY <2>1 DEF Stands, WithBox, BeforeTry
  <2> QED BY <2>2, <2>3, GoesKept
<1> QED BY <1>1, <1>2

-----------------------------------------------------------------------------
(* The steps before the commands                                           *)

USE DEF HandlerPcs

LEMMA ReadKept ==
  ASSUME IInv, NEW w \in Workers, Read(w)
  PROVE  IInv'
<1>1. PICK r \in Revisions :
        /\ handler[w].run = r /\ run[r].status # "ABSENT"
        /\ Stands(handler[w], box[w], Profile.commands, step[r], Done(r))
  BY Standing DEF Read, At
<1>2. /\ handler[w].seen = <<>> /\ box[w] = "none" /\ handler[w] \in Handlers
      /\ handler[w].pc = "read" /\ Shape
  BY <1>1 DEF Read, At, Stands, BeforeTry, WithBox, IInv, Shape
<1>3. Rest(w, r) /\ ResultOK(r)' /\ box' = box /\ Done(r)' = Done(r)
  BY <1>1, StillRest DEF Read, OnlyHandler, hostVars, dbVars, Done
<1>4. CASE Settle(w, FALSE)
  <2>1. Ends(w)
    BY <1>1, <1>2, <1>4, SettleEnds
  <2> QED BY <1>1, <1>2, <1>3, <2>1, EndsKept
<1>5. ASSUME NEW pc \in {"requeue", "reread"}, To(w, pc), ~ Done(r)
      PROVE  IInv'
  <2> DEFINE h == [handler[w] EXCEPT !.pc = pc]
  <2>1. h.pc = pc /\ h.seen = <<>>
    BY <1>2 DEF Handlers
  <2>2. Goes(w, h)
    BY <1>2, <1>5, ToGoes
  <2> HIDE DEF h
  <2>3. Stands(h, box'[w], Profile.commands, step'[r], Done(r)')
    BY <1>2, <1>3, <1>5, <2>1 DEF Stands, BeforeTry
  <2> QED BY <1>1, <1>3, <2>2, <2>3, GoesKept
<1>6. \/ Settle(w, FALSE)
      \/ ~ Done(r) /\ \E pc \in {"requeue", "reread"} : To(w, pc)
  BY <1>1 DEF Read, Done
<1> QED BY <1>4, <1>5, <1>6

LEMMA RereadKept ==
  ASSUME IInv, NEW w \in Workers, Reread(w)
  PROVE  IInv'
<1>1. PICK r \in Revisions :
        /\ handler[w].run = r /\ run[r].status # "ABSENT"
        /\ Stands(handler[w], box[w], Profile.commands, step[r], Done(r))
  BY Standing DEF Reread, At
<1>2. /\ handler[w].seen = <<>> /\ box[w] = "none" /\ handler[w] \in Handlers
      /\ ~ Done(r) /\ Shape
  BY <1>1 DEF Reread, At, Stands, BeforeTry, WithBox, IInv, Shape
<1>3. Rest(w, r) /\ ResultOK(r)' /\ box' = box /\ Done(r)' = Done(r)
  BY <1>1, StillRest DEF Reread, OnlyHandler, hostVars, dbVars, Done
<1>4. PICK pc \in {"start", "reap"} : To(w, pc)
  BY DEF Reread
<1> DEFINE h == [handler[w] EXCEPT !.pc = pc]
<1>5. h.pc = pc /\ h.seen = <<>>
  BY <1>2 DEF Handlers
<1>6. Goes(w, h)
  BY <1>2, <1>4, ToGoes
<1> HIDE DEF h
<1>7. Stands(h, box'[w], Profile.commands, step'[r], Done(r)')
  BY <1>2, <1>3, <1>5 DEF Stands, BeforeTry
<1> QED BY <1>1, <1>3, <1>6, <1>7, GoesKept

\* A write of the run's row which leaves it without a result.
LEMMA RowRest ==
  ASSUME IInv, NEW w \in Workers, NEW r \in Revisions, NEW row \in Rows,
         row.status \notin {"ABSENT", "COMPLETED", "TIMED_OUT"},
         run' = [run EXCEPT ![r] = row], UNCHANGED <<step, evidence>>, OnlyRun
  PROVE  /\ Rest(w, r) /\ ResultOK(r)' /\ box' = box /\ ~ Done(r)'
BY DEF IInv, Shape, Rest, OnlyRun, hostVars, ResultOK, Done

LEMMA AllowedType ==
  ASSUME NEW from \in Statuses
  PROVE  ALLOWED_VALIDATION_TRANSITIONS[from] \subseteq Statuses \ {"ABSENT"}
BY DEF ALLOWED_VALIDATION_TRANSITIONS, Statuses

LEMMA RequeueStartKept ==
  ASSUME IInv, NEW w \in Workers, Requeue(w) \/ Start(w)
  PROVE  IInv'
<1>1. PICK r \in Revisions :
        /\ handler[w].run = r /\ run[r].status # "ABSENT"
        /\ Stands(handler[w], box[w], Profile.commands, step[r], Done(r))
  BY Standing DEF Requeue, Start, At
<1>2. /\ handler[w].seen = <<>> /\ box[w] = "none" /\ handler[w] \in Handlers
      /\ handler[w].pc \in {"requeue", "start"} /\ Shape
  BY <1>1 DEF Requeue, Start, At, Stands, BeforeTry, WithBox, IInv, Shape
<1>3. PICK s \in {"QUEUED", "PREPARING"}, pc \in {"reread", "reap"} :
        /\ run' = [run EXCEPT ![r] = [run[r] EXCEPT !.status = s]]
        /\ Written(w, [handler[w] EXCEPT !.pc = pc])
        /\ UNCHANGED <<step, evidence>> /\ OnlyRun
  BY <1>1 DEF Requeue, Start, Transition
<1>4. Rest(w, r) /\ ResultOK(r)' /\ box' = box /\ ~ Done(r)'
  <2>1. [run[r] EXCEPT !.status = s] \in Rows /\ [run[r] EXCEPT !.status = s].status = s
    BY <1>2 DEF Shape, Rows, Statuses
  <2> QED BY <1>3, <2>1, RowRest
<1> DEFINE h == [handler[w] EXCEPT !.pc = pc]
<1>5. h \in Handlers /\ h.pc = pc /\ h.seen = <<>> /\ h.run = r
  BY <1>1, <1>2 DEF Handlers
<1>6. Written(w, h)
  BY <1>3
<1> HIDE DEF h
<1>7. Goes(w, h) \/ Threw(w)
  BY <1>1, <1>2, <1>5, <1>6, WrittenGoes
<1>8. Stands(h, box'[w], Profile.commands, step'[r], Done(r)')
  BY <1>2, <1>4, <1>5 DEF Stands, BeforeTry
<1> QED BY <1>1, <1>2, <1>4, <1>7, <1>8, GoesKept, ThrewKept

\* Which containers are there does not matter to a handler, but whether it has one.
LEMMA HostRest ==
  ASSUME IInv, NEW w \in Workers, NEW r \in Revisions, run[r].status # "ABSENT",
         UNCHANGED <<dbVars, client, evidence>>,
         box' \in [Workers -> {"none", "up", "reaped"}],
         \A v \in Workers \ {w} : box'[v] = "none" <=> box[v] = "none"
  PROVE  Rest(w, r) /\ ResultOK(r)' /\ Done(r)' = Done(r) /\ step' = step
<1>1. Profile' = Profile
  BY ProfileKept DEF dbVars
<1>2. ResultOK(r)
  BY DEF IInv
<1> QED BY <1>1, <1>2 DEF IInv, Shape, Rest, dbVars, ResultOK, Done

LEMMA ReapKept ==
  ASSUME IInv, NEW w \in Workers, Reap(w)
  PROVE  IInv'
<1>1. PICK r \in Revisions :
        /\ handler[w].run = r /\ run[r].status # "ABSENT"
        /\ Stands(handler[w], box[w], Profile.commands, step[r], Done(r))
  BY Standing DEF Reap, At
<1>2. /\ handler[w].seen = <<>> /\ box[w] = "none" /\ handler[w] \in Handlers
      /\ ~ Done(r) /\ Shape
  BY <1>1 DEF Reap, At, Stands, BeforeTry, WithBox, IInv, Shape
<1>3. /\ box' \in [Workers -> {"none", "up", "reaped"}] /\ box'[w] = "none"
      /\ \A v \in Workers \ {w} : box'[v] = "none" <=> box[v] = "none"
  BY <1>2 DEF Reap, Reaped, Shape
<1>4. Rest(w, r) /\ ResultOK(r)' /\ Done(r)' = Done(r)
  BY <1>1, <1>3, HostRest DEF Reap
<1> DEFINE h == [handler[w] EXCEPT !.pc = "materialize"]
<1>5. h.pc = "materialize" /\ h.seen = <<>>
  BY <1>2 DEF Handlers
<1>6. Goes(w, h)
  BY <1>2, ToGoes DEF Reap
<1> HIDE DEF h
<1>7. Stands(h, box'[w], Profile.commands, step'[r], Done(r)')
  BY <1>2, <1>3, <1>4, <1>5 DEF Stands, BeforeTry
<1> QED BY <1>1, <1>4, <1>6, <1>7, GoesKept

LEMMA RefusedKept ==
  ASSUME IInv, NEW w \in Workers, Refused(w)
  PROVE  IInv'
<1>1. PICK r \in Revisions :
        /\ handler[w].run = r /\ run[r].status # "ABSENT"
        /\ Stands(handler[w], box[w], Profile.commands, step[r], Done(r))
  BY Standing DEF Refused, BeforeTry
<1>2. Shape /\ (handler[w].pc \in BeforeTry => box[w] = "none")
  BY <1>1 DEF Stands, BeforeTry, WithBox, IInv
<1>3. Rest(w, r) /\ ResultOK(r)' /\ box' = box
  BY <1>1, StillRest DEF Refused, hostVars
<1>4. Threw(w)
  BY <1>1, <1>2, ThrowThrew DEF Refused
<1> QED BY <1>1, <1>2, <1>3, <1>4, ThrewKept

-----------------------------------------------------------------------------
(* The steps around the commands                                           *)

LEMMA VerdictType ==
  ASSUME NEW status \in Statuses, NEW outcome \in Outcomes, NEW error \in Errors,
         NEW build \in {"none", "PASSED", "FAILED", "SKIPPED"},
         NEW test \in {"none", "PASSED", "FAILED", "SKIPPED"}
  PROVE  /\ Verdict(status, outcome, error, build, test) \in Rows
         /\ Verdict(status, outcome, error, build, test).status = status
         /\ Verdict(status, outcome, error, build, test).outcome = outcome
         /\ Verdict(status, outcome, error, build, test).error = error
         /\ Verdict(status, outcome, error, build, test).build = build
         /\ Verdict(status, outcome, error, build, test).test = test
BY DEF Verdict, NoRun, Rows

\* The workspace cannot be made: the verdict is that the platform failed.
LEMMA FailGoes ==
  ASSUME Shape, NEW w \in Workers, Fail(w, "REVISION_ARTIFACT_MISSING")
                                   \/ Fail(w, "REVISION_INTEGRITY_MISMATCH")
  PROVE  \E h : Goes(w, h) /\ h.pc = "finish" /\ h.verdict.status = "FAILED"
                           /\ h.verdict.outcome = "INFRA_FAILURE"
<1>1. PICK code \in {"REVISION_ARTIFACT_MISSING", "REVISION_INTEGRITY_MISMATCH"} : Fail(w, code)
  OBVIOUS
<1> DEFINE v == Verdict("FAILED", "INFRA_FAILURE", code, "none", "none")
           h == [handler[w] EXCEPT !.pc = "finish", !.current = "PREPARING", !.verdict = v]
<1>2. v \in Rows /\ v.status = "FAILED" /\ v.outcome = "INFRA_FAILURE"
  BY VerdictType DEF Statuses, Outcomes, Errors
<1>3. Goto(w, h)
  BY <1>1 DEF Fail
<1> HIDE DEF v
<1>4. h \in Handlers /\ h.run = handler[w].run /\ h.pc = "finish" /\ h.verdict = v
  <2>1. handler[w] \in Handlers /\ "PREPARING" \in Statuses
    BY DEF Shape, Statuses
  <2> QED BY <1>2, <2>1 DEF Handlers
<1> HIDE DEF h
<1> QED BY <1>2, <1>3, <1>4, GotoGoes

LEMMA WorkspaceKept ==
  ASSUME IInv, NEW w \in Workers, Materialize(w) \/ Verify(w)
  PROVE  IInv'
<1>1. PICK r \in Revisions :
        /\ handler[w].run = r /\ run[r].status # "ABSENT"
        /\ Stands(handler[w], box[w], Profile.commands, step[r], Done(r))
  BY Standing DEF Materialize, Verify, At
<1>2. /\ handler[w].seen = <<>> /\ box[w] = "none" /\ handler[w] \in Handlers
      /\ handler[w].pc \in {"materialize", "verify"} /\ ~ Done(r) /\ Shape
  BY <1>1 DEF Materialize, Verify, At, Stands, BeforeTry, WithBox, IInv, Shape
<1>3. Rest(w, r) /\ ResultOK(r)' /\ box' = box /\ Done(r)' = Done(r)
  BY <1>1, StillRest DEF Materialize, Verify, OnlyHandler, hostVars, dbVars, Done
<1>4. ASSUME NEW pc \in {"verify", "select"}, To(w, pc)
      PROVE  IInv'
  <2> DEFINE h == [handler[w] EXCEPT !.pc = pc]
  <2>1. h.pc = pc /\ h.seen = <<>>
    BY <1>2 DEF Handlers
  <2>2. Goes(w, h)
    BY <1>2, <1>4, ToGoes
  <2> HIDE DEF h
  <2>3. Stands(h, box'[w], Profile.commands, step'[r], Done(r)')
    BY <1>2, <1>3, <2>1 DEF Stands, BeforeTry
  <2> QED BY <1>1, <1>3, <2>2, <2>3, GoesKept
<1>5. ASSUME NEW h, Goes(w, h), h.pc = "finish", h.verdict.status = "FAILED",
             h.verdict.outcome = "INFRA_FAILURE"
      PROVE  IInv'
  <2>1. Stands(h, box'[w], Profile.commands, step'[r], Done(r)')
    BY <1>2, <1>3, <1>5 DEF Stands, BeforeTry, Agrees
  <2> QED BY <1>1, <1>3, <1>5, <2>1, GoesKept
<1>6. CASE Throw(w)
  BY <1>1, <1>2, <1>3, <1>6, ThrowThrew, ThrewKept
<1>7. \/ \E pc \in {"verify", "select"} : To(w, pc)
      \/ Fail(w, "REVISION_ARTIFACT_MISSING") \/ Fail(w, "REVISION_INTEGRITY_MISMATCH")
      \/ Throw(w)
  BY DEF Materialize, Verify
<1> QED BY <1>2, <1>4, <1>5, <1>6, <1>7, FailGoes

LEMMA PrepareKept ==
  ASSUME IInv, NEW w \in Workers, Prepare(w)
  PROVE  IInv'
<1> DEFINE P == Profile.commands
<1>1. PICK r \in Revisions :
        /\ handler[w].run = r /\ run[r].status # "ABSENT"
        /\ Stands(handler[w], box[w], P, step[r], Done(r))
  BY Standing DEF Prepare, At
<1>2. /\ handler[w] \in Handlers /\ handler[w].pc = "prepare" /\ ~ Done(r) /\ Shape
      /\ handler[w].pc \notin BeforeTry
  BY <1>1 DEF Prepare, At, Stands, BeforeTry, IInv, Shape
<1>3. /\ box' \in [Workers -> {"none", "up", "reaped"}]
      /\ \A v \in Workers \ {w} : box'[v] = box[v]
  BY <1>2 DEF Prepare, Provisioned, Shape
<1>4. Rest(w, r) /\ ResultOK(r)' /\ Done(r)' = Done(r) /\ step' = step
  BY <1>1, <1>3, HostRest DEF Prepare
<1>5. CASE Throw(w)
  BY <1>1, <1>2, <1>4, <1>5, ThrowThrew, ThrewKept
<1>6. CASE To(w, "enter")
  <2> DEFINE h == [handler[w] EXCEPT !.pc = "enter"]
  <2>1. /\ h.pc = "enter" /\ h.seen = handler[w].seen /\ h.left = handler[w].left
    BY <1>2 DEF Handlers
  <2>2. Goes(w, h)
    BY <1>2, <1>6, ToGoes
  <2> HIDE DEF h
  <2>3. Stands(h, box'[w], P, step'[r], Done(r)')
    <3>1. Left(handler[w], Len(h.seen), P) /\ PassedSoFar(handler[w], Len(h.seen), P, step[r])
      BY <1>1, <1>2, <2>1 DEF Stands, BeforeTry
    <3>2. Left(h, Len(h.seen), P) /\ PassedSoFar(h, Len(h.seen), P, step[r])
      BY <2>1, <3>1 DEF Left, PassedSoFar
    <3> QED BY <1>2, <1>4, <2>1, <3>2 DEF Stands, BeforeTry, WithBox
  <2> QED BY <1>1, <1>4, <2>2, <2>3, GoesKept
<1> QED BY <1>5, <1>6 DEF Prepare, Provisioned

LEMMA CatchKept ==
  ASSUME IInv, NEW w \in Workers, Catch(w)
  PROVE  IInv'
<1>1. PICK r \in Revisions :
        /\ handler[w].run = r /\ run[r].status # "ABSENT"
        /\ Stands(handler[w], box[w], Profile.commands, step[r], Done(r))
  BY Standing DEF Catch, At
<1>2. Shape /\ run[r] \in Rows
  BY DEF IInv, Shape
<1>3. Rest(w, r) /\ ResultOK(r)' /\ box' = box
  <2>1. CASE run' = run
    BY <1>1, <2>1, StillRest DEF Catch, OnlyRun, dbVars, hostVars
  <2>2. CASE run' # run
    <3> DEFINE row == [run[r] EXCEPT !.status = "FAILED", !.outcome = "INFRA_FAILURE",
                                     !.error = "SANDBOX_START_FAILED"]
    <3>1. row \in Rows /\ row.status = "FAILED"
      BY <1>2 DEF Rows, Statuses, Outcomes, Errors
    <3>2. run' = [run EXCEPT ![r] = row]
      BY <1>1, <2>2 DEF Catch, Transition
    <3> HIDE DEF row
    <3> QED BY <3>1, <3>2, RowRest DEF Catch
  <2> QED BY <2>1, <2>2
<1> DEFINE h == [handler[w] EXCEPT !.pc = "cleanup"]
<1>4. h.pc = "cleanup"
  BY <1>2 DEF Shape, Handlers
<1>5. Goes(w, h)
  BY <1>2, ToGoes DEF Catch
<1> HIDE DEF h
<1>6. Stands(h, box'[w], Profile.commands, step'[r], Done(r)')
  BY <1>4 DEF Stands, BeforeTry, WithBox
<1> QED BY <1>1, <1>3, <1>5, <1>6, GoesKept

LEMMA CleanupKept ==
  ASSUME IInv, NEW w \in Workers, Cleanup(w)
  PROVE  IInv'
<1>1. PICK r \in Revisions : handler[w].run = r /\ run[r].status # "ABSENT"
  BY Standing DEF Cleanup, At
<1>2. Shape /\ handler[w].failed \in BOOLEAN
  BY DEF IInv, Shape, Handlers
<1>3. box' = [box EXCEPT ![w] = "none"]
  BY DEF Cleanup, Destroyed
<1>4. /\ box' \in [Workers -> {"none", "up", "reaped"}] /\ box'[w] = "none"
      /\ \A v \in Workers \ {w} : box'[v] = box[v]
  BY <1>2, <1>3 DEF Shape
<1>5. Rest(w, r) /\ ResultOK(r)'
  BY <1>1, <1>4, HostRest DEF Cleanup
<1>6. Ends(w)
  BY <1>1, <1>2, SettleEnds DEF Cleanup
<1> QED BY <1>1, <1>4, <1>5, <1>6, EndsKept

LEMMA CrashKept ==
  ASSUME IInv, NEW w \in Workers, Crash(w)
  PROVE  IInv'
<1>1. handler[w].run # None
  BY DEF IInv, WorkerOK, Crash
<1>2. PICK r \in Revisions : handler[w].run = r /\ run[r].status # "ABSENT"
  BY <1>1, Standing
<1>3. Shape /\ entry[r].state = "active"
  BY <1>1, <1>2 DEF IInv, QueueInv
<1>4. /\ box' \in [Workers -> {"none", "up", "reaped"}] /\ box'[w] = "none"
      /\ \A v \in Workers \ {w} : box'[v] = box[v]
  BY <1>3 DEF Crash, Shape
<1>5. Rest(w, r) /\ ResultOK(r)'
  BY <1>2, <1>4, HostRest DEF Crash
<1>6. Ends(w)
  BY <1>2, <1>3, IdleType DEF Crash, Ends, Shape
<1> QED BY <1>2, <1>4, <1>5, <1>6, EndsKept

\* A step row is written for a run without a result.
LEMMA StepRest ==
  ASSUME IInv, NEW w \in Workers, NEW r \in Revisions, run[r].status # "ABSENT", ~ Done(r),
         NEW rows \in [Steps -> StepStatuses], step' = [step EXCEPT ![r] = rows],
         NEW row \in Rows, row.status \notin {"ABSENT", "COMPLETED", "TIMED_OUT"},
         run' = [run EXCEPT ![r] = row], UNCHANGED evidence, OnlyRun
  PROVE  Rest(w, r) /\ ResultOK(r)' /\ box' = box /\ ~ Done(r)' /\ step'[r] = rows
BY DEF IInv, Shape, Rest, OnlyRun, hostVars, ResultOK, Done

LEMMA SelectKept ==
  ASSUME IInv, NEW w \in Workers, Select(w)
  PROVE  IInv'
<1> DEFINE P == Profile.commands
<1>1. PICK r \in Revisions :
        /\ handler[w].run = r /\ run[r].status # "ABSENT"
        /\ Stands(handler[w], box[w], P, step[r], Done(r))
  BY Standing DEF Select, At
<1>2. /\ handler[w].seen = <<>> /\ box[w] = "none" /\ handler[w] \in Handlers
      /\ ~ Done(r) /\ Shape /\ run[r] \in Rows
  BY <1>1 DEF Select, At, Stands, BeforeTry, WithBox, IInv, Shape
<1>3. CASE Profile.unsupported # "none"
  <2> DEFINE v == Verdict("COMPLETED", "UNSUPPORTED", Profile.unsupported, "none", "none")
             h == [handler[w] EXCEPT !.pc = "finish", !.verdict = v]
             rows == [n \in Steps |-> "SKIPPED"]
  <2>1. v \in Rows /\ v.outcome = "UNSUPPORTED"
    <3>1. Profile.unsupported \in Errors
      BY ProfileShape DEF Errors
    <3>2. "COMPLETED" \in Statuses /\ "UNSUPPORTED" \in Outcomes
      BY DEF Statuses, Outcomes
    <3> QED BY <3>1, <3>2, VerdictType
  <2>2. step' = [step EXCEPT ![r] = rows] /\ Goto(w, h)
    BY <1>1, <1>3 DEF Select
  <2> HIDE DEF v
  <2>3. h \in Handlers /\ h.run = r /\ h.pc = "finish" /\ h.verdict = v
    BY <1>1, <1>2, <2>1 DEF Handlers
  <2> HIDE DEF h
  <2>4. Goes(w, h)
    BY <1>1, <1>2, <2>2, <2>3, GotoGoes
  <2>5. rows \in [Steps -> StepStatuses]
    BY DEF StepStatuses
  <2>6. run' = [run EXCEPT ![r] = run[r]]
    BY <1>2 DEF Select, Shape
  <2> HIDE DEF rows
  <2>7. Rest(w, r) /\ ResultOK(r)' /\ box' = box /\ ~ Done(r)'
    <3>1. UNCHANGED evidence /\ OnlyRun
      BY DEF Select
    <3> QED BY <1>1, <1>2, <2>2, <2>5, <2>6, <3>1, StepRest DEF Done
  <2>8. P = <<>>
    BY <1>3, ProfileShape
  <2>9. Stands(h, box'[w], P, step'[r], Done(r)')
    BY <1>2, <2>1, <2>3, <2>7, <2>8 DEF Stands, BeforeTry, Agrees
  <2> QED BY <1>1, <2>4, <2>7, <2>9, GoesKept
<1>4. CASE Profile.unsupported = "none"
  <2> DEFINE h == [handler[w] EXCEPT !.pc = "prepare", !.left = P]
  <2>1. UNCHANGED <<dbVars, box, client, evidence>> /\ Goto(w, h)
    BY <1>4 DEF Select, OnlyRun, dbVars, hostVars
  <2>2. P \in Seq(Commands) /\ P # <<>>
    BY <1>4, ProfileShape
  <2>3. h \in Handlers /\ h.run = r /\ h.pc = "prepare" /\ h.left = P /\ h.seen = <<>>
    BY <1>1, <1>2, <2>2 DEF Handlers
  <2> HIDE DEF h
  <2>4. Goes(w, h)
    BY <1>1, <1>2, <2>1, <2>3, GotoGoes
  <2>5. Rest(w, r) /\ ResultOK(r)' /\ Done(r)' = Done(r)
    BY <1>1, <2>1, StillRest DEF Done, dbVars
  <2>6. Left(h, 0, P) /\ PassedSoFar(h, 0, P, step'[r])
    BY <2>2, <2>3 DEF Left, PassedSoFar
  <2>7. Stands(h, box'[w], P, step'[r], Done(r)')
    BY <1>2, <2>1, <2>3, <2>5, <2>6 DEF Stands, BeforeTry
  <2> QED BY <1>1, <2>4, <2>5, <2>7, GoesKept
<1> QED BY <1>3, <1>4

-----------------------------------------------------------------------------
(* The commands                                                            *)

\* The command at hand is the one after the first k.
LEMMA HeadOfLeft ==
  ASSUME NEW h \in Handlers, NEW k \in Nat, Left(h, k, Profile.commands)
  PROVE  LET P == Profile.commands IN
         /\ k + 1 \in 1 .. Len(P) /\ Head(h.left) = P[k + 1]
         /\ Head(h.left) \in Commands /\ Head(h.left).step \in Steps
         /\ h.left \in Seq(Commands) /\ Tail(h.left) \in Seq(Commands)
         /\ Len(P) \in Nat
         /\ \A i \in 1 .. Len(Tail(h.left)) : Tail(h.left)[i] = P[k + 1 + i]
         /\ Len(Tail(h.left)) = Len(P) - (k + 1)
<1> DEFINE P == Profile.commands
<1>1. P \in Seq(Commands) /\ h.left \in Seq(Commands) /\ h.left # <<>>
  BY ProfileShape DEF Handlers, Left
<1>2. Len(h.left) > 0 /\ Len(P) \in Nat /\ Head(h.left) = h.left[1]
  BY <1>1
<1>3. Head(h.left) = P[k + 1] /\ k + 1 \in 1 .. Len(P)
  BY <1>1, <1>2 DEF Left
<1>4. Head(h.left) \in Commands
  BY <1>1, <1>2
<1>5. /\ Tail(h.left) \in Seq(Commands) /\ Len(Tail(h.left)) = Len(h.left) - 1
      /\ \A i \in 1 .. Len(Tail(h.left)) : Tail(h.left)[i] = h.left[i + 1]
  BY <1>1, <1>2
<1>6. \A i \in 1 .. Len(Tail(h.left)) : Tail(h.left)[i] = P[k + 1 + i]
  BY <1>1, <1>2, <1>5 DEF Left
<1> QED BY <1>1, <1>2, <1>3, <1>4, <1>5, <1>6 DEF Left, Commands

LEMMA statusForStepType ==
  ASSUME NEW n \in Steps
  PROVE  statusForStep(n) \in {"INSTALLING", "BUILDING", "TESTING"}
<1>1. CASE n = "INSTALL"
  <2>1. statusForStep(n) = "INSTALLING"
    BY <1>1 DEF statusForStep
  <2> QED BY <2>1
<1>2. CASE n = "BUILD"
  <2>1. statusForStep(n) = "BUILDING"
    BY <1>2 DEF statusForStep
  <2> QED BY <2>1
<1>3. CASE n = "TEST"
  <2>1. statusForStep(n) = "TESTING"
    BY <1>3 DEF statusForStep
  <2> QED BY <2>1
<1> QED BY <1>1, <1>2, <1>3 DEF Steps

LEMMA EnterKept ==
  ASSUME IInv, NEW w \in Workers, Enter(w)
  PROVE  IInv'
<1> DEFINE P == Profile.commands
           k == Len(handler[w].seen)
           name == Head(handler[w].left).step
           next == statusForStep(name)
<1>1. PICK r \in Revisions :
        /\ handler[w].run = r /\ run[r].status # "ABSENT"
        /\ Stands(handler[w], box[w], P, step[r], Done(r))
  BY Standing DEF Enter, At
<1>2. /\ handler[w] \in Handlers /\ handler[w].pc = "enter" /\ ~ Done(r) /\ Shape
      /\ handler[w].pc \notin BeforeTry /\ run[r] \in Rows /\ k \in Nat
      /\ Left(handler[w], k, P) /\ PassedSoFar(handler[w], k, P, step[r])
  <2>1. handler[w].pc = "enter" /\ Shape /\ run[r] \in Rows /\ handler[w] \in Handlers
    BY DEF Enter, At, IInv, Shape
  <2>2. k \in Nat
    BY <2>1 DEF Handlers
  <2> QED BY <1>1, <2>1, <2>2 DEF Stands, BeforeTry
<1>3. name \in Steps /\ name = P[k + 1].step /\ k + 1 \in 1 .. Len(P) /\ Len(P) \in Nat
  BY <1>2, HeadOfLeft
<1>4. next \in {"INSTALLING", "BUILDING", "TESTING"}
  BY <1>3, statusForStepType
<1> DEFINE h == [handler[w] EXCEPT !.pc = "execute", !.current = next]
           rows == [step[r] EXCEPT ![name] = "RUNNING"]
<1>5. PICK row \in Rows : /\ run' = [run EXCEPT ![r] = row]
                          /\ row.status \notin {"ABSENT", "COMPLETED", "TIMED_OUT"}
  <2>1. run' = run \/ run' = [run EXCEPT ![r] = [run[r] EXCEPT !.status = next]]
    BY <1>1 DEF Enter, Transition
  <2>2. run = [run EXCEPT ![r] = run[r]]
    BY <1>2 DEF Shape
  <2>3. run[r].status \notin {"ABSENT", "COMPLETED", "TIMED_OUT"}
    BY <1>1, <1>2 DEF Done
  <2> HIDE DEF next
  <2>4. [run[r] EXCEPT !.status = next] \in Rows /\ [run[r] EXCEPT !.status = next].status = next
    BY <1>2, <1>4 DEF Rows, Statuses
  <2> QED BY <1>2, <1>4, <2>1, <2>2, <2>3, <2>4
<1>6. /\ step' = [step EXCEPT ![r] = rows] /\ Written(w, h)
      /\ UNCHANGED evidence /\ OnlyRun
  BY <1>1, <1>2 DEF Enter, updateStep, Shape
<1> HIDE DEF next, name
<1>7. /\ rows \in [Steps -> StepStatuses] /\ \A n \in Steps \ {name} : rows[n] = step[r][n]
  BY <1>2, <1>3 DEF Shape, StepStatuses
<1>8. /\ h \in Handlers /\ h.run = r /\ h.pc = "execute" /\ h.left = handler[w].left
      /\ h.seen = handler[w].seen
  BY <1>1, <1>2, <1>4 DEF Handlers, Statuses
<1> HIDE DEF h, rows
<1>9. Rest(w, r) /\ ResultOK(r)' /\ box' = box /\ ~ Done(r)' /\ step'[r] = rows
  BY <1>1, <1>2, <1>5, <1>6, <1>7, StepRest
<1>10. Goes(w, h) \/ Threw(w)
  BY <1>1, <1>2, <1>6, <1>8, WrittenGoes
<1>11. Left(h, k, P) /\ PassedSoFar(h, k, P, rows)
  <2>1. ASSUME NEW i \in 1 .. k
        PROVE  P[i].step \in Steps \ {name}
    <3>1. i \in 1 .. Len(P) /\ i # k + 1
      BY <1>2, <1>3
    <3>2. P[i] \in Commands
      BY <3>1, ProfileShape
    <3> QED BY <1>3, <3>1, <3>2, ProfileShape DEF Commands
  <2> QED BY <1>2, <1>7, <1>8, <2>1 DEF Left, PassedSoFar
<1>12. Stands(h, box'[w], P, step'[r], Done(r)')
  BY <1>8, <1>9, <1>11 DEF Stands, BeforeTry, WithBox
<1> QED BY <1>1, <1>2, <1>9, <1>10, <1>12, GoesKept, ThrewKept

LEMMA ExecuteKept ==
  ASSUME IInv, NEW w \in Workers, Execute(w)
  PROVE  IInv'
<1> DEFINE P == Profile.commands
           k == Len(handler[w].seen)
           name == Head(handler[w].left).step
<1>1. PICK r \in Revisions :
        /\ handler[w].run = r /\ run[r].status # "ABSENT"
        /\ Stands(handler[w], box[w], P, step[r], Done(r))
  BY Standing DEF Execute, At
<1>2. /\ handler[w] \in Handlers /\ ~ Done(r) /\ Shape /\ k \in Nat
      /\ handler[w].seen \in Seq(Seen)
      /\ Left(handler[w], k, P) /\ PassedSoFar(handler[w], k, P, step[r])
  <2>1. handler[w].pc = "execute" /\ Shape /\ handler[w] \in Handlers
    BY DEF Execute, At, IInv, Shape
  <2>2. k \in Nat /\ handler[w].seen \in Seq(Seen)
    BY <2>1 DEF Handlers
  <2> QED BY <1>1, <2>1, <2>2 DEF Stands, BeforeTry
<1>3. name \in Steps /\ name = P[k + 1].step
  BY <1>2, HeadOfLeft
<1>4. PICK result \in Results :
        Goto(w, [handler[w] EXCEPT
                   !.pc = "record",
                   !.seen = Append(handler[w].seen, [step |-> name, result |-> result])])
  BY DEF Execute, execute, Results, Failures
<1> DEFINE e == [step |-> name, result |-> result]
           s == Append(handler[w].seen, e)
           h == [handler[w] EXCEPT !.pc = "record", !.seen = s]
<1>5. e \in Seen /\ e.step = P[k + 1].step
  BY <1>3 DEF Seen
<1> HIDE DEF e
<1>6. /\ s \in Seq(Seen) /\ Len(s) = k + 1 /\ s[k + 1] = e
      /\ \A i \in 1 .. k : s[i] = handler[w].seen[i]
  BY <1>2, <1>5
<1>7. Goto(w, h)
  BY <1>4 DEF e
<1> HIDE DEF s
<1>8. /\ h \in Handlers /\ h.run = r /\ h.pc = "record" /\ h.seen = s
      /\ h.left = handler[w].left
  BY <1>1, <1>2, <1>6 DEF Handlers
<1> HIDE DEF h
<1>9. Goes(w, h)
  BY <1>1, <1>2, <1>7, <1>8, GotoGoes
<1>10. Rest(w, r) /\ ResultOK(r)' /\ Done(r)' = Done(r) /\ box' = box /\ step' = step
  BY <1>1, StillRest DEF Execute, OnlyHandler, hostVars, dbVars, Done
<1>11. Left(h, k, P) /\ PassedSoFar(h, k, P, step[r])
  BY <1>2, <1>6, <1>8 DEF Left, PassedSoFar
<1>12. Len(h.seen) = k + 1 /\ Len(h.seen) - 1 = k /\ h.seen[k + 1].step = P[k + 1].step
  BY <1>2, <1>5, <1>6, <1>8
<1>13. Stands(h, box'[w], P, step'[r], Done(r)')
  BY <1>2, <1>8, <1>10, <1>11, <1>12 DEF Stands, BeforeTry, WithBox
<1> QED BY <1>1, <1>9, <1>10, <1>13, GoesKept

LEMMA FinishKept ==
  ASSUME IInv, NEW w \in Workers, Finish(w)
  PROVE  IInv'
<1> DEFINE P == Profile.commands
<1>1. PICK r \in Revisions :
        /\ handler[w].run = r /\ run[r].status # "ABSENT"
        /\ Stands(handler[w], box[w], P, step[r], Done(r))
  BY Standing DEF Finish, At
<1>2. /\ handler[w].pc = "finish" /\ Shape /\ handler[w] \in Handlers /\ run[r] \in Rows
      /\ handler[w].pc \notin BeforeTry
  BY DEF Finish, At, IInv, Shape, BeforeTry
<1>3. Agrees(handler[w].verdict, handler[w].seen, P, step[r])
  BY <1>1, <1>2 DEF Stands
<1> DEFINE row == [handler[w].verdict EXCEPT !.counted = run[r].counted]
           h == [handler[w] EXCEPT !.pc = "cleanup"]
<1>4. /\ run' = [run EXCEPT ![r] = row] /\ evidence' = [evidence EXCEPT ![r] = handler[w].seen]
      /\ Written(w, h) /\ UNCHANGED step /\ OnlyRun
      /\ row.status \in ALLOWED_VALIDATION_TRANSITIONS[handler[w].current]
  BY <1>1 DEF Finish, Transition
<1>5. /\ row \in Rows /\ row.status = handler[w].verdict.status
      /\ row.outcome = handler[w].verdict.outcome /\ row.error = handler[w].verdict.error
      /\ row.build = handler[w].verdict.build /\ row.test = handler[w].verdict.test
  BY <1>2 DEF Handlers, Rows
<1>6. h \in Handlers /\ h.run = r /\ h.pc = "cleanup"
  BY <1>1, <1>2 DEF Handlers
<1> HIDE DEF row, h
<1>7. row.status # "ABSENT"
  <2>1. handler[w].current \in Statuses
    BY <1>2 DEF Handlers
  <2> QED BY <1>4, <2>1, AllowedType
<1>8. handler[w].seen \in Seq(Seen)
  BY <1>2 DEF Handlers
<1>9. /\ run'[r] = row /\ evidence'[r] = handler[w].seen /\ step' = step /\ box' = box
      /\ Rest(w, r)
  BY <1>2, <1>4, <1>5, <1>7, <1>8 DEF Shape, Rest, OnlyRun, hostVars
<1>10. ResultOK(r)'
  <2>1. Profile' = Profile
    BY <1>9, ProfileKept DEF Rest
  <2>2. Agrees(row, handler[w].seen, P, step[r])
    BY <1>3, <1>5 DEF Agrees
  <2>3. Agrees(run'[r], evidence'[r], Profile'.commands, step'[r])
    BY <1>9, <2>1, <2>2
  <2> QED BY <2>3 DEF ResultOK
<1>11. Goes(w, h) \/ Threw(w)
  BY <1>1, <1>2, <1>4, <1>6, WrittenGoes
<1>12. Stands(h, box'[w], P, step'[r], Done(r)')
  BY <1>6 DEF Stands, BeforeTry, WithBox
<1> QED BY <1>1, <1>2, <1>6, <1>9, <1>10, <1>11, <1>12, GoesKept, ThrewKept

-----------------------------------------------------------------------------
(* What a command comes to                                                 *)

LEMMA StatusOfResult ==
  ASSUME NEW result \in Results
  PROVE  /\ StatusOf(result) \in StepStatuses
         /\ result = "pass" => StatusOf(result) = "PASSED"
         /\ result \in Failures => StatusOf(result) = "FAILED"
<1>1. CASE result = "pass"
  <2>1. StatusOf(result) = "PASSED"
    BY <1>1 DEF StatusOf, Failures
  <2> QED BY <1>1, <2>1 DEF StepStatuses, Failures
<1>2. CASE result = "timeout"
  <2>1. StatusOf(result) = "TIMED_OUT"
    BY <1>2 DEF StatusOf, Failures
  <2> QED BY <1>2, <2>1 DEF StepStatuses, Failures
<1>3. CASE result \in Failures
  <2>1. StatusOf(result) = "FAILED"
    BY <1>3 DEF StatusOf, Failures
  <2> QED BY <1>3, <2>1 DEF StepStatuses, Failures
<1> QED BY <1>1, <1>2, <1>3 DEF Results

\* What was seen of the first commands decides the rows of all of them.
LEMMA RowOfSeen ==
  ASSUME NEW seen \in Seq(Seen),
         Len(seen) \in 1 .. Len(Profile.commands),
         \A j \in 1 .. Len(seen) : seen[j].step = Profile.commands[j].step,
         NEW i \in 1 .. Len(Profile.commands)
  PROVE  RowOf(seen, Profile.commands[i].step) =
           IF i > Len(seen) THEN "SKIPPED"
           ELSE IF seen[i].result = "pass" THEN "PASSED" ELSE "FAILED"
<1> DEFINE P == Profile.commands
           n == P[i].step
           these == {j \in DOMAIN seen : seen[j].step = n}
           results == {seen[j].result : j \in these}
<1>1. \A j \in 1 .. Len(P) : P[j].step = n => j = i
  BY ProfileShape
<1>2. Len(seen) \in Nat /\ DOMAIN seen = 1 .. Len(seen) /\ Len(P) \in Nat
  BY ProfileShape
<1>3. \A j \in DOMAIN seen : seen[j].step = n => j = i
  BY <1>1, <1>2
<1>4. i <= Len(seen) => i \in DOMAIN seen /\ seen[i].step = n
  BY <1>2
<1> HIDE DEF n
<1>5. CASE i > Len(seen)
  <2>1. these = {}
    BY <1>2, <1>3, <1>5
  <2>2. results = {}
    BY <2>1
  <2>3. RowOf(seen, n) = "SKIPPED"
    BY <2>2 DEF RowOf
  <2> QED BY <1>5, <2>3 DEF n
<1>6. CASE i <= Len(seen)
  <2>1. these = {i}
    BY <1>2, <1>3, <1>4, <1>6
  <2>2. results = {seen[i].result}
    BY <2>1
  <2>3. CASE seen[i].result = "pass"
    <3>1. RowOf(seen, n) = "PASSED"
      BY <2>2, <2>3 DEF RowOf
    <3> QED BY <1>2, <1>6, <2>3, <3>1 DEF n
  <2>4. CASE seen[i].result # "pass"
    <3>1. results # {} /\ results # {"pass"}
      BY <2>2, <2>4
    <3>2. RowOf(seen, n) = "FAILED"
      BY <3>1 DEF RowOf
    <3> QED BY <1>2, <1>6, <2>4, <3>2 DEF n
  <2> QED BY <2>3, <2>4
<1> QED BY <1>2, <1>5, <1>6

\* The rows that a result of the command k leaves: its own, those before it as
\* they were, and those after it skipped if it failed.
Tells(r, k, result, rows) ==
  LET P == Profile.commands
  IN  /\ rows \in [Steps -> StepStatuses]
      /\ rows[P[k].step] = StatusOf(result)
      /\ \A i \in 1 .. (k - 1) : rows[P[i].step] = step[r][P[i].step]
      /\ result \in Failures => \A i \in (k + 1) .. Len(P) : rows[P[i].step] = "SKIPPED"

\* A command's result leaves such rows.
LEMMA RecordedRows ==
  ASSUME Shape, NEW r \in Revisions, NEW k \in 1 .. Len(Profile.commands), NEW command, NEW rest,
         command = Profile.commands[k], rest \in Seq(Commands),
         Len(rest) = Len(Profile.commands) - k,
         \A i \in 1 .. Len(rest) : rest[i] = Profile.commands[k + i],
         NEW result \in Results
  PROVE  Tells(r, k, result, Recorded(r, command, result, rest))
<1> DEFINE P == Profile.commands
           later == {rest[i].step : i \in DOMAIN rest}
           skipped == IF result \in Failures THEN later
                      ELSE IF result = "pass" /\ rest = <<>> THEN {"INSTALL"} \ Planned ELSE {}
           rows == Recorded(r, command, result, rest)
<1>1. /\ Len(P) \in Nat /\ k \in Nat /\ DOMAIN rest = 1 .. Len(rest)
      /\ \A i \in 1 .. Len(P) : P[i] \in Commands /\ P[i].step \in Steps /\ P[i].step \in Planned
  <2>1. P \in Seq(Commands) /\ Planned = {P[i].step : i \in 1 .. Len(P)}
    BY ProfileShape
  <2>2. Len(P) \in Nat /\ \A i \in 1 .. Len(P) : P[i] \in Commands
    BY <2>1
  <2>3. DOMAIN rest = 1 .. Len(rest) /\ k \in Nat
    BY <2>2
  <2> QED BY <2>1, <2>2, <2>3 DEF Commands
<1>2. later = {P[i].step : i \in (k + 1) .. Len(P)}
  <2>1. \A i \in 1 .. Len(rest) : k + i \in (k + 1) .. Len(P) /\ rest[i].step = P[k + i].step
    BY <1>1
  <2>2. \A i \in (k + 1) .. Len(P) : i - k \in 1 .. Len(rest) /\ rest[i - k].step = P[i].step
    BY <1>1
  <2>3. later = {rest[i].step : i \in 1 .. Len(rest)}
    BY <1>1
  <2> HIDE DEF later
  <2>4. ASSUME NEW n \in later
        PROVE  \E j \in (k + 1) .. Len(P) : n = P[j].step
    <3>1. PICK i \in 1 .. Len(rest) : n = rest[i].step
      BY <2>3
    <3> QED BY <2>1, <3>1
  <2>5. ASSUME NEW j \in (k + 1) .. Len(P)
        PROVE  P[j].step \in later
    BY <2>2, <2>3
  <2> QED BY <2>4, <2>5
<1>3. rows = [n \in Steps |-> IF n = command.step THEN StatusOf(result)
                              ELSE IF n \in skipped THEN "SKIPPED" ELSE step[r][n]]
  BY DEF Recorded
<1> HIDE DEF later, skipped, rows
<1>4. rows \in [Steps -> StepStatuses]
  <2>1. step[r] \in [Steps -> StepStatuses] /\ "SKIPPED" \in StepStatuses
    BY DEF Shape, StepStatuses
  <2> QED BY <1>3, <2>1, StatusOfResult
<1>5. rows[P[k].step] = StatusOf(result)
  BY <1>1, <1>3
<1>6. ASSUME NEW i \in 1 .. (k - 1)
      PROVE  rows[P[i].step] = step[r][P[i].step]
  <2>1. i \in 1 .. Len(P) /\ P[i].step \in Steps /\ P[i].step \in Planned
    BY <1>1
  <2>2. P[i].step # P[k].step /\ P[i].step \notin later
    <3>1. \A j \in 1 .. Len(P) : j # i => P[j].step # P[i].step
      BY <2>1, ProfileShape
    <3>2. \A j \in k .. Len(P) : j \in 1 .. Len(P) /\ j # i
      BY <1>1
    <3>3. k \in k .. Len(P) /\ \A j \in (k + 1) .. Len(P) : j \in k .. Len(P)
      BY <1>1
    <3> QED BY <1>2, <3>1, <3>2, <3>3
  <2>3. P[i].step \notin skipped
    BY <2>1, <2>2 DEF skipped
  <2> QED BY <1>3, <2>1, <2>2, <2>3
<1>7. ASSUME result \in Failures, NEW i \in (k + 1) .. Len(P)
      PROVE  rows[P[i].step] = "SKIPPED"
  <2>1. i \in 1 .. Len(P) /\ P[i].step \in Steps /\ i # k
    BY <1>1
  <2>2. P[i].step # P[k].step
    BY <2>1, ProfileShape
  <2>3. P[i].step \in skipped
    BY <1>2, <1>7 DEF skipped
  <2> QED BY <1>3, <2>1, <2>2, <2>3
<1>8. Tells(r, k, result, rows)
  BY <1>4, <1>5, <1>6, <1>7 DEF Tells
<1> QED BY <1>8 DEF rows

LEMMA CommandVerdictType ==
  ASSUME NEW command \in Commands, NEW result \in Results \ {"pass"}
  PROVE  LET v == CommandVerdict(command, result) IN
         /\ v \in Rows /\ v.outcome # "PASSED"
         /\ result = "timeout" => v.status = "TIMED_OUT"
<1> DEFINE lifecycle == detectWorkspace(repo).hasLifecycleScripts
           code == classifyCommandFailure(command.step, lifecycle, command.tool)
<1> HIDE DEF lifecycle
<1>1. code \in Errors
  <2>1. CASE command.step = "INSTALL"
    <3>1. code = IF command.tool = "git" THEN "DEPENDENCY_RESOLUTION_FAILED" ELSE "INSTALL_FAILED"
      BY <2>1 DEF classifyCommandFailure
    <3> QED BY <3>1 DEF Errors, Codes
  <2>2. CASE command.step = "BUILD"
    <3>1. code = IF lifecycle THEN "INSTALL_SCRIPTS_REQUIRED" ELSE "BUILD_FAILED"
      BY <2>2 DEF classifyCommandFailure
    <3> QED BY <3>1 DEF Errors
  <2>3. CASE command.step = "TEST"
    <3>1. code = "TEST_FAILED"
      BY <2>3 DEF classifyCommandFailure
    <3> QED BY <3>1 DEF Errors
  <2> QED BY <2>1, <2>2, <2>3 DEF Commands, Steps
<1>2. FailureOutcome(code) \in {"UNSUPPORTED", "FAILED"}
  BY DEF FailureOutcome
<1> DEFINE build == IF command.step = "INSTALL" THEN "none" ELSE "FAILED"
           test  == IF command.step = "TEST" THEN "FAILED" ELSE "none"
<1>3. CommandVerdict(command, result) =
        IF result = "timeout"
        THEN Verdict("TIMED_OUT", "FAILED", "EXECUTION_TIMEOUT", "none", "none")
        ELSE Verdict("COMPLETED", FailureOutcome(code), code, build, test)
  BY DEF CommandVerdict, lifecycle
<1>4. build \in {"none", "FAILED"} /\ test \in {"none", "FAILED"}
  OBVIOUS
<1>5. /\ "TIMED_OUT" \in Statuses /\ "COMPLETED" \in Statuses /\ "EXECUTION_TIMEOUT" \in Errors
      /\ "FAILED" \in Outcomes /\ FailureOutcome(code) \in Outcomes
  BY <1>2 DEF Statuses, Outcomes, Errors
<1> HIDE DEF code, build, test
<1>6. LET v == Verdict("TIMED_OUT", "FAILED", "EXECUTION_TIMEOUT", "none", "none") IN
      v \in Rows /\ v.outcome = "FAILED" /\ v.status = "TIMED_OUT"
  BY <1>5, VerdictType
<1>7. LET v == Verdict("COMPLETED", FailureOutcome(code), code, build, test) IN
      v \in Rows /\ v.outcome = FailureOutcome(code)
  BY <1>1, <1>4, <1>5, VerdictType
<1> QED BY <1>2, <1>3, <1>6, <1>7

LEMMA PassedType ==
  ASSUME Profile.unsupported = "none"
  PROVE  /\ Passed \in Rows /\ Passed.error = "none"
         /\ Passed.build = "PASSED" /\ Passed.test = "PASSED"
<1>1. Passed = Verdict("COMPLETED", "PASSED", "none", "PASSED", "PASSED")
  BY ProfileShape DEF Passed
<1>2. "COMPLETED" \in Statuses /\ "PASSED" \in Outcomes /\ "none" \in Errors
  BY DEF Statuses, Outcomes, Errors
<1> QED BY <1>1, <1>2, VerdictType

\* What a handler saw that has gone through the first k commands, the last of
\* which had this result, and the rows it writes.
Saw(seen, k, result, P, rows) ==
  /\ seen \in Seq(Seen)
  /\ k \in 1 .. Len(P) /\ Len(seen) = k /\ seen[k].result = result
  /\ \A j \in 1 .. k : seen[j].step = P[j].step
  /\ \A j \in 1 .. (k - 1) : seen[j].result = "pass" /\ rows[P[j].step] = "PASSED"
  /\ rows[P[k].step] = StatusOf(result)
  /\ result \in Failures => \A i \in (k + 1) .. Len(P) : rows[P[i].step] = "SKIPPED"

Remain(rest, k, P) ==
  /\ rest \in Seq(Commands) /\ Len(rest) = Len(P) - k
  /\ \A i \in 1 .. Len(rest) : rest[i] = P[k + i]

LEMMA SawPass ==
  ASSUME NEW seen, NEW k, NEW rows, Saw(seen, k, "pass", Profile.commands, rows)
  PROVE  \A i \in 1 .. k : /\ seen[i] = [step |-> Profile.commands[i].step, result |-> "pass"]
                           /\ rows[Profile.commands[i].step] = "PASSED"
<1> DEFINE P == Profile.commands
<1> TAKE i \in 1 .. k
<1>0. k \in Nat /\ Len(seen) = k /\ seen \in Seq(Seen)
  BY ProfileShape DEF Saw
<1>1. seen[i] \in Seen /\ seen[i].step = P[i].step
  <2>1. seen[i] \in Seen
    BY <1>0
  <2>2. seen[i].step = P[i].step
    BY DEF Saw
  <2> QED BY <2>1, <2>2
<1>2. seen[i].result = "pass" /\ rows[P[i].step] = "PASSED"
  <2>1. CASE i = k
    BY <2>1, StatusOfResult DEF Saw, Results
  <2>2. CASE i # k
    <3>1. i \in 1 .. (k - 1)
      BY <2>2 DEF Saw
    <3> QED BY <3>1 DEF Saw
  <2> QED BY <2>1, <2>2
<1> QED BY <1>1, <1>2 DEF Seen

LEMMA SawRows ==
  ASSUME NEW seen, NEW k, NEW rows, NEW result \in Results,
         Saw(seen, k, result, Profile.commands, rows),
         result \in Failures \/ (result = "pass" /\ k = Len(Profile.commands))
  PROVE  \A i \in 1 .. Len(Profile.commands) :
           rows[Profile.commands[i].step] = RowOf(seen, Profile.commands[i].step)
<1> DEFINE P == Profile.commands
<1>1. k \in Nat /\ Len(P) \in Nat
  BY ProfileShape DEF Saw
<1> TAKE i \in 1 .. Len(P)
<1>2. RowOf(seen, P[i].step) =
        IF i > k THEN "SKIPPED" ELSE IF seen[i].result = "pass" THEN "PASSED" ELSE "FAILED"
  BY RowOfSeen DEF Saw
<1>3. CASE i \in 1 .. (k - 1)
  BY <1>1, <1>2, <1>3 DEF Saw
<1>4. CASE i = k
  <2>1. rows[P[k].step] = StatusOf(result) /\ seen[k].result = result
    BY DEF Saw
  <2>2. result \in Failures => result # "pass"
    BY DEF Failures
  <2> QED BY <1>1, <1>2, <1>4, <2>1, <2>2, StatusOfResult
<1>5. CASE i \in (k + 1) .. Len(P)
  <2>1. result \in Failures
    BY <1>1, <1>5
  <2> QED BY <1>1, <1>2, <1>5, <2>1 DEF Saw
<1> QED BY <1>1, <1>3, <1>4, <1>5

\* How the handler goes on from there.
LEMMA NextStands ==
  ASSUME NEW w \in Workers, NEW k, NEW result \in Results, NEW rows, NEW b,
         handler[w] \in Handlers,
         Saw(handler[w].seen, k, result, Profile.commands, rows),
         Remain(Tail(handler[w].left), k, Profile.commands)
  PROVE  LET h == NextAfter(w, Profile.commands[k], result) IN
         /\ h \in Handlers /\ h.run = handler[w].run /\ h.pc # "idle"
         /\ Stands(h, b, Profile.commands, rows, FALSE)
<1> DEFINE P == Profile.commands
           h == NextAfter(w, P[k], result)
<1>0. PICK seen, rest : seen = handler[w].seen /\ rest = Tail(handler[w].left)
  OBVIOUS
<1>1. /\ P \in Seq(Commands) /\ Len(P) \in Nat /\ k \in 1 .. Len(P) /\ k \in Nat /\ P # <<>>
      /\ P[k] \in Commands
  <2>1. P \in Seq(Commands) /\ k \in 1 .. Len(P)
    BY ProfileShape DEF Saw
  <2> QED BY <2>1
<1>2. Profile.unsupported = "none"
  BY <1>1, ProfileShape
<1>3. Saw(seen, k, result, P, rows) /\ Remain(rest, k, P) /\ Len(seen) = k
  BY <1>0 DEF Saw
<1>4. CASE result # "pass"
  <2> DEFINE v == CommandVerdict(P[k], result)
  <2>1. /\ v \in Rows /\ v.outcome # "PASSED" /\ (result = "timeout" => v.status = "TIMED_OUT")
    BY <1>1, <1>4, CommandVerdictType
  <2> HIDE DEF v
  <2>2. h = [handler[w] EXCEPT !.pc = "finish", !.verdict = v]
    BY <1>4 DEF NextAfter, v
  <2>3. /\ h \in Handlers /\ h.run = handler[w].run /\ h.pc = "finish" /\ h.verdict = v
        /\ h.seen = seen
    BY <1>0, <2>1, <2>2 DEF Handlers
  <2> HIDE DEF h
  <2>4. v.status = "COMPLETED" => \A i \in 1 .. Len(P) : rows[P[i].step] = RowOf(seen, P[i].step)
    <3>1. v.status = "COMPLETED" => result \in Failures
      BY <1>4, <2>1 DEF Results
    <3> QED BY <1>3, <3>1, SawRows
  <2>5. Agrees(v, seen, P, rows)
    BY <2>1, <2>4 DEF Agrees
  <2>6. Stands(h, b, P, rows, FALSE)
    BY <2>3, <2>5 DEF Stands, BeforeTry, WithBox
  <2> QED BY <2>3, <2>6 DEF h
<1>5. CASE result = "pass" /\ rest # <<>>
  <2>1. h = [handler[w] EXCEPT !.pc = "enter", !.left = rest]
    BY <1>0, <1>5 DEF NextAfter
  <2>2. rest \in Seq(Commands)
    BY <1>3 DEF Remain
  <2>3. /\ h \in Handlers /\ h.run = handler[w].run /\ h.pc = "enter" /\ h.left = rest
        /\ h.seen = seen
    BY <1>0, <2>1, <2>2 DEF Handlers
  <2> HIDE DEF h
  <2>4. Left(h, k, P)
    BY <1>1, <1>3, <1>5, <2>3 DEF Left, Remain
  <2>5. PassedSoFar(h, k, P, rows)
    <3>1. \A i \in 1 .. k : /\ seen[i] = [step |-> P[i].step, result |-> "pass"]
                            /\ rows[P[i].step] = "PASSED"
      <4>1. Saw(seen, k, "pass", P, rows)
        BY <1>3, <1>5
      <4> QED BY <4>1, SawPass
    <3> QED BY <2>3, <3>1 DEF PassedSoFar
  <2>6. Stands(h, b, P, rows, FALSE)
    BY <1>3, <2>3, <2>4, <2>5 DEF Stands, BeforeTry, WithBox
  <2> QED BY <2>3, <2>6 DEF h
<1>6. CASE result = "pass" /\ rest = <<>>
  <2>1. h = [handler[w] EXCEPT !.pc = "finish", !.verdict = Passed]
    BY <1>0, <1>6 DEF NextAfter
  <2>2. /\ h \in Handlers /\ h.run = handler[w].run /\ h.pc = "finish" /\ h.verdict = Passed
        /\ h.seen = seen
    BY <1>0, <1>2, <2>1, PassedType DEF Handlers
  <2> HIDE DEF h
  <2>3. Len(P) = k
    BY <1>1, <1>3, <1>6 DEF Remain
  <2>4. Agrees(Passed, seen, P, rows)
    <3>1. \A i \in 1 .. Len(P) : rows[P[i].step] = RowOf(seen, P[i].step)
      BY <1>3, <1>6, <2>3, SawRows
    <3>2. \A i \in 1 .. Len(seen) : seen[i] = [step |-> P[i].step, result |-> "pass"]
      BY <1>3, <1>6, SawPass
    <3> QED BY <1>2, <1>3, <2>3, <3>1, <3>2, PassedType DEF Agrees
  <2>5. Stands(h, b, P, rows, FALSE)
    BY <2>2, <2>4 DEF Stands, BeforeTry, WithBox
  <2> QED BY <2>2, <2>5 DEF h
<1> QED BY <1>4, <1>5, <1>6

LEMMA RecordKept ==
  ASSUME IInv, NEW w \in Workers, Record(w)
  PROVE  IInv'
<1> DEFINE P == Profile.commands
           seen == handler[w].seen
           k == Len(seen)
           rest == Tail(handler[w].left)
           result == seen[k].result
           command == Head(handler[w].left)
           rows(r) == Recorded(r, command, result, rest)
           h == NextAfter(w, command, result)
<1>1. PICK r \in Revisions :
        /\ handler[w].run = r /\ run[r].status # "ABSENT"
        /\ Stands(handler[w], box[w], P, step[r], Done(r))
  BY Standing DEF Record, At
<1>2. /\ handler[w].pc = "record" /\ Shape /\ handler[w] \in Handlers /\ run[r] \in Rows
      /\ handler[w].pc \notin BeforeTry
      /\ k \in Nat /\ seen \in Seq(Seen)
  <2>1. handler[w].pc = "record" /\ Shape /\ handler[w] \in Handlers /\ run[r] \in Rows
    BY DEF Record, At, IInv, Shape
  <2> QED BY <2>1 DEF Handlers, BeforeTry
<1>3. /\ ~ Done(r) /\ k > 0 /\ seen[k].step = P[k].step
      /\ Left(handler[w], k - 1, P) /\ PassedSoFar(handler[w], k - 1, P, step[r])
  BY <1>1, <1>2 DEF Stands
<1>4. k - 1 \in Nat /\ (k - 1) + 1 = k
  BY <1>2, <1>3
<1>5. k \in 1 .. Len(P) /\ command = P[k] /\ Remain(rest, k, P)
  <2>1. PICK m \in Nat : m = k - 1 /\ m + 1 = k
    BY <1>4
  <2>2. Left(handler[w], m, P)
    BY <1>3, <2>1
  <2>3. /\ m + 1 \in 1 .. Len(P) /\ command = P[m + 1] /\ rest \in Seq(Commands)
        /\ \A i \in 1 .. Len(rest) : rest[i] = P[m + 1 + i]
        /\ Len(rest) = Len(P) - (m + 1)
    BY <1>2, <2>2, HeadOfLeft
  <2> QED BY <2>1, <2>3 DEF Remain
<1>6. result \in Results
  <2>1. seen[k] \in Seen
    <3>1. k \in 1 .. Len(seen)
      BY <1>2, <1>3
    <3> QED BY <1>2, <3>1
  <2> QED BY <2>1 DEF Seen
<1>7. \A j \in 1 .. (k - 1) : /\ seen[j].step = P[j].step /\ seen[j].result = "pass"
                              /\ step[r][P[j].step] = "PASSED"
  <2> TAKE j \in 1 .. (k - 1)
  <2>1. seen[j] = [step |-> P[j].step, result |-> "pass"] /\ step[r][P[j].step] = "PASSED"
    BY <1>3 DEF PassedSoFar
  <2> QED BY <2>1
<1>8. /\ step' = [step EXCEPT ![r] = rows(r)] /\ Written(w, h)
      /\ UNCHANGED evidence /\ OnlyRun
      /\ run' = run \/ run' = [run EXCEPT ![r] = [run[r] EXCEPT !.counted = TRUE]]
  BY <1>1 DEF Record, persistTestCounts
<1>9. /\ rows(r) \in [Steps -> StepStatuses]
      /\ Saw(seen, k, result, P, rows(r))
  <2> HIDE DEF rest, result, command
  <2>1. /\ rows(r) \in [Steps -> StepStatuses] /\ rows(r)[P[k].step] = StatusOf(result)
        /\ \A j \in 1 .. (k - 1) : rows(r)[P[j].step] = step[r][P[j].step]
        /\ result \in Failures => \A i \in (k + 1) .. Len(P) : rows(r)[P[i].step] = "SKIPPED"
    <3>1. PICK m \in 1 .. Len(P) : m = k
      BY <1>5
    <3>2. /\ command = P[m] /\ rest \in Seq(Commands) /\ Len(rest) = Len(P) - m
          /\ \A i \in 1 .. Len(rest) : rest[i] = P[m + i]
      BY <1>5, <3>1 DEF Remain
    <3>3. Tells(r, m, result, rows(r))
      <4>1. PICK c, q : c = command /\ q = rest
        OBVIOUS
      <4>2. /\ c = P[m] /\ q \in Seq(Commands) /\ Len(q) = Len(P) - m
            /\ \A i \in 1 .. Len(q) : q[i] = P[m + i]
        BY <3>2, <4>1
      <4>3. rows(r) = Recorded(r, c, result, q)
        BY <4>1
      <4>4. Tells(r, m, result, Recorded(r, c, result, q))
        BY <1>2, <1>6, <4>2, RecordedRows
      <4> HIDE DEF rows
      <4> QED BY <4>3, <4>4
    <3> HIDE DEF rows
    <3> QED BY <3>1, <3>3 DEF Tells
  <2>2. \A j \in 1 .. k : seen[j].step = P[j].step
    <3>1. \A j \in 1 .. k : j \in 1 .. (k - 1) \/ j = k
      BY <1>2
    <3> QED BY <1>3, <1>7, <3>1
  <2> HIDE DEF rows
  <2>3. \A j \in 1 .. (k - 1) : seen[j].result = "pass" /\ rows(r)[P[j].step] = "PASSED"
    BY <1>7, <2>1
  <2>4. seen[k].result = result
    BY DEF result
  <2> QED BY <1>2, <1>5, <2>1, <2>2, <2>3, <2>4 DEF Saw
<1> HIDE DEF rows, h, result, rest, command
<1>10. /\ h \in Handlers /\ h.run = r /\ h.pc # "idle"
       /\ Stands(h, box[w], P, rows(r), FALSE)
  <2>1. h = NextAfter(w, P[k], result)
    BY <1>5 DEF h
  <2>2. Remain(Tail(handler[w].left), k, P)
    BY <1>5 DEF rest
  <2> QED BY <1>1, <1>2, <1>6, <1>9, <2>1, <2>2, NextStands
<1>11. PICK row \in Rows : /\ run' = [run EXCEPT ![r] = row]
                           /\ row.status \notin {"ABSENT", "COMPLETED", "TIMED_OUT"}
  <2>1. run = [run EXCEPT ![r] = run[r]]
    BY <1>2 DEF Shape
  <2>2. run[r].status \notin {"ABSENT", "COMPLETED", "TIMED_OUT"}
    BY <1>1, <1>3 DEF Done
  <2>3. [run[r] EXCEPT !.counted = TRUE] \in Rows
        /\ [run[r] EXCEPT !.counted = TRUE].status = run[r].status
    BY <1>2 DEF Rows
  <2> QED BY <1>2, <1>8, <2>1, <2>2, <2>3
<1>12. Rest(w, r) /\ ResultOK(r)' /\ box' = box /\ ~ Done(r)' /\ step'[r] = rows(r)
  <2>1. PICK q \in [Steps -> StepStatuses] : q = rows(r)
    BY <1>9
  <2>2. step' = [step EXCEPT ![r] = q]
    BY <1>8, <2>1
  <2>3. UNCHANGED evidence /\ OnlyRun
    BY <1>8
  <2>4. Rest(w, r) /\ ResultOK(r)' /\ box' = box /\ ~ Done(r)' /\ step'[r] = q
    BY <1>1, <1>3, <1>11, <2>2, <2>3, StepRest
  <2> QED BY <2>1, <2>4
<1>13. Goes(w, h) \/ Threw(w)
  BY <1>1, <1>2, <1>8, <1>10, WrittenGoes
<1>14. Stands(h, box'[w], P, step'[r], Done(r)')
  <2>1. Done(r)' = FALSE
    BY <1>12 DEF Done
  <2> QED BY <1>10, <1>12, <2>1
<1> QED BY <1>1, <1>2, <1>12, <1>13, <1>14, GoesKept, ThrewKept

LEMMA HandlerKept ==
  ASSUME IInv, NEW w \in Workers, Handle(w) \/ Refused(w) \/ Crash(w)
  PROVE  IInv'
BY ReadKept, RequeueStartKept, RereadKept, ReapKept, WorkspaceKept, SelectKept, PrepareKept,
   EnterKept, ExecuteKept, RecordKept, FinishKept, CatchKept, CleanupKept, RefusedKept, CrashKept
   DEF Handle

-----------------------------------------------------------------------------
(* The queue, the requests and the deployment handlers                     *)

LEMMA TakeKept ==
  ASSUME IInv, NEW w \in Workers, NEW r \in Revisions, Take(w, r)
  PROVE  IInv'
<1> DEFINE h == [Idle EXCEPT !.run = r, !.pc = "read"]
<1>1. h \in Handlers /\ h.run = r /\ h.pc = "read"
  BY IdleType DEF Handlers, Idle
<1>2. /\ handler' = [handler EXCEPT ![w] = h] /\ handler[w] = Idle
      /\ entry[r].state = "waiting" /\ entry' = [entry EXCEPT ![r].state = "active"]
      /\ UNCHANGED <<repo, run, step, box, client, evidence>>
  BY DEF Take, dbVars, hostVars
<1> HIDE DEF h
<1>3. /\ handler' \in [Workers -> Handlers] /\ handler'[w] = h
      /\ \A v \in Workers \ {w} : handler'[v] = handler[v]
  BY <1>1, <1>2 DEF IInv, Shape
<1>4. /\ entry' \in [Revisions -> Entries] /\ entry'[r].state = "active"
      /\ \A s \in Revisions \ {r} : entry'[s] = entry[s]
  BY <1>2 DEF IInv, Shape, Entries
<1>5. Shape'
  BY <1>2, <1>3, <1>4 DEF IInv, Shape
<1>6. QueueInv'
  <2>1. QueueInv /\ \A v \in Workers : handler[v].run # r
    BY <1>2, ValidationConstants DEF IInv, QueueInv
  <2>2. r # None /\ run[r].status # "ABSENT"
    BY <1>2, <2>1, ValidationConstants DEF QueueInv
  <2> QED BY <1>1, <1>2, <1>3, <1>4, <2>1, <2>2 DEF QueueInv
<1>7. \A v \in Workers : WorkerOK(v)'
  <2>1. ASSUME NEW v \in Workers \ {w}
        PROVE  WorkerOK(v)'
    BY <1>2, <1>3, SameWorker
  <2>2. WorkerOK(w)'
    <3>1. box'[w] = "none"
      BY <1>2 DEF IInv, WorkerOK, Idle
    <3>2. h.seen = <<>>
      BY DEF h, Idle
    <3>3. Stands(h, box'[w], Profile'.commands, step'[r], Done(r)')
      BY <1>1, <3>1, <3>2 DEF Stands, BeforeTry
    <3> QED BY <1>1, <1>3, <3>3, ValidationConstants DEF WorkerOK
  <2> QED BY <2>1, <2>2
<1>8. \A s \in Revisions : ResultOK(s)'
  BY <1>2, SameResult
<1> QED BY <1>5, <1>6, <1>7, <1>8 DEF IInv

\* Nothing changes that a handler or a result depends on.
LEMMA QueueStepKept ==
  ASSUME IInv, UNCHANGED <<repo, run, step, handler, box, evidence>>, Shape', QueueInv'
  PROVE  IInv'
<1>1. \A v \in Workers : WorkerOK(v)'
  BY SameWorker
<1>2. \A s \in Revisions : ResultOK(s)'
  BY SameResult
<1> QED BY <1>1, <1>2 DEF IInv

LEMMA StalledKept ==
  ASSUME IInv, NEW r \in Revisions, Stalled(r)
  PROVE  IInv'
<1>1. /\ UNCHANGED <<repo, run, step, handler, box, client, evidence>>
      /\ entry[r].state = "active" /\ \A w \in Workers : handler[w].run # r
  BY DEF Stalled, dbVars, hostVars
<1>2. PICK e \in Entries : entry' = [entry EXCEPT ![r] = e] /\ e.state # "none"
  <2>1. entry[r] \in Entries
    BY DEF IInv, Shape
  <2>2. Forgotten \in Entries /\ Forgotten.state = "done"
    BY IdleType DEF Entries, NewEntry, Forgotten
  <2>3. entry[r].stalls < MaxStalls =>
          AgainStalled(entry[r]) \in Entries /\ AgainStalled(entry[r]).state = "waiting"
    <3>1. entry[r].stalls < MaxStalls => entry[r].stalls + 1 \in 0 .. MaxStalls
      BY <2>1 DEF Entries, MaxStalls
    <3> QED BY <2>1, <3>1 DEF Entries, AgainStalled
  <2> QED BY <2>2, <2>3 DEF Stalled
<1>3. /\ entry' \in [Revisions -> Entries] /\ entry'[r].state # "none"
      /\ \A s \in Revisions \ {r} : entry'[s] = entry[s]
  BY <1>2 DEF IInv, Shape
<1>4. Shape'
  BY <1>1, <1>3 DEF IInv, Shape
<1>5. QueueInv'
  <2>1. QueueInv /\ \A w \in Workers : handler[w].run \in Revisions \cup {None}
    BY DEF IInv, Shape, Handlers
  <2> QED BY <1>1, <1>3, <2>1 DEF QueueInv
<1> QED BY <1>1, <1>4, <1>5, QueueStepKept

LEMMA DeploymentReapsKept ==
  ASSUME IInv, DeploymentReaps
  PROVE  IInv'
<1>1. UNCHANGED <<repo, run, step, handler, entry, client, evidence>>
  BY DEF DeploymentReaps, dbVars
<1>2. /\ box' \in [Workers -> {"none", "up", "reaped"}]
      /\ \A w \in Workers : box'[w] = "none" <=> box[w] = "none"
  BY DEF DeploymentReaps, IInv, Shape
<1>3. Shape' /\ QueueInv'
  BY <1>1, <1>2 DEF IInv, Shape, QueueInv
<1>4. \A v \in Workers : WorkerOK(v)'
  BY <1>1, <1>2, SameWorker
<1>5. \A s \in Revisions : ResultOK(s)'
  BY <1>1, SameResult
<1> QED BY <1>3, <1>4, <1>5 DEF IInv

LEMMA EnqueueKept ==
  ASSUME IInv, NEW c \in Clients, Enqueue(c)
  PROVE  IInv'
<1>1. PICK r : r = client[c].rev
  OBVIOUS
<1>2. /\ UNCHANGED <<repo, run, step, handler, box, evidence>>
      /\ client[c].pc = "enqueue" /\ client' = [client EXCEPT ![c] = Free]
      /\ entry' = entry \/ (entry[r].state \in {"none", "done"}
                            /\ entry' = [entry EXCEPT ![r].state = "waiting"])
  BY <1>1 DEF Enqueue, dbVars, hostVars
<1>3. r \in Revisions /\ run[r].status # "ABSENT" /\ QueueInv
  BY <1>1, <1>2 DEF IInv, Shape, QueueInv, Requests
<1>4. /\ client' \in [Clients -> Requests] /\ client'[c] = Free
      /\ \A d \in Clients \ {c} : client'[d] = client[d]
  BY <1>2 DEF IInv, Shape, Requests, Free
<1>5. /\ entry' \in [Revisions -> Entries] /\ \A s \in Revisions \ {r} : entry'[s] = entry[s]
      /\ entry[r].state = "active" => entry'[r].state = "active"
  BY <1>2, <1>3 DEF IInv, Shape, Entries
<1>6. Shape'
  BY <1>2, <1>4, <1>5 DEF IInv, Shape
<1>7. QueueInv'
  <2>1. \A w \in Workers : handler[w].run \in Revisions \cup {None}
    BY DEF IInv, Shape, Handlers
  <2> QED BY <1>2, <1>3, <1>4, <1>5, <2>1 DEF QueueInv, Free
<1> QED BY <1>2, <1>6, <1>7, QueueStepKept

LEMMA FindOrCreateRunKept ==
  ASSUME IInv, NEW c \in Clients, NEW r \in Revisions, FindOrCreateRun(c, r)
  PROVE  IInv'
<1>1. /\ UNCHANGED <<repo, handler, entry, box, evidence>>
      /\ client' = [client EXCEPT ![c] = [pc |-> "enqueue", rev |-> r]]
      /\ \/ run[r].status = "ABSENT" /\ createQueued(r)
         \/ run[r].status # "ABSENT" /\ UNCHANGED <<run, step>>
  BY DEF FindOrCreateRun, Ask, hostVars
<1>2. /\ client' \in [Clients -> Requests] /\ client'[c].pc = "enqueue" /\ client'[c].rev = r
      /\ \A d \in Clients \ {c} : client'[d] = client[d]
  BY <1>1 DEF IInv, Shape, Requests
<1>3. /\ run' \in [Revisions -> Rows] /\ step' \in [Revisions -> [Steps -> StepStatuses]]
      /\ \A s \in Revisions \ {r} : run'[s] = run[s] /\ step'[s] = step[s]
      /\ run'[r].status # "ABSENT"
      /\ run[r].status # "ABSENT" => run'[r] = run[r] /\ step'[r] = step[r]
      /\ run[r].status = "ABSENT" => run'[r].status = "QUEUED"
  <2>1. CASE run[r].status = "ABSENT" /\ createQueued(r)
    <3>1. [run[r] EXCEPT !.status = "QUEUED"] \in Rows
          /\ [run[r] EXCEPT !.status = "QUEUED"].status = "QUEUED"
      BY DEF IInv, Shape, Rows, Statuses
    <3>2. run' = [run EXCEPT ![r] = [run[r] EXCEPT !.status = "QUEUED"]]
          /\ step' = [step EXCEPT ![r] = [n \in Steps |-> "PENDING"]]
      BY <2>1 DEF createQueued
    <3>3. [n \in Steps |-> "PENDING"] \in [Steps -> StepStatuses]
      BY DEF StepStatuses
    <3> QED BY <2>1, <3>1, <3>2, <3>3 DEF IInv, Shape
  <2>2. CASE run[r].status # "ABSENT" /\ UNCHANGED <<run, step>>
    BY <2>2 DEF IInv, Shape
  <2> QED BY <1>1, <2>1, <2>2
<1>4. Shape'
  BY <1>1, <1>2, <1>3 DEF IInv, Shape
<1>5. QueueInv'
  <2>1. QueueInv /\ r # None
    BY ValidationConstants DEF IInv
  <2>2. \A s \in Revisions : run[s].status # "ABSENT" => run'[s].status # "ABSENT"
    BY <1>3
  <2>3. \A d \in Clients : client[d].rev \in Revisions \cup {None}
    BY DEF IInv, Shape, Requests
  <2> QED BY <1>1, <1>2, <1>3, <2>1, <2>2, <2>3 DEF QueueInv
<1>6. \A v \in Workers : WorkerOK(v)'
  <2> TAKE v \in Workers
  <2>1. ASSUME NEW s \in Revisions, handler[v].run = s
        PROVE  run'[s] = run[s] /\ step'[s] = step[s]
    <3>1. run[s].status # "ABSENT"
      BY <2>1, ValidationConstants DEF IInv, QueueInv
    <3> QED BY <1>3, <3>1
  <2> QED BY <1>1, <2>1, SameWorker
<1>7. \A s \in Revisions : ResultOK(s)'
  <2> TAKE s \in Revisions
  <2>1. CASE s = r /\ run[r].status = "ABSENT"
    BY <1>3, <2>1 DEF ResultOK, Done
  <2>2. CASE s # r \/ run[r].status # "ABSENT"
    BY <1>1, <1>3, <2>2, SameResult
  <2> QED BY <2>1, <2>2
<1> QED BY <1>4, <1>5, <1>6, <1>7 DEF IInv

-----------------------------------------------------------------------------
LEMMA InitInv == Init => IInv
<1> SUFFICES ASSUME Init PROVE IInv
  OBVIOUS
<1>1. Shape
  <2>1. Free \in Requests
    BY DEF Free, Requests
  <2>2. <<>> \in Seq(Seen) /\ "PENDING" \in StepStatuses
    BY DEF StepStatuses
  <2> QED BY <2>1, <2>2, IdleType DEF Init, Shape
<1>2. QueueInv
  BY DEF Init, QueueInv, Idle, Free, NewEntry
<1>3. \A w \in Workers : WorkerOK(w)
  BY DEF Init, WorkerOK, Idle
<1>4. \A r \in Revisions : ResultOK(r)
  BY DEF Init, ResultOK, Done, NoRun
<1> QED BY <1>1, <1>2, <1>3, <1>4 DEF IInv

LEMMA StutterKept ==
  ASSUME IInv, UNCHANGED vars
  PROVE  IInv'
<1>1. UNCHANGED <<repo, run, step, entry, handler, box, client, evidence>>
  BY DEF vars, dbVars, hostVars
<1>2. Shape' /\ QueueInv'
  BY <1>1 DEF IInv, Shape, QueueInv
<1> QED BY <1>1, <1>2, QueueStepKept

LEMMA StepKept == IInv /\ [Next]_vars => IInv'
<1> SUFFICES ASSUME IInv, [Next]_vars PROVE IInv'
  OBVIOUS
<1>1. CASE UNCHANGED vars
  BY <1>1, StutterKept
<1>2. CASE Next
  BY <1>2, HandlerKept, TakeKept, StalledKept, DeploymentReapsKept, EnqueueKept,
     FindOrCreateRunKept DEF Next
<1> QED BY <1>1, <1>2

THEOREM Invariance == Spec => []IInv
<1> QED BY InitInv, StepKept, PTL DEF Spec

-----------------------------------------------------------------------------
(* What follows                                                            *)

\* Every row, job and handler stays within its type; a run has one handler,
\* which executes its job, and a container in use is that of a handler between
\* its preparation and its cleanup (validation-processor.ts).
THEOREM TypeCorrect == Spec => []TypeOK
<1>1. ASSUME IInv PROVE TypeOK
  <2>1. Shape /\ QueueInv
    BY <1>1 DEF IInv
  <2>2. ASSUME NEW r \in Revisions
        PROVE  Cardinality({w \in Workers : handler[w].run = r}) <= 1
    <3> DEFINE S == {w \in Workers : handler[w].run = r}
    <3>1. ASSUME NEW w \in S PROVE S = {w}
      <4>1. r # None
        BY ValidationConstants
      <4> QED BY <2>1, <3>1, <4>1 DEF QueueInv
    <3> HIDE DEF S
    <3>2. S = {} \/ \E w : S = {w}
      BY <3>1
    <3>3. Cardinality({}) = 0 /\ \A w : Cardinality({w}) = 1
      BY FS_EmptySet, FS_Singleton
    <3>4. Cardinality(S) = 0 \/ Cardinality(S) = 1
      BY <3>2, <3>3
    <3>5. Cardinality(S) <= 1
      BY <3>4
    <3> QED BY <3>5 DEF S
  <2>3. ASSUME NEW r \in Revisions
        PROVE  /\ run[r].status \in Statuses /\ run[r].outcome \in Outcomes
               /\ step[r] \in [Steps -> StepStatuses] /\ entry[r] \in Entries
    <3>1. run[r] \in Rows /\ step[r] \in [Steps -> StepStatuses] /\ entry[r] \in Entries
      BY <2>1 DEF Shape
    <3> QED BY <3>1 DEF Rows
  <2>4. ASSUME NEW w \in Workers
        PROVE  /\ handler[w].pc \in HandlerPcs
               /\ handler[w].run # None => entry[handler[w].run].state = "active"
               /\ box[w] \in {"none", "up", "reaped"}
               /\ box[w] # "none" => handler[w].pc \in WithBox
    <3>1. WorkerOK(w)
      BY <1>1 DEF IInv
    <3>2. box[w] # "none" => handler[w].pc \in WithBox
      BY <3>1 DEF WorkerOK, Stands
    <3>3. handler[w] \in Handlers /\ box[w] \in {"none", "up", "reaped"}
      BY <2>1 DEF Shape
    <3>4. handler[w].pc \in HandlerPcs
      BY <3>3 DEF Handlers
    <3>5. handler[w].run # None => entry[handler[w].run].state = "active"
      BY <2>1 DEF QueueInv
    <3> QED BY <3>2, <3>3, <3>4, <3>5
  <2>5. \A c \in Clients : client[c].pc = "idle" <=> client[c].rev = None
    BY <2>1 DEF QueueInv
  <2> QED BY <2>2, <2>3, <2>4, <2>5 DEF TypeOK, Entries
<1> QED BY Invariance, <1>1, PTL

\* A revision is PASSED only if one handler saw every command of the profile
\* pass, each in its turn, whatever crashed and was retried before.
THEOREM ResultsAreEarned == Spec => []PassedIsEarned
<1>1. ASSUME IInv PROVE PassedIsEarned
  <2> SUFFICES ASSUME NEW r \in Revisions, Done(r), run[r].outcome = "PASSED"
               PROVE  /\ Len(evidence[r]) = Len(Profile.commands)
                      /\ \A i \in DOMAIN evidence[r] :
                           evidence[r][i] = [step |-> Profile.commands[i].step, result |-> "pass"]
                      /\ run[r].error = "none" /\ run[r].build = "PASSED" /\ run[r].test = "PASSED"
    BY DEF PassedIsEarned
  <2>1. Agrees(run[r], evidence[r], Profile.commands, step[r])
    BY <1>1 DEF IInv, ResultOK
  <2>2. DOMAIN evidence[r] = 1 .. Len(evidence[r])
    BY <1>1 DEF IInv, Shape
  <2> QED BY <2>1, <2>2 DEF Agrees
<1> QED BY Invariance, <1>1, PTL

\* The step rows of a completed run are those of the delivery that decided it.
THEOREM RowsAreTold == Spec => []RowsTellTheRun
<1>1. ASSUME IInv PROVE RowsTellTheRun
  <2> SUFFICES ASSUME NEW r \in Revisions, run[r].status = "COMPLETED", NEW n \in Planned
               PROVE  step[r][n] = RowFor(r, n)
    BY DEF RowsTellTheRun
  <2>1. Agrees(run[r], evidence[r], Profile.commands, step[r])
    BY <1>1 DEF IInv, ResultOK, Done
  <2>2. PICK i \in 1 .. Len(Profile.commands) : n = Profile.commands[i].step
    BY ProfileShape
  <2>3. step[r][n] = RowOf(evidence[r], n)
    BY <2>1, <2>2 DEF Agrees
  <2>4. RowFor(r, n) = RowOf(evidence[r], n)
    BY DEF RowFor, RowOf
  <2> QED BY <2>3, <2>4
<1> QED BY Invariance, <1>1, PTL

\* The row of a run with a result is not written again.
LEMMA RowStands ==
  ASSUME IInv, [Next]_vars, NEW r \in Revisions, Done(r)
  PROVE  run'[r] = run[r]
<1>1. ASSUME NEW w \in Workers, Handle(w) \/ Refused(w) \/ Crash(w)
      PROVE  run'[r] = run[r]
  <2>1. Shape /\ WorkerOK(w)
    BY DEF IInv
  <2>2. handler[w].pc \in {"requeue", "start", "enter", "record", "finish"} => handler[w].run # r
    <3>1. handler[w].run = r => r # None
      BY ValidationConstants
    <3> QED BY <2>1, <3>1 DEF WorkerOK, Stands
  <2>3. CASE Requeue(w) \/ Start(w)
    BY <2>1, <2>2, <2>3 DEF Requeue, Start, At, Transition, Shape
  <2>4. CASE Enter(w)
    <3>1. run' = run \/ \E row : run' = [run EXCEPT ![handler[w].run] = row]
      BY <2>4 DEF Enter, Transition
    <3> QED BY <2>1, <2>2, <2>4, <3>1 DEF Enter, At, Shape
  <2>5. CASE Record(w)
    <3>1. run' = run \/ run' = [run EXCEPT ![handler[w].run].counted = TRUE]
      BY <2>5 DEF Record, persistTestCounts
    <3> QED BY <2>1, <2>2, <2>5, <3>1 DEF Record, At, Shape
  <2>6. CASE Finish(w)
    BY <2>1, <2>2, <2>6 DEF Finish, At, Transition, Shape
  <2>7. CASE Catch(w)
    <3>1. run' = run \/ (/\ ~ Done(handler[w].run)
                         /\ \E row : run' = [run EXCEPT ![handler[w].run] = row])
      BY <2>7 DEF Catch, Transition, Done
    <3> QED BY <2>1, <3>1 DEF Shape
  <2>8. CASE ~ (Requeue(w) \/ Start(w) \/ Enter(w) \/ Record(w) \/ Finish(w) \/ Catch(w))
    <3>1. \/ Read(w) \/ Reread(w) \/ Reap(w) \/ Materialize(w) \/ Verify(w) \/ Select(w)
          \/ Prepare(w) \/ Execute(w) \/ Cleanup(w) \/ Refused(w) \/ Crash(w)
      BY <1>1, <2>8 DEF Handle
    <3> QED BY <3>1 DEF Read, Reread, Reap, Materialize, Verify, Select, Prepare, Execute, Cleanup,
                        Refused, Crash, OnlyHandler, dbVars
  <2> QED BY <2>3, <2>4, <2>5, <2>6, <2>7, <2>8
<1>2. ASSUME NEW c \in Clients, NEW s \in Revisions, FindOrCreateRun(c, s)
      PROVE  run'[r] = run[r]
  <2>1. run' = run \/ (/\ run[s].status = "ABSENT"
                       /\ run' = [run EXCEPT ![s].status = "QUEUED"])
    BY <1>2 DEF FindOrCreateRun, createQueued
  <2>2. run[r].status # "ABSENT"
    BY DEF Done
  <2> QED BY <2>1, <2>2 DEF IInv, Shape
<1>3. CASE UNCHANGED vars
  BY <1>3 DEF vars, dbVars
<1>4. ASSUME \/ \E w \in Workers, s \in Revisions : Take(w, s)
             \/ \E s \in Revisions : Stalled(s)
             \/ DeploymentReaps
             \/ \E c \in Clients : Enqueue(c)
      PROVE  run'[r] = run[r]
  BY <1>4 DEF Take, Stalled, DeploymentReaps, Enqueue, dbVars
<1> QED BY <1>1, <1>2, <1>3, <1>4 DEF Next

\* "Completed runs are reused. Historical results are immutable."
\* (docs/VALIDATION_ENGINE.md:11), nor is a comparison revised.
THEOREM ResultsNeverChange == Spec => ResultsStand
<1> DEFINE A == /\ \A r \in Revisions : Done(r) => run'[r] = run[r]
                /\ \A o \in Originals, g \in Generated :
                     Regression(o, g) # "NOT_COMPARED" => Regression(o, g)' = Regression(o, g)
<1>1. IInv /\ [Next]_vars => [A]_vars
  <2> SUFFICES ASSUME IInv, [Next]_vars PROVE A
    OBVIOUS
  <2>1. ASSUME NEW r \in Revisions, latestCompleted(r) # "none"
        PROVE  latestCompleted(r)' = latestCompleted(r)
    <3>1. Done(r)
      BY <2>1 DEF latestCompleted, Done
    <3>2. run'[r] = run[r]
      BY <3>1, RowStands
    <3> QED BY <3>2 DEF latestCompleted
  <2>2. ASSUME NEW x, NEW y, compareValidations(x, y) # "NOT_COMPARED"
        PROVE  x # "none" /\ y # "none"
    <3> SUFFICES ASSUME x = "none" \/ y = "none" PROVE FALSE
      OBVIOUS
    <3>1. compareValidations(x, y) = "NOT_COMPARED"
      BY DEF compareValidations
    <3> QED BY <2>2, <3>1
  <2>3. ASSUME NEW o \in Originals, NEW g \in Generated, Regression(o, g) # "NOT_COMPARED"
        PROVE  Regression(o, g)' = Regression(o, g)
    <3>1. latestCompleted(o) # "none" /\ latestCompleted(g) # "none"
      BY <2>2, <2>3 DEF Regression
    <3>2. latestCompleted(o)' = latestCompleted(o) /\ latestCompleted(g)' = latestCompleted(g)
      BY <2>1, <3>1 DEF Revisions
    <3> QED BY <3>2 DEF Regression
  <2> QED BY <2>3, RowStands
<1>2. IInv /\ [Next]_vars => [A]_vars
  BY <1>1
<1> QED BY Invariance, <1>2, PTL DEF Spec, ResultsStand
=============================================================================
