------------------------ MODULE MockTransport_proofs ------------------------
(***************************************************************************)
(* Proofs about MockTransport, for every plan of vectors.  The listeners   *)
(* open for the vector under way are among those its double will close;    *)
(* that makes OneDouble inductive.  A request is shown the step that is    *)
(* due (ScriptServed) because the table in force is the one of the pass    *)
(* under way at every place between two fetches (Tracked).                 *)
(***************************************************************************)
EXTENDS MockTransport, TLAPS

\* A double has its five fields.
Shaped ==
    double = [table |-> double.table, servers |-> double.servers,
              resolve |-> double.resolve, crawl |-> double.crawl,
              fetches |-> double.fetches]

(* The listeners of the vector under way are known to its double, which is   *)
(* there only with an authority, whose directory is there until the end.     *)
Known ==
    pc \in Running =>
        \A s \in sockets : s.vector = v => \E i \in DOMAIN double.servers : double.servers[i] = s.at
Based ==
    /\ pc = "probed" => ~authority
    /\ pc \in Running => authority
    /\ authority /\ pc # "end" => root = "made"
    /\ authority /\ pc = "end" => root = "removed"

IInv == TypeOK /\ Shaped /\ Known /\ Based /\ OneDouble

LEMMA InitInv == Init => IInv
  <1> SUFFICES ASSUME Init PROVE IInv
    OBVIOUS
  <1>1. Len(Plan) \in Nat
    BY PlanAssumption
  <1>2. <<>> \in Seq(At) /\ <<>> \in Seq(Outcomes) /\ Len(<<>>) = 0
    OBVIOUS
  <1>3. double.servers = <<>> /\ Shaped
    BY DEF Init, Idle, Shaped
  <1>4. env \in BOOLEAN /\ authority \in BOOLEAN /\ dead \in BOOLEAN
    BY DEF Init
  <1>5. TypeOK
    <2> HIDE DEF Idle
    <2> QED BY <1>1, <1>2, <1>3, <1>4 DEF Init, TypeOK, Running, Sockets
  <1> QED
    BY <1>3, <1>5 DEF Init, IInv, Known, Based, OneDouble, Running

\* What TypeOK says, in the form the steps use.
LEMMA Facts ==
  ASSUME TypeOK
  PROVE  /\ v \in Nat /\ v >= 1 /\ Len(Plan) \in Nat
         /\ status \in Seq(Outcomes) /\ Len(status) = v - 1
         /\ pc \in Running => v <= Len(Plan)
  BY PlanAssumption DEF TypeOK

(* The end of a vector: its outcome is written, and every listener that is   *)
(* still open is either of an earlier vector or of this one, failed.         *)
LEMMA OverInv ==
  ASSUME IInv, NEW o \in Outcomes, VectorOver(o), v <= Len(Plan),
         double' = Idle, todo' = {}, raised' = "none",
         UNCHANGED <<authority, root, sockets, stuck, n>>,
         dead' \in BOOLEAN,
         authority => root = "made",
         \A s \in sockets : s.vector = v => o # "ran"
  PROVE  IInv'
  <1> USE DEF IInv
  <1>1. /\ v \in Nat /\ v >= 1 /\ Len(Plan) \in Nat
        /\ status \in Seq(Outcomes) /\ Len(status) = v - 1
    BY Facts
  <1>2. /\ v' = v + 1 /\ pc' = "between"
        /\ status' \in Seq(Outcomes) /\ Len(status') = v' - 1
        /\ \A w \in 1..(v - 1) : status'[w] = status[w]
        /\ status'[v] = o
    BY <1>1 DEF VectorOver
  <1>3. env' \in BOOLEAN
    BY DEF VectorOver
  <1>4. double'.servers \in Seq(At) /\ Shaped'
    BY DEF Shaped, Idle
  <1>5. v' \in 1..(Len(Plan) + 1)
    BY <1>1, <1>2
  <1>6. TypeOK'
    <2>1. /\ pc' \in {"probed", "between", "end"} /\ pc' \notin Running
          /\ root' \in {"absent", "made", "removed"} /\ n' \in Nat
          /\ sockets' \subseteq Sockets /\ stuck' \subseteq Sockets
      BY <1>2 DEF TypeOK, Running
    <2>2. authority' \in BOOLEAN
      BY DEF TypeOK
    <2> QED
      BY <1>2, <1>3, <1>4, <1>5, <2>1, <2>2, Zenon DEF TypeOK
  <1>7. OneDouble'
    <2> SUFFICES ASSUME NEW s \in sockets
                 PROVE  s.vector < v' /\ status'[s.vector] # "ran"
      BY DEF OneDouble
    <2>1. s.vector \in Nat /\ s.vector >= 1
      BY <1>1 DEF TypeOK, Sockets
    <2>2. CASE s.vector = v
      BY <1>1, <1>2, <2>2
    <2>3. CASE s.vector # v
      BY <1>1, <1>2, <2>1, <2>3 DEF OneDouble
    <2> QED BY <2>2, <2>3
  <1> QED
    BY <1>2, <1>4, <1>6, <1>7 DEF Known, Based, Running

(* A step that leaves the vectors, the sockets and the known listeners alone. *)
LEMMA QuietInv ==
  ASSUME IInv, UNCHANGED <<v, status, sockets, authority, root>>,
         pc' \in {"between"} \cup Running, pc # "end",
         pc' \in Running <=> pc \in Running,
         double'.servers = double.servers, Shaped',
         pc' \notin Running => UNCHANGED double,
         pc' # "starting" => todo' = {},
         pc' # "closing" => raised' = "none",
         todo' \subseteq At, raised' \in {"none"} \cup Outcomes,
         env' \in BOOLEAN, dead' \in BOOLEAN, n' \in Nat, stuck' \subseteq Sockets
  PROVE  IInv'
  <1> USE DEF IInv
  <1>1. authority' \in BOOLEAN
    BY DEF TypeOK
  <1>2. /\ double'.servers \in Seq(At) /\ v' \in 1..(Len(Plan) + 1)
        /\ status' \in Seq(Outcomes) /\ Len(status') = v' - 1
        /\ sockets' \subseteq Sockets /\ root' \in {"absent", "made", "removed"}
        /\ pc' \in {"probed", "between", "end"} \cup Running
    BY DEF TypeOK
  <1>3. pc' \in Running => v' <= Len(Plan)
    BY DEF TypeOK
  <1>4. pc' \notin Running => double' = Idle
    BY DEF TypeOK
  <1>5. TypeOK'
    BY <1>1, <1>2, <1>3, <1>4, Zenon DEF TypeOK
  <1>6. Known' /\ OneDouble'
    BY DEF Known, OneDouble
  <1>7. Based'
    BY DEF Based, Running
  <1> QED
    BY <1>5, <1>6, <1>7

LEMMA AuthorityInv ==
  ASSUME IInv, Authority \/ AuthorityFails \/ Cleanup
  PROVE  IInv'
  <1> USE DEF IInv
  <1>1. /\ UNCHANGED <<v, status, double, todo, raised, sockets, stuck, n, dead>>
        /\ pc \notin Running /\ pc' \in {"between", "end"} /\ pc \notin {"closing", "starting"}
    BY DEF Authority, AuthorityFails, Cleanup, mock, call, Running
  <1>2. env' \in BOOLEAN /\ authority' \in BOOLEAN /\ dead' \in BOOLEAN
    BY <1>1, Zenon DEF Authority, AuthorityFails, Cleanup, TypeOK
  <1>3. root' \in {"absent", "made", "removed"}
    BY DEF Authority, AuthorityFails, Cleanup, Left, TypeOK
  <1>4. pc' \notin Running
    BY <1>1 DEF Running
  <1>5. TypeOK'
    BY <1>1, <1>2, <1>3, <1>4, Zenon DEF TypeOK, Sockets
  <1>6. Shaped' /\ Known' /\ OneDouble'
    BY <1>1, <1>4 DEF Shaped, Known, OneDouble
  <1>7. Based'
    BY <1>4 DEF Based, Authority, AuthorityFails, Cleanup, Left
  <1> QED
    BY <1>5, <1>6, <1>7

LEMMA StartInv ==
  ASSUME IInv, StartDouble \/ set_crawl
  PROVE  IInv'
  <1> USE DEF IInv
  <1> DEFINE pass == IF pc = "between" THEN 1 ELSE 2
  <1>1. /\ set_routes(pass) /\ authority /\ pc' = "starting" /\ v <= Len(Plan)
        /\ UNCHANGED <<run, raised, sockets, stuck, dead>> /\ n' \in Nat
        /\ pc # "closing" /\ pc # "starting"
    BY DEF StartDouble, set_crawl, Based, call, Running, TypeOK
  <1>2. v \in DOMAIN Plan
    BY <1>1, Facts, PlanAssumption
  <1>3. todo' \subseteq At
    BY <1>1, <1>2, PlanAssumption DEF set_routes, Retabled
  <1>4. double'.servers = double.servers /\ Shaped'
    BY <1>1 DEF set_routes, Shaped
  <1>5. env' \in BOOLEAN /\ authority' \in BOOLEAN /\ dead' \in BOOLEAN
    BY <1>1 DEF run, TypeOK
  <1>6. /\ pc' \in {"probed", "between", "end"} \cup Running /\ pc' \in Running
        /\ UNCHANGED <<v, status, root, authority>> /\ v' <= Len(Plan)
    BY <1>1 DEF run, Running
  <1>7. TypeOK'
    BY <1>1, <1>3, <1>4, <1>5, <1>6, Zenon DEF TypeOK, Sockets
  <1>8. Known'
    <2>1. CASE pc = "starting" \/ pc \in Running
      BY <1>1, <1>4, <1>6, <2>1 DEF Known, Running
    <2>2. CASE pc = "between"
      BY <1>1, <1>6, <2>2, Facts DEF OneDouble, Known, Running
    <2> QED BY <2>1, <2>2 DEF StartDouble, set_crawl, Running
  <1>9. Based'
    BY <1>1, <1>6 DEF Based, StartDouble, set_crawl
  <1>10. OneDouble'
    BY <1>1, <1>6 DEF OneDouble
  <1> QED
    BY <1>4, <1>7, <1>8, <1>9, <1>10

LEMMA ServerInv ==
  ASSUME IInv, NEW at \in At, _start_server(at)
  PROVE  IInv'
  <1> USE DEF IInv
  <1>1. /\ pc = "starting" /\ UNCHANGED <<pc, run, raised, stuck, call>>
        /\ pc \in Running
    BY DEF _start_server, Running
  <1>2. /\ double'.servers = Append(double.servers, at) /\ Shaped'
        /\ double.servers \in Seq(At)
    BY DEF _start_server, Shaped, TypeOK
  <1>3. /\ double'.servers \in Seq(At)
        /\ \A i \in DOMAIN double.servers :
              i \in DOMAIN double'.servers /\ double'.servers[i] = double.servers[i]
        /\ Len(double.servers) + 1 \in DOMAIN double'.servers
        /\ double'.servers[Len(double.servers) + 1] = at
    BY <1>2
  <1>4. v \in 1..Len(Plan) /\ Listener(at) \in Sockets /\ Listener(at).at = at
    BY <1>1, Facts DEF Listener, Sockets
  <1>5. sockets' = sockets \cup {Listener(at)} /\ todo' \subseteq At
    BY DEF _start_server, TypeOK
  <1>6. env' \in BOOLEAN /\ authority' \in BOOLEAN /\ dead' \in BOOLEAN
    BY <1>1 DEF run, call, TypeOK
  <1>7. UNCHANGED <<v, status, root, authority, n>>
    BY <1>1 DEF run, call
  <1>8. sockets' \subseteq Sockets
    BY <1>4, <1>5 DEF TypeOK
  <1>9. TypeOK'
    BY <1>1, <1>3, <1>5, <1>6, <1>7, <1>8, Zenon DEF TypeOK, Sockets
  <1>10. Known'
    BY <1>1, <1>3, <1>4, <1>5, <1>7 DEF Known
  <1>11. Based' /\ OneDouble'
    BY <1>1, <1>5, <1>7 DEF Based, OneDouble, Listener
  <1> QED
    BY <1>2, <1>9, <1>10, <1>11

LEMMA FailsInv ==
  ASSUME IInv, NEW at \in At, StartFails(at)
  PROVE  IInv'
  <1> USE DEF IInv
  <1>1. PICK o \in {"env-blocked", "harness-error"} :
           IF n = 1
           THEN VectorOver(o) /\ double' = Idle /\ UNCHANGED <<authority, root, raised>>
           ELSE pc' = "closing" /\ raised' = o /\ UNCHANGED <<run, double>>
    BY DEF StartFails
  <1>2. /\ pc = "starting" /\ pc \in Running /\ todo' = {}
        /\ UNCHANGED <<sockets, stuck, n, fetch, dead>> /\ dead' \in BOOLEAN
    BY DEF StartFails, Abandoned, Running, call, TypeOK
  <1>3. v <= Len(Plan) /\ authority /\ root = "made"
    BY <1>2, Facts DEF Based
  <1>4. CASE n = 1
    <2>1. raised' = "none" /\ o \in Outcomes /\ o # "ran"
      BY <1>1, <1>2, <1>4 DEF Outcomes, TypeOK
    <2> QED
      BY <1>1, <1>2, <1>3, <1>4, <2>1, OverInv
  <1>5. CASE n # 1
    <2>1. pc' = "closing" /\ raised' = o /\ UNCHANGED <<run, double>>
      BY <1>1, <1>5
    <2>2. /\ UNCHANGED <<v, status, sockets, authority, root>>
          /\ env' \in BOOLEAN /\ n' \in Nat /\ stuck' \subseteq Sockets
          /\ double'.servers = double.servers /\ Shaped'
      BY <1>2, <2>1 DEF run, TypeOK, Shaped
    <2>3. pc' \in {"between"} \cup Running /\ pc' \in Running /\ pc # "end"
      BY <1>2, <2>1 DEF Running
    <2>4. raised' \in {"none"} \cup Outcomes /\ todo' \subseteq At
      BY <1>2, <2>1 DEF Outcomes
    <2> QED
      BY <1>2, <2>1, <2>2, <2>3, <2>4, QuietInv
  <1> QED
    BY <1>4, <1>5

LEMMA CloseInv ==
  ASSUME IInv, CloseServer
  PROVE  IInv'
  <1> USE DEF IInv
  <1> DEFINE at == Head(double.servers)
  <1>1. /\ pc = "closing" /\ pc \in Running /\ UNCHANGED <<pc, run, todo, raised, stuck, call>>
        /\ double.servers # <<>> /\ double.servers \in Seq(At)
        /\ sockets' = sockets \ {Listener(at)}
    BY DEF CloseServer, Closes, Running, TypeOK
  <1>2. double'.servers = Tail(double.servers) /\ Shaped'
    BY DEF CloseServer, Shaped
  <1>3. /\ double'.servers \in Seq(At)
        /\ \A i \in DOMAIN double.servers :
              i # 1 => /\ i - 1 \in DOMAIN double'.servers
                       /\ double'.servers[i - 1] = double.servers[i]
        /\ at = double.servers[1]
    BY <1>1, <1>2
  <1>4. env' \in BOOLEAN /\ authority' \in BOOLEAN /\ dead' \in BOOLEAN
    BY <1>1 DEF run, call, TypeOK
  <1>5. UNCHANGED <<v, status, root, authority, n>> /\ sockets' \subseteq Sockets
    BY <1>1 DEF run, call, TypeOK
  <1>6. TypeOK'
    BY <1>1, <1>3, <1>4, <1>5, Zenon DEF TypeOK, Sockets
  <1>7. Known'
    <2> SUFFICES ASSUME NEW s \in sockets, s # Listener(at), s.vector = v
                 PROVE  \E i \in DOMAIN double'.servers : double'.servers[i] = s.at
      BY <1>1, <1>5 DEF Known
    <2>1. PICK i \in DOMAIN double.servers : double.servers[i] = s.at
      BY <1>1 DEF Known
    <2>2. s = [vector |-> s.vector, at |-> s.at]
      BY DEF TypeOK, Sockets
    <2>3. i # 1
      BY <1>3, <2>1, <2>2 DEF Listener
    <2> QED BY <1>3, <2>1, <2>3
  <1>8. Based' /\ OneDouble'
    BY <1>1, <1>5 DEF Based, OneDouble
  <1> QED
    BY <1>2, <1>6, <1>7, <1>8

LEMMA StepInv == IInv /\ [Next]_vars => IInv'
  <1> SUFFICES ASSUME IInv, [Next]_vars PROVE IInv'
    OBVIOUS
  <1> USE DEF IInv
  <1>1. CASE NoDouble
    <2>1. "env-blocked" \in Outcomes /\ "env-blocked" # "ran"
      BY DEF Outcomes
    <2>2. /\ VectorOver("env-blocked") /\ v <= Len(Plan) /\ ~authority
          /\ pc \notin Running /\ pc # "closing" /\ pc # "starting"
          /\ UNCHANGED <<authority, root, double, todo, raised, sockets, stuck, n, dead>>
      BY <1>1 DEF NoDouble, mock, call, Running
    <2>3. double' = Idle /\ todo' = {} /\ raised' = "none" /\ dead' \in BOOLEAN
      BY <2>2 DEF TypeOK
    <2> QED
      BY <2>1, <2>2, <2>3, OverInv
  <1>2. CASE Closed
    <2> DEFINE o == IF raised = "none" THEN "ran" ELSE raised
    <2>1. o \in Outcomes
      BY DEF TypeOK, Outcomes
    <2>2. /\ VectorOver(o) /\ v <= Len(Plan) /\ pc \in Running
          /\ double.servers = <<>> /\ double' = Idle /\ raised' = "none"
          /\ UNCHANGED <<authority, root, todo, sockets, stuck, n, dead>>
      BY <1>2, Facts DEF Closed, Running
    <2>3. authority /\ root = "made" /\ \A s \in sockets : s.vector # v
      BY <1>2, <2>2 DEF Known, Based, Closed
    <2>4. todo' = {} /\ dead' \in BOOLEAN
      BY <1>2, <2>2 DEF TypeOK, Closed
    <2> QED
      BY <2>1, <2>2, <2>3, <2>4, OverInv
  <1>3. CASE \/ NoAuthority \/ Send \/ TimedOut \/ do_GET \/ HalfOpen \/ LetGo
             \/ Answered \/ Ended \/ UNCHANGED vars
    <2>1. /\ UNCHANGED <<v, status, sockets, authority, root, double, todo, raised, env>>
          /\ stuck' \subseteq Sockets
      BY <1>3 DEF NoAuthority, Send, TimedOut, do_GET, HalfOpen, LetGo, Answered,
                  Ended, vars, run, mock, TypeOK
    <2>0. dead' \in BOOLEAN
      BY <1>3 DEF NoAuthority, Send, TimedOut, do_GET, HalfOpen, LetGo, Answered,
                  Ended, vars, call, TypeOK
    <2>2. /\ n' \in Nat
          /\ \/ pc' = pc
             \/ pc = "probed" /\ pc' = "between"
             \/ pc = "starting" /\ todo = {} /\ pc' = "fetching"
             \/ pc = "fetching" /\ pc' \in Running
      BY <1>3 DEF NoAuthority, Send, TimedOut, do_GET, HalfOpen, LetGo, Answered,
                  Ended, vars, call, Fetched, Running, TypeOK
    <2>3. pc' \in {"probed", "between", "end"} \cup Running /\ (pc' \in Running <=> pc \in Running)
      BY <2>2 DEF TypeOK, Running
    <2>4. env' \in BOOLEAN /\ authority' \in BOOLEAN /\ Shaped'
      BY <2>1 DEF TypeOK, Shaped
    <2>5. (pc' # "closing" => raised' = "none") /\ (pc' # "starting" => todo' = {})
      BY <2>1, <2>2 DEF TypeOK
    <2>6. TypeOK'
      BY <2>1, <2>0, <2>2, <2>3, <2>4, <2>5, Zenon DEF TypeOK, Sockets
    <2>7. Known' /\ OneDouble'
      BY <2>1, <2>3 DEF Known, OneDouble
    <2>8. Based'
      BY <2>1, <2>2, <2>3 DEF Based, Running
    <2> QED
      BY <2>4, <2>6, <2>7, <2>8
  <1> QED
    BY <1>1, <1>2, <1>3, AuthorityInv, StartInv, ServerInv, FailsInv, CloseInv
    DEF Next, Runner

-----------------------------------------------------------------------------
(* What a client is shown.  The double has the table of the case and the     *)
(* pass under way, a listener for all the table needs before a request is    *)
(* sent, and a resolve map that knows each listener by its host.             *)

Stages == Needed(Tables[v][1]) \cup Needed(Tables[v][2])

Following ==
    /\ double.crawl = Vector.crawl /\ double.fetches = Fetches(Vector)
    /\ n \in 1..Fetches(Vector)
    /\ pc = "recrawling" => Vector.crawl /\ n = 2
Resolving ==
    /\ \A h \in DOMAIN double.resolve :
        double.resolve[h] \in Stages /\ double.resolve[h][2] = h
    /\ \A i \in DOMAIN double.servers :
        double.servers[i] \in Stages /\ double.servers[i][2] \in DOMAIN double.resolve
Presenting ==
    /\ double.table = Tables[v][Pass(Vector, n)]
    /\ todo \subseteq Needed(double.table)
    /\ \A at \in Needed(double.table) \ todo :
        \E i \in DOMAIN double.servers : double.servers[i] = at

\* The request follows the script, and what it was shown is the script so far.
Answers == {ScriptOf(Vector, n, k) : k \in 1..(Hops + 1)}
Answering ==
    /\ fetch = [resolve |-> fetch.resolve, at |-> fetch.at, served |-> fetch.served]
    /\ fetch.resolve = double.resolve
    /\ fetch.served \in Seq(Answers)
    /\ fetch.at = Place(Vector, n, Len(fetch.served) + 1)
    /\ \A k \in DOMAIN fetch.served : fetch.served[k] = ScriptOf(Vector, n, k)

Tracked ==
    /\ pc \in {"starting", "recrawling", "fetching"} => Following /\ Resolving
    /\ pc \in {"starting", "fetching"} => Presenting
    /\ pc = "fetching" => Answering

\* What ScriptAssumption says of the vector under way.
LEMMA VectorFacts ==
  ASSUME TypeOK, pc \in Running
  PROVE  /\ Hops \in Nat /\ Fetches(Vector) \in Nat /\ Fetches(Vector) >= 1
         /\ \A c \in 1..Fetches(Vector), k \in 1..(Hops + 1) :
              Place(Vector, c, k) # NoUrl =>
                /\ Key(Place(Vector, c, k)) \in DOMAIN Tables[v][Pass(Vector, c)]
                /\ Tables[v][Pass(Vector, c)][Key(Place(Vector, c, k))]
                     = ScriptOf(Vector, c, k)
         /\ \A a, b \in Stages : a[2] = b[2] => a = b
  <1>1. v \in DOMAIN Plan
    BY Facts, PlanAssumption
  <1> QED
    BY <1>1, ScriptAssumption DEF Vector, Stages

\* The pass of a case that is fetched is one of the two that have a table.
LEMMA PassOfCase ==
  ASSUME NEW c \in 1..Fetches(Vector), Fetches(Vector) \in Nat
  PROVE  Pass(Vector, c) \in 1..2
  BY DEF Pass, Fetches

(* The first table takes effect with no listener open yet, the second with   *)
(* those of the first pass kept: both times the missing ones are to come.    *)
LEMMA TableTaken ==
  ASSUME TypeOK, Shaped, Tracked, pc' = "starting", v' = v, n' \in 1..Fetches(Vector),
         Following' /\ Resolving', double'.servers = double.servers,
         double'.table = Tables[v][Pass(Vector, n')],
         todo' = Needed(double'.table) \ ToSet(double.servers)
  PROVE  Tracked'
  <1>1. Vector' = Vector
    BY DEF Vector
  <1>2. Presenting'
    <2>1. double'.table = Tables'[v'][Pass(Vector', n')]
      BY <1>1
    <2>2. \A at \in Needed(double'.table) \ todo' :
            \E i \in DOMAIN double'.servers : double'.servers[i] = at
      BY DEF ToSet
    <2> QED BY <2>1, <2>2 DEF Presenting
  <1> QED
    BY <1>2 DEF Tracked

LEMMA StartTracked ==
  ASSUME TypeOK, Shaped, Tracked, StartDouble
  PROVE  Tracked'
  <1>1. /\ pc = "between" /\ v <= Len(Plan) /\ set_routes(1) /\ n' = 1
        /\ pc' = "starting" /\ v' = v
    BY DEF StartDouble, run
  <1>2. double = Idle
    BY <1>1 DEF TypeOK, Running
  <1>3. v \in DOMAIN Plan /\ Fetches(Vector) \in Nat /\ Fetches(Vector) >= 1
    BY <1>1, Facts, PlanAssumption, ScriptAssumption DEF Vector
  <1>4. Vector' = Vector /\ Pass(Vector, n') = 1
    BY <1>1 DEF Vector, Pass
  <1>5. /\ double'.table = Tables[v][1] /\ double'.crawl = Vector.crawl
        /\ double'.fetches = Fetches(Vector) /\ double'.servers = <<>>
        /\ double'.resolve = <<>> /\ double.servers = <<>>
        /\ todo' = Needed(double'.table) \ ToSet(double.servers)
    BY <1>1, <1>2 DEF set_routes, Retabled, Idle
  <1>6. Following' /\ Resolving'
    BY <1>1, <1>3, <1>4, <1>5 DEF Following, Resolving
  <1> QED
    BY <1>1, <1>3, <1>4, <1>5, <1>6, TableTaken

LEMMA RecrawlTracked ==
  ASSUME TypeOK, Shaped, Tracked, set_crawl
  PROVE  Tracked'
  <1>1. /\ pc = "recrawling" /\ pc' = "starting" /\ set_routes(2)
        /\ v' = v /\ n' = n /\ Following /\ Resolving
    BY DEF set_crawl, run, call, Tracked
  <1>2. Vector' = Vector /\ n = 2 /\ Pass(Vector, n') = 2 /\ Stages' = Stages
    BY <1>1 DEF Vector, Pass, Following, Stages
  <1>3. /\ double'.table = Tables[v][2] /\ double'.crawl = Vector.crawl
        /\ double'.fetches = Fetches(Vector) /\ double'.servers = double.servers
        /\ double'.resolve = double.resolve
        /\ todo' = Needed(double'.table) \ ToSet(double.servers)
    BY <1>1 DEF set_routes, Retabled, Shaped
  <1>4. Following' /\ Resolving' /\ n' \in 1..Fetches(Vector)
    BY <1>1, <1>2, <1>3 DEF Following, Resolving
  <1> QED
    BY <1>1, <1>2, <1>3, <1>4, TableTaken

\* A listener that starts is one the table needs, and its host resolves to it.
LEMMA ServerTracked ==
  ASSUME TypeOK, Shaped, Tracked, NEW at \in At, _start_server(at)
  PROVE  Tracked'
  <1>1. /\ pc = "starting" /\ pc' = pc /\ v' = v /\ n' = n /\ at \in todo
        /\ todo' = todo \ {at} /\ Following /\ Resolving /\ Presenting
    BY DEF _start_server, Turn, run, call, Tracked
  <1>2. Vector' = Vector /\ Stages' = Stages
    BY <1>1 DEF Vector, Stages
  <1>3. /\ double'.table = double.table /\ double'.crawl = double.crawl
        /\ double'.fetches = double.fetches
        /\ double'.servers = Append(double.servers, at)
        /\ double'.resolve = [h \in DOMAIN double.resolve \cup {at[2]} |->
                                IF h = at[2] THEN at ELSE double.resolve[h]]
        /\ double.servers \in Seq(At)
    BY DEF _start_server, Shaped, TypeOK
  <1>4. /\ DOMAIN double'.servers = DOMAIN double.servers \cup {Len(double.servers) + 1}
        /\ \A i \in DOMAIN double.servers : double'.servers[i] = double.servers[i]
        /\ double'.servers[Len(double.servers) + 1] = at
    BY <1>3
  <1>5. at \in Stages
    <2>1. Fetches(Vector) \in Nat
      BY <1>1, VectorFacts DEF Running
    <2>2. Pass(Vector, n) \in 1..2
      BY <1>1, <2>1, PassOfCase DEF Following
    <2>3. Pass(Vector, n) = 1 \/ Pass(Vector, n) = 2
      BY <2>2
    <2> QED BY <1>1, <2>3 DEF Presenting, Stages
  <1>6. Following'
    BY <1>1, <1>2, <1>3 DEF Following
  <1>7. Resolving'
    <2>1. DOMAIN double'.resolve = DOMAIN double.resolve \cup {at[2]}
      BY <1>3
    <2>2. \A h \in DOMAIN double'.resolve :
            double'.resolve[h] \in Stages' /\ double'.resolve[h][2] = h
      BY <1>1, <1>2, <1>3, <1>5 DEF Resolving
    <2>3. \A i \in DOMAIN double'.servers :
            double'.servers[i] \in Stages' /\ double'.servers[i][2] \in DOMAIN double'.resolve
      BY <1>1, <1>2, <1>4, <1>5, <2>1 DEF Resolving
    <2> QED BY <2>2, <2>3 DEF Resolving
  <1>8. Presenting'
    <2>1. double'.table = Tables'[v'][Pass(Vector', n')]
      BY <1>1, <1>2, <1>3 DEF Presenting
    <2>2. todo' \subseteq Needed(double'.table)
      BY <1>1, <1>3 DEF Presenting
    <2>3. \A a \in Needed(double'.table) \ todo' :
            \E i \in DOMAIN double'.servers : double'.servers[i] = a
      BY <1>1, <1>3, <1>4 DEF Presenting
    <2> QED BY <2>1, <2>2, <2>3 DEF Presenting
  <1> QED
    BY <1>1, <1>6, <1>7, <1>8 DEF Tracked

LEMMA SendTracked ==
  ASSUME TypeOK, Tracked, Send
  PROVE  Tracked'
  <1>1. /\ pc = "starting" /\ pc' = "fetching" /\ UNCHANGED <<v, n, double, todo>>
        /\ fetch' = [resolve |-> double.resolve, at |-> Request, served |-> <<>>]
        /\ Following /\ Resolving /\ Presenting
    BY DEF Send, run, mock, Tracked
  <1>2. Vector' = Vector
    BY <1>1 DEF Vector
  <1>3. Following' /\ Resolving' /\ Presenting'
    BY <1>1, <1>2 DEF Following, Resolving, Presenting, Stages
  <1>4. Place(Vector', n', 1) = Request
    BY <1>1, <1>2 DEF Place, CaseOf, Request
  <1>5. Answering'
    <2>1. fetch'.served = <<>> /\ Len(<<>>) = 0 /\ <<>> \in Seq(Answers')
      BY <1>1
    <2> QED BY <1>1, <1>4, <2>1 DEF Answering
  <1> QED
    BY <1>1, <1>3, <1>5 DEF Tracked

(* The listener that the URL's host resolves to is the one the table has for *)
(* its scheme, and the table answers as the script does.                     *)
LEMMA ServedAsScripted ==
  ASSUME TypeOK, Tracked, pc = "fetching", fetch.at # NoUrl,
         Len(fetch.served) <= Hops
  PROVE  /\ Len(fetch.served) \in Nat
         /\ Len(fetch.served) + 1 \in 1..(Hops + 1)
         /\ Served(fetch.at) = ScriptOf(Vector, n, Len(fetch.served) + 1)
  <1> DEFINE k   == Len(fetch.served) + 1
             url == fetch.at
             at  == <<url.scheme, url.host>>
  <1>1. Following /\ Resolving /\ Presenting /\ Answering /\ pc \in Running
    BY DEF Tracked, Running
  <1>2. Hops \in Nat /\ Len(fetch.served) \in Nat /\ k \in 1..(Hops + 1)
    BY <1>1, VectorFacts DEF Answering
  <1>3. url = Place(Vector, n, k) /\ n \in 1..Fetches(Vector)
        /\ double.table = Tables[v][Pass(Vector, n)]
    BY <1>1 DEF Answering, Following, Presenting
  <1> HIDE DEF k, url
  <1>4. url # NoUrl
    BY DEF url
  <1>5. Key(url) \in DOMAIN double.table /\ double.table[Key(url)] = ScriptOf(Vector, n, k)
    BY <1>1, <1>2, <1>3, <1>4, VectorFacts
  <1>6. at \in Needed(double.table)
    BY <1>5 DEF Needed, Key
  <1>7. todo = {}
    BY DEF TypeOK
  <1>8. PICK i \in DOMAIN double.servers : double.servers[i] = at
    BY <1>1, <1>6, <1>7 DEF Presenting
  <1>9. /\ at \in Stages /\ url.host \in DOMAIN fetch.resolve
        /\ fetch.resolve[url.host] \in Stages
        /\ fetch.resolve[url.host][2] = at[2]
    BY <1>1, <1>8 DEF Resolving, Answering
  <1>10. fetch.resolve[url.host] = at
    BY <1>1, <1>9, VectorFacts
  <1>11. Served(url) = double.table[Key(url)]
    BY <1>5, <1>9, <1>10 DEF Served, Lookup
  <1> QED
    BY <1>2, <1>5, <1>11 DEF k, url

LEMMA GetTracked ==
  ASSUME TypeOK, Tracked, do_GET
  PROVE  Tracked'
  <1> DEFINE k == Len(fetch.served) + 1
             a == ScriptOf(Vector, n, k)
  <1>1. /\ pc = "fetching" /\ UNCHANGED <<pc, v, n, double, todo>>
        /\ fetch.at # NoUrl /\ Len(fetch.served) <= Hops
        /\ Following /\ Resolving /\ Presenting /\ Answering
    BY DEF do_GET, run, mock, Tracked
  <1>2. /\ Vector' = Vector /\ Answers' = Answers
        /\ Following' /\ Resolving' /\ Presenting'
    BY <1>1 DEF Following, Resolving, Presenting, Stages, Vector, Answers
  <1>3. Len(fetch.served) \in Nat /\ k \in 1..(Hops + 1) /\ Served(fetch.at) = a
    BY <1>1, ServedAsScripted
  <1>4. a \in Answers
    BY <1>3 DEF Answers
  <1>5. /\ fetch' = [resolve |-> fetch.resolve, at |-> a.location,
                     served |-> Append(fetch.served, a)]
        /\ fetch.served \in Seq(Answers)
    <2>1. fetch' = [fetch EXCEPT !.served = Append(@, a), !.at = a.location]
      BY <1>3 DEF do_GET
    <2>2. fetch = [resolve |-> fetch.resolve, at |-> fetch.at, served |-> fetch.served]
      BY <1>1 DEF Answering
    <2> HIDE DEF a
    <2> QED BY <1>1, <2>1, <2>2 DEF Answering
  <1>6. /\ fetch'.served \in Seq(Answers) /\ Len(fetch'.served) = k
        /\ DOMAIN fetch'.served = 1..k /\ fetch'.served[k] = a
        /\ \A j \in 1..k : j # k => /\ j \in DOMAIN fetch.served
                                    /\ fetch'.served[j] = fetch.served[j]
    <2> HIDE DEF a
    <2> QED BY <1>4, <1>5
  <1>7. Place(Vector, n, k + 1) = a.location
    BY <1>3 DEF Place
  <1>8. \A j \in DOMAIN fetch'.served : fetch'.served[j] = ScriptOf(Vector, n, j)
    BY <1>1, <1>6 DEF Answering
  <1>9. Answering'
    <2> HIDE DEF a, k
    <2> QED BY <1>1, <1>2, <1>5, <1>6, <1>7, <1>8 DEF Answering
  <1> QED
    BY <1>1, <1>2, <1>9 DEF Tracked

\* The next case begins with the listeners there are; a crawl is set first.
LEMMA FetchedTracked ==
  ASSUME TypeOK, Tracked, Answered \/ TimedOut
  PROVE  Tracked'
  <1>1. /\ pc = "fetching" /\ Fetched /\ UNCHANGED <<v, double, todo>>
        /\ Following /\ Resolving /\ Presenting /\ pc \in Running
    BY DEF Answered, TimedOut, run, mock, Tracked, Running
  <1>2. Vector' = Vector /\ Stages' = Stages
    BY <1>1 DEF Vector, Stages
  <1>3. Resolving'
    BY <1>1, <1>2 DEF Resolving
  <1>4. CASE n < double.fetches
    <2>1. /\ n' = n + 1 /\ pc' = IF Vector.crawl THEN "recrawling" ELSE "starting"
          /\ n \in 1..Fetches(Vector) /\ n < Fetches(Vector) /\ Fetches(Vector) \in Nat
      BY <1>1, <1>4, VectorFacts DEF Fetched, Following
    <2>2. Vector.crawl => n = 1
      BY <2>1 DEF Fetches
    <2>3. Following'
      BY <1>1, <1>2, <2>1, <2>2 DEF Following
    <2>4. CASE Vector.crawl
      BY <1>3, <2>1, <2>3, <2>4 DEF Tracked
    <2>5. CASE ~Vector.crawl
      <3>1. Pass(Vector, n) = 1 /\ Pass(Vector', n') = 1
        BY <1>2, <2>5 DEF Pass
      <3>2. Presenting'
        BY <1>1, <3>1 DEF Presenting
      <3> QED BY <1>3, <2>1, <2>3, <2>5, <3>2 DEF Tracked
    <2> QED BY <2>4, <2>5
  <1>5. CASE ~(n < double.fetches)
    <2>1. pc' = "closing"
      BY <1>1, <1>5 DEF Fetched
    <2> QED BY <2>1 DEF Tracked
  <1> QED
    BY <1>4, <1>5

LEMMA TrackedInit == Init => Tracked
  BY DEF Init, Tracked

LEMMA TrackedStep == IInv /\ Tracked /\ [Next]_vars => Tracked'
  <1> SUFFICES ASSUME IInv, Tracked, [Next]_vars PROVE Tracked'
    OBVIOUS
  <1>0. TypeOK /\ Shaped
    BY DEF IInv
  <1>1. CASE NoAuthority \/ Authority \/ AuthorityFails \/ NoDouble \/ Closed \/ Cleanup
    <2>1. pc' \in {"between", "end"}
      BY <1>1 DEF NoAuthority, Authority, AuthorityFails, NoDouble, Closed, Cleanup,
                  VectorOver
    <2> QED BY <2>1 DEF Tracked
  <1>2. CASE CloseServer \/ \E at \in At : StartFails(at)
    <2>1. pc' \in {"between", "closing"}
      BY <1>2 DEF CloseServer, StartFails, VectorOver
    <2> QED BY <2>1 DEF Tracked
  <1>3. CASE HalfOpen \/ LetGo \/ Ended \/ UNCHANGED vars
    <2>1. UNCHANGED <<pc, v, n, double, todo, fetch>>
      BY <1>3 DEF HalfOpen, LetGo, Ended, vars, run, mock, call
    <2>2. Vector' = Vector /\ Stages' = Stages
      BY <2>1 DEF Vector, Stages
    <2>3. Answers' = Answers
      BY <2>1, <2>2 DEF Answers
    <2> QED
      BY <2>1, <2>2, <2>3 DEF Tracked, Following, Resolving, Presenting, Answering
  <1> QED
    BY <1>0, <1>1, <1>2, <1>3, StartTracked, RecrawlTracked, ServerTracked,
       SendTracked, GetTracked, FetchedTracked DEF Next, Runner

-----------------------------------------------------------------------------
(* What holds in every run, with any plan and any adapter. *)

\* The type invariant: nothing of a double is left between two vectors.
THEOREM TypeCorrect == Spec => []TypeOK
  <1>1. IInv => TypeOK
    BY DEF IInv
  <1> QED
    BY InitInv, StepInv, <1>1, PTL DEF Spec

\* Every listener is of the vector under way, or of one whose start failed.
THEOREM OneDoubleAtATime == Spec => []OneDouble
  <1>1. IInv => OneDouble
    BY DEF IInv
  <1> QED
    BY InitInv, StepInv, <1>1, PTL DEF Spec

\* The CA is there while a double is, and gone at the end of the run.
THEOREM CaLives == Spec => []CaLifetime
  <1>1. IInv => CaLifetime
    BY DEF IInv, Based, CaLifetime, Running
  <1> QED
    BY InitInv, StepInv, <1>1, PTL DEF Spec

(* What the vectors mean to present is what a client is shown: every answer  *)
(* of a fetch is the step its script has there, over a listener that speaks  *)
(* the scheme of the URL, whatever case or pass came before.                 *)
THEOREM ScriptIsServed == Spec => []ScriptServed
  <1>1. Init => IInv /\ Tracked
    BY InitInv, TrackedInit
  <1>2. IInv /\ Tracked /\ [Next]_vars => (IInv /\ Tracked)'
    BY StepInv, TrackedStep
  <1>3. IInv /\ Tracked => ScriptServed
    BY DEF Tracked, Answering, ScriptServed, ScriptOf, Case, Steps
  <1> QED
    BY <1>1, <1>2, <1>3, PTL DEF Spec
=============================================================================
