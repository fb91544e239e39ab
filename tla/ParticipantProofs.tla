------------------------- MODULE ParticipantProofs -------------------------
(***************************************************************************)
(* Proofs about the participant, for a registry of any size and any number *)
(* of failing component calls and of lives.                                *)
(***************************************************************************)
EXTENDS Participant, SequenceTheorems, TLAPS

(* The lists of jobs that are left of an entry handler, named by the state  *)
(* that is entered and their length; every handler ends with P.             *)
P  == <<"Publish">>
I2 == <<"Clear", "Publish">>
I3 == <<"deinitializing", "Clear", "Publish">>
I4 == <<"Disable", "deinitializing", "Clear", "Publish">>
I5 == <<"stop", "Disable", "deinitializing", "Clear", "Publish">>
E2 == <<"deinitializing", "Publish">>
E3 == <<"Disable", "deinitializing", "Publish">>
E4 == <<"stop", "Disable", "deinitializing", "Publish">>
N2 == <<"initializing", "Publish">>
N3 == <<"Configure", "initializing", "Publish">>
R2 == <<"Enable", "Publish">>
G2 == <<"start", "Publish">>
G3 == <<"StartMappingEngine", "start", "Publish">>

(* Those that can be left in a state.                                       *)
LeftIn(s) == {<<>>, P} \cup
  (IF s = "IDLE" THEN {I2, I3, I4, I5}
   ELSE IF s = "ERROR" THEN {E2, E3, E4}
   ELSE IF s = "INITIALIZING" THEN {N2, N3}
   ELSE IF s = "READY" THEN {R2}
   ELSE IF s = "RUNNING" THEN {G2, G3} ELSE {})

Job(list) == IF list = <<>> THEN "none" ELSE Head(list)

-----------------------------------------------------------------------------
(* What is left to do belongs to the state that is entered.                 *)
JobsInv ==
  /\ jobs \in LeftIn(state)
  /\ pc # "entry" => jobs = <<>>
  /\ pc = "request" => state = "INITIALIZING" /\ target = "READY"
  /\ pc = "creating" => state = "STARTUP"
  /\ pc = "destroying" => state = "SHUTDOWN"
  /\ pc = "none" => state \in {"STARTUP", "SHUTDOWN"}

(* A sweep is the one that the current operation began.                     *)
Expected == IF pc = "creating" THEN "create"
            ELSE IF pc = "request" THEN "ready"
            ELSE IF pc = "destroying" THEN "destroy"
            ELSE IF pc = "entry" /\ Job(jobs) \notin Simple THEN Job(jobs)
            ELSE "none"

SweepInv ==
  /\ sweep = NoSweep \/ (sweep.op # "none" /\ sweep.op = Expected)
  /\ pc \in {"creating", "request", "destroying"} => sweep # NoSweep
  /\ sweep.op \in Raising /\ ~sweep.back => sweep.at >= 1
  /\ sweep.op \in Raising /\ sweep.back => sweep.at <= Entries /\ failures > 0
  /\ sweep.op \in Lowering => ~sweep.back /\ sweep.at <= Entries

(* The objects that run all have an entry up to k.                          *)
RunUpTo(k) == \A i \in 1..Entries : comp[Object[i]] = "started" =>
                \E m \in 1..Entries : m <= k /\ Object[m] = Object[i]
RunFrom1To(k) == \A m \in 1..Entries : m <= k => comp[Object[m]] = "started"

NoneRuns == \A o \in Objects : comp[o] # "started"
AllRun   == \A o \in Objects : comp[o] = "started"

(* What runs, by what is going on.                                          *)
RunInv ==
  /\ StartedInOrder
  /\ sweep.op = "start" /\ ~sweep.back
       => RunUpTo(sweep.at - 1) /\ RunFrom1To(sweep.at - 1)
  /\ sweep.op = "start" /\ sweep.back => RunUpTo(sweep.at)
  /\ sweep.op = "stop" => RunUpTo(sweep.at)
  /\ state # "RUNNING" /\ Job(jobs) # "stop" => NoneRuns
  /\ state = "RUNNING" /\ Job(jobs) = "StartMappingEngine" => NoneRuns
  /\ state = "RUNNING" /\ Job(jobs) = "start" /\ sweep = NoSweep => NoneRuns
  /\ state = "RUNNING" /\ Job(jobs) \in {"Publish", "none"}
       => NoneRuns \/ AllRun

(* What is switched on, by state and what is left to do.                    *)
BusInv ==
  bus <=> \/ state = "RUNNING"
          \/ state = "READY" /\ Job(jobs) # "Enable"
          \/ Job(jobs) \in {"stop", "Disable"}
RegistrationInv ==
  ~skipped => (registration <=>
    ~(state = "RUNNING" \/ (state = "READY" /\ Job(jobs) # "Enable")))
MappingInv ==
  ~skipped => (mapping <=>
    state = "RUNNING" /\ Job(jobs) # "StartMappingEngine")
ConfiguredInv ==
  \/ state = "STARTUP"
  \/ state = "IDLE" /\ Job(jobs) \in {"Publish", "none"}
  => ~configured
ResourceInv == BusInv /\ RegistrationInv /\ MappingInv /\ ConfiguredInv

(* What is shown is the state, or its entry was given up.                   *)
ShownInv ==
  Job(jobs) = "none" /\ shown # state =>
    state \in {"INITIALIZING", "RUNNING"} /\ failures > 0 /\ NoneRuns

PInv == TypeOK /\ JobsInv /\ SweepInv /\ RunInv /\ ResourceInv /\ ShownInv

-----------------------------------------------------------------------------
(* The lists, one job after the other.                                      *)
LEMMA Lists ==
  /\ P # <<>> /\ Head(P) = "Publish" /\ Tail(P) = <<>>
  /\ I2 # <<>> /\ Head(I2) = "Clear" /\ Tail(I2) = P
  /\ I3 # <<>> /\ Head(I3) = "deinitializing" /\ Tail(I3) = I2
  /\ I4 # <<>> /\ Head(I4) = "Disable" /\ Tail(I4) = I3
  /\ I5 # <<>> /\ Head(I5) = "stop" /\ Tail(I5) = I4
  /\ E2 # <<>> /\ Head(E2) = "deinitializing" /\ Tail(E2) = P
  /\ E3 # <<>> /\ Head(E3) = "Disable" /\ Tail(E3) = E2
  /\ E4 # <<>> /\ Head(E4) = "stop" /\ Tail(E4) = E3
  /\ N2 # <<>> /\ Head(N2) = "initializing" /\ Tail(N2) = P
  /\ N3 # <<>> /\ Head(N3) = "Configure" /\ Tail(N3) = N2
  /\ R2 # <<>> /\ Head(R2) = "Enable" /\ Tail(R2) = P
  /\ G2 # <<>> /\ Head(G2) = "start" /\ Tail(G2) = P
  /\ G3 # <<>> /\ Head(G3) = "StartMappingEngine" /\ Tail(G3) = G2
BY DEF P, I2, I3, I4, I5, E2, E3, E4, N2, N3, R2, G2, G3

(* Short lists are joined by writing one after the other.                   *)
LEMMA Joined ==
  /\ \A a, b : <<a>> \o <<b>> = <<a, b>>
  /\ \A a, b, c : <<a, b>> \o <<c>> = <<a, b, c>>
  /\ \A a, b, c : <<a>> \o <<b, c>> = <<a, b, c>>
  /\ \A a, b, c, d : <<a, b, c>> \o <<d>> = <<a, b, c, d>>
  /\ \A a, b, c, d, e : <<a, b, c, d>> \o <<e>> = <<a, b, c, d, e>>
<1>1. ASSUME NEW a, NEW b
      PROVE  <<a>> \o <<b>> = <<a, b>>
  <2>1. <<a>> \in Seq({a, b}) /\ <<b>> \in Seq({a, b})
    OBVIOUS
  <2>2. Len(<<a>>) = 1 /\ Len(<<b>>) = 1
    OBVIOUS
  <2>. SUFFICES ASSUME NEW u, u = <<a>> \o <<b>> PROVE u = <<a, b>>
    OBVIOUS
  <2>3. /\ u \in Seq({a, b}) /\ Len(u) = 2
        /\ u[1] = a /\ u[2] = b
    BY <2>1, <2>2, ConcatProperties
  <2>. QED BY ONLY <2>3
<1>2. ASSUME NEW a, NEW b, NEW c
      PROVE  <<a, b>> \o <<c>> = <<a, b, c>>
  <2>1. <<a, b>> \in Seq({a, b, c}) /\ <<c>> \in Seq({a, b, c})
    OBVIOUS
  <2>2. Len(<<a, b>>) = 2 /\ Len(<<c>>) = 1
    OBVIOUS
  <2>. SUFFICES ASSUME NEW u, u = <<a, b>> \o <<c>> PROVE u = <<a, b, c>>
    OBVIOUS
  <2>3. /\ u \in Seq({a, b, c}) /\ Len(u) = 3
        /\ u[1] = a /\ u[2] = b /\ u[3] = c
    BY <2>1, <2>2, ConcatProperties
  <2>. QED BY ONLY <2>3
<1>3. ASSUME NEW a, NEW b, NEW c
      PROVE  <<a>> \o <<b, c>> = <<a, b, c>>
  <2>1. <<a>> \in Seq({a, b, c}) /\ <<b, c>> \in Seq({a, b, c})
    OBVIOUS
  <2>2. Len(<<a>>) = 1 /\ Len(<<b, c>>) = 2
    OBVIOUS
  <2>. SUFFICES ASSUME NEW u, u = <<a>> \o <<b, c>> PROVE u = <<a, b, c>>
    OBVIOUS
  <2>3. /\ u \in Seq({a, b, c}) /\ Len(u) = 3
        /\ u[1] = a /\ u[2] = b /\ u[3] = c
    BY <2>1, <2>2, ConcatProperties
  <2>. QED BY ONLY <2>3
<1>4. ASSUME NEW a, NEW b, NEW c, NEW d
      PROVE  <<a, b, c>> \o <<d>> = <<a, b, c, d>>
  <2>1. <<a, b, c>> \in Seq({a, b, c, d}) /\ <<d>> \in Seq({a, b, c, d})
    OBVIOUS
  <2>2. Len(<<a, b, c>>) = 3 /\ Len(<<d>>) = 1
    OBVIOUS
  <2>. SUFFICES ASSUME NEW u, u = <<a, b, c>> \o <<d>> PROVE u = <<a, b, c, d>>
    OBVIOUS
  <2>3. /\ u \in Seq({a, b, c, d}) /\ Len(u) = 4
        /\ u[1] = a /\ u[2] = b /\ u[3] = c /\ u[4] = d
    BY <2>1, <2>2, ConcatProperties
  <2>. QED BY ONLY <2>3
<1>5. ASSUME NEW a, NEW b, NEW c, NEW d, NEW e
      PROVE  <<a, b, c, d>> \o <<e>> = <<a, b, c, d, e>>
  <2>1. <<a, b, c, d>> \in Seq({a, b, c, d, e}) /\ <<e>> \in Seq({a, b, c, d, e})
    OBVIOUS
  <2>2. Len(<<a, b, c, d>>) = 4 /\ Len(<<e>>) = 1
    OBVIOUS
  <2>. SUFFICES ASSUME NEW u, u = <<a, b, c, d>> \o <<e>> PROVE u = <<a, b, c, d, e>>
    OBVIOUS
  <2>3. /\ u \in Seq({a, b, c, d, e}) /\ Len(u) = 5
        /\ u[1] = a /\ u[2] = b /\ u[3] = c /\ u[4] = d /\ u[5] = e
    BY <2>1, <2>2, ConcatProperties
  <2>. QED BY ONLY <2>3
<1>. QED BY <1>1, <1>2, <1>3, <1>4, <1>5

(* Lists are put together from parts, of which some are empty.              *)
LEMMA Parts ==
  /\ <<"Clear">> \o P = I2
  /\ <<"Configure", "initializing">> \o P = N3
  /\ <<"Enable">> \o P = R2
  /\ <<"StartMappingEngine", "start">> \o P = G3
  /\ <<"Disable", "deinitializing">> \o P = E3
  /\ (<<"Disable", "deinitializing">> \o <<"Clear">>) \o P = I4
  /\ <<"stop">> \o <<"Disable", "deinitializing">>
       = <<"stop", "Disable", "deinitializing">>
  /\ <<"stop", "Disable", "deinitializing">> \o P = E4
  /\ (<<"stop", "Disable", "deinitializing">> \o <<"Clear">>) \o P = I5
<1>. DEFINE D == "Disable" dd == "deinitializing" C == "Clear" pp == "Publish"
            cc == "Configure" ii == "initializing" ss == "stop" e == "Enable"
            m == "StartMappingEngine" st == "start"
<1>. HIDE DEF D, dd, C, pp, cc, ii, ss, e, m, st
<1>2. <<C>> \o <<pp>> = <<C, pp>> /\ <<e>> \o <<pp>> = <<e, pp>>
  BY Joined
<1>3. <<cc, ii>> \o <<pp>> = <<cc, ii, pp>>
  BY Joined
<1>4. <<m, st>> \o <<pp>> = <<m, st, pp>>
  BY Joined
<1>5. <<D, dd>> \o <<pp>> = <<D, dd, pp>>
  BY Joined
<1>6. (<<D, dd>> \o <<C>>) \o <<pp>> = <<D, dd, C, pp>>
  <2>1. <<D, dd>> \o <<C>> = <<D, dd, C>>
    BY Joined
  <2>2. <<D, dd, C>> \o <<pp>> = <<D, dd, C, pp>>
    BY Joined
  <2>. QED BY ONLY <2>1, <2>2, Zenon
<1>7. <<ss>> \o <<D, dd>> = <<ss, D, dd>>
  BY Joined
<1>8. <<ss, D, dd>> \o <<pp>> = <<ss, D, dd, pp>>
  BY Joined
<1>9. (<<ss, D, dd>> \o <<C>>) \o <<pp>> = <<ss, D, dd, C, pp>>
  <2>1. <<ss, D, dd>> \o <<C>> = <<ss, D, dd, C>>
    BY Joined
  <2>2. <<ss, D, dd, C>> \o <<pp>> = <<ss, D, dd, C, pp>>
    BY Joined
  <2>. QED BY ONLY <2>1, <2>2, Zenon
<1>. QED BY <1>2, <1>3, <1>4, <1>5, <1>6, <1>7, <1>8, <1>9, Zenon
         DEF D, dd, C, pp, cc, ii, ss, e, m, st,
             P, I2, I4, I5, E3, E4, N3, R2, G3

(* The entry handlers of the changes in the table.                          *)
LEMMA Handlers ==
  ASSUME NEW old \in States, NEW new \in States, NEW tr \in Transitions,
         <<old, tr, new>> \in Table
  PROVE  /\ old \notin {"READY", "RUNNING"} /\ new \in {"STARTUP", "ERROR"}
              => EntryJobs(old, new) = P
         /\ new = "SHUTDOWN" => EntryJobs(old, new) = P
         /\ old = "STARTUP" => EntryJobs(old, new) = P
         /\ old \in {"INITIALIZING", "ERROR"} /\ new = "IDLE"
              => EntryJobs(old, new) = I2
         /\ old = "READY" /\ new = "IDLE" => EntryJobs(old, new) = I4
         /\ old = "RUNNING" /\ new = "IDLE" => EntryJobs(old, new) = I5
         /\ old = "READY" /\ new = "ERROR" => EntryJobs(old, new) = E3
         /\ old = "RUNNING" /\ new = "ERROR" => EntryJobs(old, new) = E4
         /\ new = "INITIALIZING" => EntryJobs(old, new) = N3
         /\ new = "READY" => EntryJobs(old, new) = R2
         /\ new = "RUNNING" => EntryJobs(old, new) = G3
<1>. DEFINE A == When(new \in {"IDLE", "ERROR"},
                      When(old = "RUNNING", <<"stop">>)
                        \o When(old \in Transmitting,
                                <<"Disable", "deinitializing">>))
            B == When(new = "IDLE" /\ old # "STARTUP", <<"Clear">>)
            C == When(new = "INITIALIZING", <<"Configure", "initializing">>)
            D == When(new = "READY", <<"Enable">>)
            E == When(new = "RUNNING", <<"StartMappingEngine", "start">>)
            nil == <<>>
            b == <<"Clear">>
            c == <<"Configure", "initializing">>
            d == <<"Enable">>
            e == <<"StartMappingEngine", "start">>
            a1 == <<"Disable", "deinitializing">>
            a2 == <<"stop", "Disable", "deinitializing">>
<1>1. EntryJobs(old, new) = A \o B \o C \o D \o E \o P
  BY DEF EntryJobs, P
<1>2. /\ b \in Seq(Jobs) /\ c \in Seq(Jobs) /\ d \in Seq(Jobs) /\ e \in Seq(Jobs)
      /\ a1 \in Seq(Jobs) /\ a2 \in Seq(Jobs) /\ nil \in Seq(Jobs)
      /\ P \in Seq(Jobs)
  BY DEF Jobs, Simple, P
<1>3. /\ b \o P = I2 /\ c \o P = N3 /\ d \o P = R2 /\ e \o P = G3
      /\ a1 \o P = E3 /\ a2 \o P = E4 /\ (a1 \o b) \o P = I4
      /\ (a2 \o b) \o P = I5 /\ <<"stop">> \o a1 = a2
  BY Parts
<1>4. \A s \in Seq(Jobs) : nil \o s = s /\ s \o nil = s
  BY ConcatEmptySeq
<1>5. a1 \o b \in Seq(Jobs) /\ a2 \o b \in Seq(Jobs)
  BY <1>2, ConcatProperties
<1>6. /\ new \notin {"IDLE", "ERROR"} => A = nil
      /\ old \notin Transmitting => A = nil
      /\ new \in {"IDLE", "ERROR"} /\ old = "READY" => A = a1
      /\ new \in {"IDLE", "ERROR"} /\ old = "RUNNING" => A = a2
  <2>1. CASE new \notin {"IDLE", "ERROR"}
    BY <2>1 DEF When
  <2>2. CASE new \in {"IDLE", "ERROR"} /\ old \notin Transmitting
    <3>1. A = nil \o nil
      BY <2>2 DEF When, Transmitting
    <3>. QED BY <1>2, <1>4, <2>2, <3>1 DEF Transmitting
  <2>3. CASE new \in {"IDLE", "ERROR"} /\ old = "READY"
    <3>1. A = nil \o a1
      BY <2>3 DEF When, Transmitting
    <3>. HIDE DEF A, nil, a1
    <3>. QED BY <1>2, <1>4, <2>3, <3>1 DEF Transmitting
  <2>4. CASE new \in {"IDLE", "ERROR"} /\ old = "RUNNING"
    <3>1. A = <<"stop">> \o a1
      BY <2>4 DEF When, Transmitting
    <3>. HIDE DEF A, nil, a1, a2
    <3>. QED BY <1>3, <2>4, <3>1 DEF Transmitting
  <2>. QED BY <2>1, <2>2, <2>3, <2>4 DEF Transmitting
<1>7. /\ B = IF new = "IDLE" /\ old # "STARTUP" THEN b ELSE nil
      /\ C = IF new = "INITIALIZING" THEN c ELSE nil
      /\ D = IF new = "READY" THEN d ELSE nil
      /\ E = IF new = "RUNNING" THEN e ELSE nil
  BY DEF When
<1>8. /\ old = "STARTUP" => new \in {"IDLE", "SHUTDOWN"}
      /\ new = "IDLE" => old # "IDLE"
  BY DEF Table, States
<1>9. /\ nil \o nil = nil /\ nil \o P = P /\ nil \o b = b /\ b \o nil = b
      /\ nil \o c = c /\ c \o nil = c /\ nil \o d = d /\ d \o nil = d
      /\ nil \o e = e /\ a1 \o nil = a1 /\ a2 \o nil = a2
      /\ (a1 \o b) \o nil = a1 \o b /\ (a2 \o b) \o nil = a2 \o b
  <2>. HIDE DEF nil, b, c, d, e, a1, a2
  <2>. QED BY <1>2, <1>4, <1>5
<1>. HIDE DEF A, B, C, D, E, nil, a1, a2, b, c, d, e
<1>10. CASE new \in {"STARTUP", "SHUTDOWN"}
  BY ONLY <1>1, <1>6, <1>7, <1>9, <1>10
<1>11. CASE new = "INITIALIZING"
  BY ONLY <1>1, <1>3, <1>6, <1>7, <1>8, <1>9, <1>11
<1>12. CASE new = "READY"
  BY ONLY <1>1, <1>3, <1>6, <1>7, <1>8, <1>9, <1>12
<1>13. CASE new = "RUNNING"
  BY ONLY <1>1, <1>3, <1>6, <1>7, <1>8, <1>9, <1>13
<1>14. CASE new = "ERROR"
  BY ONLY <1>1, <1>3, <1>6, <1>7, <1>8, <1>9, <1>14 DEF Transmitting
<1>15. CASE new = "IDLE"
  BY ONLY ZenonT(30), <1>1, <1>3, <1>6, <1>7, <1>8, <1>9, <1>15 DEF Transmitting
<1>. QED BY <1>10, <1>11, <1>12, <1>13, <1>14, <1>15 DEF States

(* The job that is next, in each state.                                     *)
LEMMA NextJobs ==
  ASSUME NEW s \in States, NEW list \in LeftIn(s)
  PROVE  /\ list \in Seq(Jobs)
         /\ list = <<>> <=> Job(list) = "none"
         /\ list # <<>> => Job(list) = Head(list)
         /\ Job(list) \in {"none", "Publish"} \cup
              (IF s = "IDLE" THEN {"stop", "Disable", "deinitializing", "Clear"}
               ELSE IF s = "ERROR" THEN {"stop", "Disable", "deinitializing"}
               ELSE IF s = "INITIALIZING" THEN {"Configure", "initializing"}
               ELSE IF s = "READY" THEN {"Enable"}
               ELSE IF s = "RUNNING" THEN {"StartMappingEngine", "start"}
               ELSE {})
<1>1. /\ P \in Seq(Jobs) /\ I2 \in Seq(Jobs) /\ I3 \in Seq(Jobs)
      /\ I4 \in Seq(Jobs) /\ I5 \in Seq(Jobs) /\ <<>> \in Seq(Jobs)
  BY DEF P, I2, I3, I4, I5, Jobs, Simple
<1>2. /\ E2 \in Seq(Jobs) /\ E3 \in Seq(Jobs) /\ E4 \in Seq(Jobs)
      /\ N2 \in Seq(Jobs) /\ N3 \in Seq(Jobs) /\ R2 \in Seq(Jobs)
      /\ G2 \in Seq(Jobs) /\ G3 \in Seq(Jobs)
  BY DEF E2, E3, E4, N2, N3, R2, G2, G3, Jobs, Simple
<1>. HIDE DEF P, I2, I3, I4, I5, E2, E3, E4, N2, N3, R2, G2, G3
<1>3. list \in Seq(Jobs)
  BY <1>1, <1>2 DEF LeftIn
<1>4. list = <<>> <=> Job(list) = "none"
  BY Lists DEF LeftIn, Job
<1>5. CASE s = "IDLE"
  BY SMTT(30), <1>3, <1>4, <1>5, Lists DEF LeftIn, Job
<1>6. CASE s = "ERROR"
  BY <1>3, <1>4, <1>6, Lists DEF LeftIn, Job
<1>7. CASE s = "INITIALIZING"
  BY <1>3, <1>4, <1>7, Lists DEF LeftIn, Job
<1>8. CASE s = "READY"
  BY <1>3, <1>4, <1>8, Lists DEF LeftIn, Job
<1>9. CASE s = "RUNNING"
  BY <1>3, <1>4, <1>9, Lists DEF LeftIn, Job
<1>10. CASE s \in {"STARTUP", "SHUTDOWN"}
  BY <1>3, <1>4, <1>10, Lists DEF LeftIn, Job
<1>. QED BY <1>5, <1>6, <1>7, <1>8, <1>9, <1>10 DEF States

(* What is left when a job is done.                                         *)
LEMMA JobDone ==
  ASSUME NEW s \in States, NEW list \in LeftIn(s), list # <<>>
  PROVE  /\ Tail(list) \in LeftIn(s)
         /\ Job(list) = "stop" => Job(Tail(list)) = "Disable"
         /\ Job(list) = "Disable" => Job(Tail(list)) = "deinitializing"
         /\ Job(list) = "deinitializing" =>
              Job(Tail(list)) = IF s = "IDLE" THEN "Clear" ELSE "Publish"
         /\ Job(list) = "Clear" => Job(Tail(list)) = "Publish"
         /\ Job(list) = "Configure" => Job(Tail(list)) = "initializing"
         /\ Job(list) = "initializing" => Job(Tail(list)) = "Publish"
         /\ Job(list) = "Enable" => Job(Tail(list)) = "Publish"
         /\ Job(list) = "StartMappingEngine" => Job(Tail(list)) = "start"
         /\ Job(list) = "start" => Job(Tail(list)) = "Publish"
         /\ Job(list) = "Publish" => Job(Tail(list)) = "none"
BY ZenonT(30), Lists DEF LeftIn, Job

(* What a change of the state leaves to do.                                 *)
LEMMA JobsOfChange ==
  ASSUME NEW old \in States, NEW new \in States, NEW tr \in Transitions,
         <<old, tr, new>> \in Table
  PROVE  /\ EntryJobs(old, new) \in LeftIn(new)
         /\ old # "SHUTDOWN"
         /\ new = "READY" => old = "INITIALIZING"
         /\ new = "RUNNING" => old = "READY"
         /\ new = "STARTUP" => old = "IDLE"
         /\ new = "INITIALIZING" => old = "IDLE"
         /\ Job(EntryJobs(old, new)) =
              IF new = "READY" THEN "Enable"
              ELSE IF new = "RUNNING" THEN "StartMappingEngine"
              ELSE IF new = "INITIALIZING" THEN "Configure"
              ELSE IF old = "RUNNING" THEN "stop"
              ELSE IF old = "READY" THEN "Disable"
              ELSE IF new = "IDLE" /\ old # "STARTUP" THEN "Clear"
              ELSE "Publish"
<1>1. /\ new = "READY" => old = "INITIALIZING"
      /\ new = "RUNNING" => old = "READY"
      /\ new = "STARTUP" => old = "IDLE"
      /\ new = "INITIALIZING" => old = "IDLE"
      /\ new = "IDLE" => old # "IDLE" /\ old # "SHUTDOWN"
      /\ new = "SHUTDOWN" => old \notin {"READY", "RUNNING"}
      /\ old = "STARTUP" => new \in {"IDLE", "SHUTDOWN"}
      /\ old # "SHUTDOWN"
  BY DEF Table, States
<1>. HIDE DEF P, I2, I3, I4, I5, E2, E3, E4, N2, N3, R2, G2, G3
<1>. QED BY SMTT(30), <1>1, Handlers, Lists DEF LeftIn, Job, States

-----------------------------------------------------------------------------
(* A call takes an object to a phase, which is "started" only after start.  *)
LEMMA Calls ==
  ASSUME NEW op \in Raising \cup Lowering, NEW phase \in Phases
  PROVE  /\ After(op, phase) \in Phases
         /\ After(op, phase) = "started" <=> op = "start"
BY DEF After, Raising, Lowering, Phases

(* The entry k is stopped when nothing runs beyond it: what still runs has  *)
(* an entry below k.  That the entries of an object are next to each other  *)
(* is what keeps the order.                                                 *)
LEMMA Stops ==
  ASSUME comp \in [Objects -> Phases], StartedInOrder, NEW k \in 1..Entries,
         RunUpTo(k), NEW phase \in Phases, phase # "started",
         comp' = [comp EXCEPT ![Object[k]] = phase]
  PROVE  StartedInOrder' /\ RunUpTo(k - 1)'
<1>1. Object \in [1..Entries -> Objects] /\ Entries \in Nat
  BY RegistryAssumption
<1>2. ASSUME NEW i \in 1..Entries, comp'[Object[i]] = "started"
      PROVE  /\ Object[i] # Object[k] /\ comp[Object[i]] = "started"
             /\ \E m \in 1..Entries : m <= k - 1 /\ Object[m] = Object[i]
  <2>1. Object[i] # Object[k] /\ comp[Object[i]] = "started"
    BY <1>1, <1>2
  <2>2. PICK m \in 1..Entries : m <= k /\ Object[m] = Object[i]
    BY <2>1 DEF RunUpTo
  <2>3. m # k
    BY <2>1, <2>2
  <2>. QED BY <1>1, <2>1, <2>2, <2>3
<1>3. RunUpTo(k - 1)'
  BY <1>2 DEF RunUpTo
<1>4. ASSUME NEW i \in 1..Entries, NEW j \in 1..Entries, j < i,
             comp'[Object[i]] = "started"
      PROVE  comp'[Object[j]] = "started"
  <2>1. Object[i] # Object[k] /\ comp[Object[j]] = "started"
    BY <1>2, <1>4 DEF StartedInOrder
  <2>2. PICK m \in 1..Entries : m <= k - 1 /\ Object[m] = Object[i]
    BY <1>2, <1>4
  <2>3. Object[j] # Object[k]
    <3>1. CASE m <= j
      <4>1. Object[j] = Object[m]
        BY ONLY <1>1, <1>4, <2>2, <3>1, RegistryAssumption
      <4>. QED BY <2>1, <2>2, <4>1
    <3>2. CASE j < m
      <4>1. Object[j] = Object[k] => Object[m] = Object[j]
        BY ONLY <1>1, <2>2, <3>2, RegistryAssumption, j \in 1..Entries,
                k \in 1..Entries
      <4>. QED BY <2>1, <2>2, <4>1
    <3>. QED BY <1>1, <3>1, <3>2
  <2>. QED BY <1>1, <2>1, <2>3
<1>. QED BY <1>3, <1>4 DEF StartedInOrder

(* The entry k is started when all before it run and nothing beyond.        *)
LEMMA Starts ==
  ASSUME comp \in [Objects -> Phases], NEW k \in 1..Entries, RunUpTo(k - 1),
         RunFrom1To(k - 1), comp' = [comp EXCEPT ![Object[k]] = "started"]
  PROVE  StartedInOrder' /\ RunUpTo(k)' /\ RunFrom1To(k)'
<1>1. Object \in [1..Entries -> Objects] /\ Entries \in Nat
  BY RegistryAssumption
<1>2. ASSUME NEW i \in 1..Entries, comp'[Object[i]] = "started"
      PROVE  \E m \in 1..Entries : m <= k /\ Object[m] = Object[i]
  <2>1. CASE Object[i] = Object[k]
    BY <1>1, <2>1
  <2>2. CASE Object[i] # Object[k]
    <3>1. comp[Object[i]] = "started"
      BY <1>1, <1>2, <2>2
    <3>2. PICK m \in 1..Entries : m <= k - 1 /\ Object[m] = Object[i]
      BY <3>1 DEF RunUpTo
    <3>. QED BY <1>1, <3>2
  <2>. QED BY <2>1, <2>2
<1>3. ASSUME NEW m \in 1..Entries, m <= k PROVE comp'[Object[m]] = "started"
  BY <1>1, <1>3 DEF RunFrom1To
<1>4. ASSUME NEW i \in 1..Entries, NEW j \in 1..Entries, j < i,
             comp'[Object[i]] = "started"
      PROVE  comp'[Object[j]] = "started"
  <2>1. PICK m \in 1..Entries : m <= k /\ Object[m] = Object[i]
    BY <1>2, <1>4
  <2>2. CASE j <= k
    BY <1>3, <2>2
  <2>3. CASE k < j
    <3>1. Object[j] = Object[m]
      BY ONLY <1>1, <1>4, <2>1, <2>3, RegistryAssumption, k \in 1..Entries
    <3>. QED BY <1>4, <2>1, <3>1
  <2>. QED BY <1>1, <2>2, <2>3
<1>. QED BY <1>2, <1>3, <1>4 DEF StartedInOrder, RunUpTo, RunFrom1To

(* Every object has an entry.                                               *)
LEMMA Registered ==
  ASSUME comp \in [Objects -> Phases]
  PROVE  /\ RunUpTo(0) => NoneRuns
         /\ RunFrom1To(Entries) => AllRun
         /\ NoneRuns => StartedInOrder /\ RunUpTo(0)
         /\ AllRun => StartedInOrder
         /\ RunUpTo(Entries)
<1>1. /\ \A o \in Objects : \E i \in 1..Entries : Object[i] = o
      /\ Object \in [1..Entries -> Objects] /\ Entries \in Nat
  BY RegistryAssumption
<1>2. RunUpTo(0) => NoneRuns
  BY <1>1 DEF RunUpTo, NoneRuns
<1>3. RunFrom1To(Entries) => AllRun
  BY <1>1 DEF RunFrom1To, AllRun
<1>4. RunUpTo(Entries)
  BY <1>1 DEF RunUpTo
<1>. QED BY <1>1, <1>2, <1>3, <1>4 DEF RunUpTo, StartedInOrder, NoneRuns, AllRun

-----------------------------------------------------------------------------
(* Facts that every step uses: the next job and what is left after it.      *)
LEMMA Now ==
  ASSUME TypeOK, JobsInv
  PROVE  /\ jobs = <<>> <=> Job(jobs) = "none"
         /\ jobs # <<>> => Job(jobs) = Head(jobs)
         /\ state \in {"STARTUP", "SHUTDOWN"} => Job(jobs) \in {"none", "Publish"}
         /\ Job(jobs) \in {"stop", "Disable", "deinitializing"}
              => state \in {"IDLE", "ERROR"}
         /\ Job(jobs) = "Clear" => state = "IDLE"
         /\ Job(jobs) \in {"Configure", "initializing"} => state = "INITIALIZING"
         /\ Job(jobs) = "Enable" => state = "READY"
         /\ Job(jobs) \in {"StartMappingEngine", "start"} => state = "RUNNING"
         /\ state = "RUNNING" =>
              Job(jobs) \in {"none", "Publish", "StartMappingEngine", "start"}
         /\ pc # "entry" => Job(jobs) = "none"
BY NextJobs DEF TypeOK, JobsInv

(* The initial states satisfy the invariant.                                *)
LEMMA PInit == Init => PInv
<1>. SUFFICES ASSUME Init PROVE PInv
  OBVIOUS
<1>0. Job(<<>>) = "none" /\ <<>> \in LeftIn("STARTUP") /\ <<>> \in Seq(Jobs)
  BY DEF Job, LeftIn
<1>1. TypeOK
  <2>1. sweep \in [op : Raising \cup Lowering \cup {"none"},
                   at : 0..(Entries + 1), back : BOOLEAN]
    BY RegistryAssumption DEF Init, NoSweep
  <2>2. comp \in [Objects -> Phases]
    BY DEF Init, Phases
  <2>3. /\ bus \in BOOLEAN /\ registration \in BOOLEAN /\ mapping \in BOOLEAN
        /\ configured \in BOOLEAN /\ initialDone \in BOOLEAN
        /\ forced \in BOOLEAN /\ skipped \in BOOLEAN
    BY Zenon DEF Init
  <2>. QED BY <1>0, <2>1, <2>2, <2>3, RegistryAssumption DEF Init, TypeOK, States
<1>2. JobsInv
  BY <1>0 DEF Init, JobsInv
<1>3. SweepInv
  BY RegistryAssumption DEF Init, SweepInv, NoSweep, Raising, Lowering
<1>4. RunInv
  BY <1>0, RegistryAssumption
     DEF Init, RunInv, NoneRuns, StartedInOrder, NoSweep
<1>5. ResourceInv
  BY <1>0 DEF Init, ResourceInv, BusInv, RegistrationInv, MappingInv,
              ConfiguredInv
<1>6. ShownInv
  BY DEF Init, ShownInv
<1>. QED BY <1>1, <1>2, <1>3, <1>4, <1>5, <1>6 DEF PInv

(* The sweep that is executed, and where it is.                             *)
SweepType == [op : Raising \cup Lowering \cup {"none"},
              at : 0..(Entries + 1), back : BOOLEAN]

(* A step of a sweep.                                                       *)
LEMMA SweepMoves ==
  ASSUME PInv, Sweep
  PROVE  /\ UNCHANGED <<state, shown, pc, target, jobs, resources, control, lives>>
         /\ sweep.op \in Raising \cup Lowering /\ sweep # NoSweep
         /\ sweep'.op = sweep.op /\ sweep' \in SweepType /\ sweep' # NoSweep
         /\ sweep.at \in 1..Entries
         /\ SweepInv'
         /\ \/ /\ sweep.op \in Raising /\ ~sweep.back /\ ~sweep'.back
               /\ sweep'.at = sweep.at + 1 /\ UNCHANGED failures
               /\ Called(sweep.op)
            \/ /\ sweep.op \in Raising /\ ~sweep.back /\ sweep'.back
               /\ sweep'.at = sweep.at - 1 /\ UNCHANGED comp
               /\ failures < MaxFailures /\ failures' = failures + 1
            \/ /\ sweep.op \in Raising /\ sweep.back /\ sweep'.back
               /\ sweep'.at = sweep.at - 1 /\ UNCHANGED failures
               /\ Called(Fallback(sweep.op))
            \/ /\ sweep.op \in Lowering /\ ~sweep.back /\ ~sweep'.back
               /\ sweep'.at = sweep.at - 1 /\ UNCHANGED failures
               /\ Called(sweep.op)
<1>. USE RegistryAssumption
     DEF PInv, TypeOK, SweepType, SweepInv, NoSweep, SweepOver, Raising,
         Lowering, Expected, bounds
<1>0. sweep \in SweepType /\ failures \in 0..MaxFailures
  OBVIOUS
<1>1. CASE Raise
  <2>1. /\ sweep.op \in Raising /\ ~sweep.back /\ sweep.at \in 1..Entries
        /\ UNCHANGED <<state, shown, pc, target, jobs, resources, control, lives>>
    BY <1>1 DEF Raise
  <2>2. CASE /\ Called(sweep.op) /\ UNCHANGED failures
             /\ sweep' = [sweep EXCEPT !.at = sweep.at + 1]
    <3>1. /\ sweep'.op = sweep.op /\ sweep'.at = sweep.at + 1
          /\ sweep'.back = sweep.back /\ sweep' \in SweepType
      BY ONLY <1>0, <2>1, <2>2, RegistryAssumption DEF SweepType
    <3>2. SweepInv'
      BY <2>1, <2>2, <3>1
    <3>. QED BY <2>1, <2>2, <3>1, <3>2
  <2>3. CASE /\ failures < MaxFailures /\ failures' = failures + 1
             /\ UNCHANGED comp
             /\ sweep' = [sweep EXCEPT !.at = sweep.at - 1, !.back = TRUE]
    <3>0. sweep' = [op |-> sweep.op, at |-> sweep.at - 1, back |-> TRUE]
      BY ONLY <1>0, <2>3 DEF SweepType
    <3>1. /\ sweep'.op = sweep.op /\ sweep'.at = sweep.at - 1
          /\ sweep'.back = TRUE /\ sweep' \in SweepType
      <4>1. sweep.op \in Raising \cup Lowering \cup {"none"}
        BY ONLY <1>0 DEF SweepType
      <4>2. sweep.at - 1 \in 0..(Entries + 1)
        BY ONLY <1>0, <2>1, RegistryAssumption DEF SweepType
      <4>. QED BY ONLY <3>0, <4>1, <4>2 DEF SweepType
    <3>2. failures' > 0
      BY ONLY <1>0, <2>3, RegistryAssumption
    <3>3. sweep'.back
      BY <3>1, Zenon
    <3>4. SweepInv'
      <4>1. sweep' # NoSweep
        BY <3>3
      <4>2. Expected' = Expected
        BY <2>1 DEF Expected
      <4>. QED BY <2>1, <3>1, <3>2, <3>3, <4>1, <4>2
    <3>5. sweep # NoSweep /\ sweep' # NoSweep
      BY <2>1, <3>3
    <3>. QED BY ONLY <2>1, <2>3, <3>1, <3>3, <3>4, <3>5
  <2>. QED BY <1>1, <2>2, <2>3 DEF Raise
<1>2. CASE FallBack
  BY SMTT(30), <1>2 DEF FallBack
<1>3. CASE Lower
  <2>1. /\ sweep.op \in Lowering /\ ~sweep.back /\ sweep.at \in 1..Entries
        /\ sweep' = [sweep EXCEPT !.at = sweep.at - 1] /\ Called(sweep.op)
        /\ UNCHANGED <<state, shown, pc, target, jobs, resources, control, lives>>
        /\ UNCHANGED failures
    BY <1>3 DEF Lower
  <2>. QED BY SMTT(30), <2>1
<1>. QED BY <1>1, <1>2, <1>3 DEF Sweep

(* What runs after a step of a sweep.                                       *)
LEMMA SweepRuns ==
  ASSUME PInv, Sweep
  PROVE  /\ comp' \in [Objects -> Phases]
         /\ RunInv'
         /\ Job(jobs) = "none" => NoneRuns'
<1>. DEFINE op == sweep.op
<1>. PICK k \in 1..Entries : k = sweep.at
  BY SweepMoves
<1>1. /\ comp \in [Objects -> Phases] /\ k \in Int
      /\ Object \in [1..Entries -> Objects] /\ Object[k] \in Objects
      /\ comp[Object[k]] \in Phases /\ op \in Raising \cup Lowering
  BY SweepMoves, RegistryAssumption DEF PInv, TypeOK
<1>2. /\ state' = state /\ pc' = pc /\ jobs' = jobs
      /\ sweep'.op = op /\ sweep' # NoSweep
      /\ op = Expected /\ StartedInOrder
  BY SweepMoves DEF PInv, SweepInv, RunInv
<1>3. ASSUME NEW f \in Raising \cup Lowering, Called(f)
      PROVE  \E phase \in Phases :
               /\ comp' = [comp EXCEPT ![Object[k]] = phase]
               /\ phase = "started" <=> f = "start"
  BY <1>1, <1>3, Calls DEF Called
<1>4. ASSUME NEW f \in Raising \cup Lowering, Called(f)
      PROVE  comp' \in [Objects -> Phases]
  BY <1>1, <1>3, <1>4
<1>5. CASE op = "start"
  <2>1. state' = "RUNNING" /\ Job(jobs') = "start" /\ Job(jobs) = "start"
    BY <1>2, <1>5, Now DEF Expected, PInv
  <2>2. CASE ~sweep.back /\ ~sweep'.back
    <3>1. Called("start") /\ sweep'.at = k + 1
      BY <1>5, <2>2, SweepMoves DEF Raising, Lowering
    <3>2. comp' = [comp EXCEPT ![Object[k]] = "started"] /\ comp' \in [Objects -> Phases]
      BY <1>1, <1>3, <1>4, <3>1 DEF Raising
    <3>3. RunUpTo(k - 1) /\ RunFrom1To(k - 1)
      BY <1>5, <2>2 DEF PInv, RunInv
    <3>4. StartedInOrder' /\ RunUpTo(k)' /\ RunFrom1To(k)'
      BY <1>1, <3>2, <3>3, Starts
    <3>5. sweep'.at - 1 = k
      BY <1>1, <3>1
    <3>. QED BY <1>2, <1>5, <2>1, <2>2, <3>2, <3>4, <3>5 DEF RunInv
  <2>3. CASE ~sweep.back /\ sweep'.back
    <3>1. UNCHANGED comp /\ sweep'.at = k - 1
      BY <1>5, <2>3, SweepMoves DEF Raising, Lowering
    <3>2. RunUpTo(k - 1)
      BY <1>5, <2>3 DEF PInv, RunInv
    <3>3. StartedInOrder' /\ RunUpTo(k - 1)'
      BY <1>2, <3>1, <3>2 DEF StartedInOrder, RunUpTo
    <3>. QED BY <1>1, <1>2, <1>5, <2>1, <2>3, <3>1, <3>3 DEF RunInv
  <2>4. CASE sweep.back
    <3>1. Called("stop") /\ sweep'.at = k - 1 /\ sweep'.back
      BY <1>5, <2>4, SweepMoves DEF Raising, Lowering, Fallback
    <3>2. StartedInOrder' /\ RunUpTo(k - 1)' /\ comp' \in [Objects -> Phases]
      <4>1. RunUpTo(k) /\ "stop" \in Lowering
        BY <1>5, <2>4 DEF PInv, RunInv, Lowering
      <4>. QED BY <1>1, <1>2, <1>3, <1>4, <3>1, <4>1, Stops
    <3>. QED BY <1>2, <1>5, <2>1, <3>1, <3>2 DEF RunInv
  <2>. QED BY <2>2, <2>3, <2>4
<1>6. CASE op = "stop"
  <2>1. state' # "RUNNING" /\ Job(jobs') = "stop" /\ Job(jobs) = "stop"
    BY <1>2, <1>6, Now DEF Expected, PInv
  <2>2. Called("stop") /\ sweep'.at = k - 1
    BY <1>6, SweepMoves DEF Raising, Lowering
  <2>3. StartedInOrder' /\ RunUpTo(k - 1)' /\ comp' \in [Objects -> Phases]
    <3>1. RunUpTo(k) /\ "stop" \in Lowering
      BY <1>6 DEF PInv, RunInv, Lowering
    <3>. QED BY <1>1, <1>2, <1>3, <1>4, <2>2, <3>1, Stops
  <2>. QED BY <1>2, <1>6, <2>1, <2>2, <2>3 DEF RunInv
<1>7. CASE op \notin {"start", "stop"}
  <2>1. state # "RUNNING" /\ Job(jobs) # "stop"
    <3>1. CASE pc = "entry"
      BY <1>1, <1>2, <1>7, <3>1, Now
         DEF PInv, Expected, Simple, Raising, Lowering
    <3>2. CASE pc # "entry"
      BY <1>1, <1>2, <3>2, Now DEF PInv, Expected, JobsInv, Raising, Lowering
    <3>. QED BY <3>1, <3>2
  <2>2. NoneRuns
    BY <2>1 DEF PInv, RunInv
  <2>3. \/ UNCHANGED comp
        \/ \E f \in Raising \cup Lowering : f # "start" /\ Called(f)
    BY <1>1, <1>7, SweepMoves DEF Fallback, Raising, Lowering
  <2>4. NoneRuns' /\ comp' \in [Objects -> Phases]
    <3>1. CASE UNCHANGED comp
      BY <1>1, <2>2, <3>1 DEF NoneRuns
    <3>2. ASSUME NEW f \in Raising \cup Lowering, f # "start", Called(f)
          PROVE  NoneRuns' /\ comp' \in [Objects -> Phases]
      BY <1>1, <1>3, <1>4, <2>2, <3>2 DEF NoneRuns
    <3>. QED BY <2>3, <3>1, <3>2
  <2>5. StartedInOrder'
    BY <2>4, RegistryAssumption DEF NoneRuns, StartedInOrder
  <2>. QED BY <1>2, <1>7, <2>1, <2>4, <2>5 DEF RunInv
<1>. QED BY <1>5, <1>6, <1>7

(* A call of the registry to the next component keeps the invariant.        *)
LEMMA SweepStep == PInv /\ Sweep => PInv'
<1>. SUFFICES ASSUME PInv, Sweep PROVE PInv'
  OBVIOUS
<1>1. UNCHANGED <<state, shown, pc, target, jobs, bus, registration, mapping,
                  configured, initialDone, forced, skipped, lives>>
  BY SweepMoves DEF resources, control
<1>2. failures' \in 0..MaxFailures /\ (failures > 0 => failures' > 0)
  BY SweepMoves, RegistryAssumption DEF PInv, TypeOK
<1>3. TypeOK'
  BY <1>1, <1>2, SweepMoves, SweepRuns DEF PInv, TypeOK, SweepType
<1>4. JobsInv'
  BY <1>1 DEF PInv, JobsInv
<1>5. ResourceInv'
  BY <1>1 DEF PInv, ResourceInv, BusInv, RegistrationInv, MappingInv, ConfiguredInv
<1>6. ShownInv'
  BY <1>1, <1>2, SweepRuns DEF PInv, ShownInv
<1>. QED BY <1>3, <1>4, <1>5, <1>6, SweepMoves, SweepRuns DEF PInv

(* A change of the state: exit handlers, the state, the list of jobs.       *)
LEMMA LeaveStep ==
  ASSUME PInv, pc \in {"rest", "request"}, NEW new \in States,
         NEW tr \in Transitions, <<state, tr, new>> \in Table, Leave(new),
         sweep' = NoSweep, UNCHANGED <<shown, comp, failures, lives>>,
         target' \in States
  PROVE  PInv'
<1>. DEFINE list == EntryJobs(state, new)
<1>1. /\ state \in States /\ Job(jobs) = "none" /\ jobs = <<>>
      /\ TypeOK /\ JobsInv /\ RunInv /\ ResourceInv
  BY Now DEF PInv, TypeOK, JobsInv
<1>2. /\ state' = new /\ jobs' = list /\ pc' = "entry"
      /\ UNCHANGED <<bus, configured, initialDone, forced>>
      /\ skipped' = (skipped \/ (~initialDone /\ state \in Transmitting))
  BY DEF Leave
<1>3. /\ list \in LeftIn(new) /\ state # "SHUTDOWN"
      /\ new = "READY" => state = "INITIALIZING"
      /\ new = "RUNNING" => state = "READY"
      /\ new = "STARTUP" => state = "IDLE"
      /\ new = "INITIALIZING" => state = "IDLE"
      /\ Job(list) = IF new = "READY" THEN "Enable"
                     ELSE IF new = "RUNNING" THEN "StartMappingEngine"
                     ELSE IF new = "INITIALIZING" THEN "Configure"
                     ELSE IF state = "RUNNING" THEN "stop"
                     ELSE IF state = "READY" THEN "Disable"
                     ELSE IF new = "IDLE" /\ state # "STARTUP" THEN "Clear"
                     ELSE "Publish"
  BY <1>1, JobsOfChange
<1>. HIDE DEF list
<1>4. /\ registration' \in BOOLEAN /\ mapping' \in BOOLEAN
      /\ skipped' \in BOOLEAN
  BY <1>1, <1>2, Zenon DEF Leave, ExitHandler, TypeOK
<1>5. TypeOK'
  <2>1. jobs' \in Seq(Jobs)
    BY <1>2, <1>3, NextJobs
  <2>2. NoSweep \in SweepType
    BY RegistryAssumption DEF NoSweep, SweepType
  <2>. QED BY <1>1, <1>2, <1>4, <2>1, <2>2 DEF TypeOK, SweepType
<1>6. JobsInv'
  BY <1>2, <1>3 DEF JobsInv
<1>7. SweepInv'
  BY <1>2, RegistryAssumption DEF SweepInv, NoSweep, Raising, Lowering
<1>8. RunInv'
  <2>1. StartedInOrder'
    BY <1>1 DEF StartedInOrder, RunInv
  <2>2. state # "RUNNING" => NoneRuns'
    BY <1>1 DEF RunInv, NoneRuns
  <2>3. /\ new # "RUNNING" /\ Job(list) # "stop" => NoneRuns'
        /\ new = "RUNNING" => Job(list) = "StartMappingEngine" /\ NoneRuns'
    <3>1. state = "RUNNING" => new \in {"IDLE", "ERROR"}
      BY <1>3 DEF Table, States
    <3>. QED BY <1>3, <2>2, <3>1
  <2>. QED BY <1>2, <2>1, <2>3 DEF RunInv, NoSweep
<1>9. ResourceInv'
  <2>1. BusInv'
    BY <1>1, <1>2, <1>3 DEF ResourceInv, BusInv, States, TypeOK
  <2>2. /\ ~skipped' => ~skipped
        /\ ~skipped' /\ state \in Transmitting => ExitHandler(state, new)
    BY <1>2, Zenon DEF Leave
  <2>3. state \notin Transmitting =>
          (registration' <=> registration) /\ (mapping' <=> mapping)
    <3>1. CASE initialDone
      BY <1>1, <3>1, Zenon DEF Leave, ExitHandler, Transmitting
    <3>2. CASE ~initialDone
      BY <3>2 DEF Leave
    <3>. QED BY <3>1, <3>2
  <2>4. ~skipped' /\ state \in Transmitting =>
          /\ registration' <=> (registration \/ new \notin Transmitting)
          /\ mapping' <=> (mapping /\ state # "RUNNING")
    BY <2>2, Zenon DEF ExitHandler
  <2>5. RegistrationInv'
    BY <1>1, <1>2, <1>3, <2>2, <2>3, <2>4
       DEF ResourceInv, RegistrationInv, Transmitting
  <2>6. MappingInv'
    BY <1>1, <1>2, <1>3, <2>2, <2>3, <2>4 DEF ResourceInv, MappingInv, Transmitting
  <2>7. ConfiguredInv'
    BY <1>1, <1>2, <1>3 DEF ResourceInv, ConfiguredInv
  <2>. QED BY <2>1, <2>5, <2>6, <2>7 DEF ResourceInv
<1>10. ShownInv'
  BY <1>2, <1>3 DEF ShownInv
<1>. QED BY <1>5, <1>6, <1>7, <1>8, <1>9, <1>10 DEF PInv

(* The handlers of the state listener.                                      *)
LEMMA ChangeStep ==
  ASSUME PInv, NEW tr \in Transitions, Change(tr)
  PROVE  PInv'
<1>1. PICK new \in States :
        /\ <<state, tr, new>> \in Table
        /\ IF initialDone /\ new = "READY"
           THEN /\ pc' = "request" /\ target' = new /\ sweep' = Begin("ready")
                /\ UNCHANGED <<state, jobs, resources, control>>
           ELSE Leave(new) /\ UNCHANGED <<target, sweep>>
  BY DEF Change
<1>2. /\ pc = "rest" /\ UNCHANGED <<shown, comp, failures, lives>>
      /\ TypeOK /\ JobsInv /\ SweepInv /\ RunInv /\ ResourceInv /\ ShownInv
      /\ sweep = NoSweep /\ jobs = <<>> /\ Job(jobs) = "none" /\ state \in States
  BY Now DEF Change, bounds, PInv, SweepInv, Expected, JobsInv, TypeOK
<1>3. CASE initialDone /\ new = "READY"
  <2>1. /\ pc' = "request" /\ target' = "READY" /\ sweep' = Begin("ready")
        /\ UNCHANGED <<state, jobs, bus, registration, mapping, configured,
                       initialDone, forced, skipped>>
    BY <1>1, <1>3 DEF resources, control
  <2>2. state = "INITIALIZING"
    BY <1>1, <1>2, <1>3, JobsOfChange
  <2>3. /\ sweep' = [op |-> "ready", at |-> 1, back |-> FALSE]
        /\ sweep' \in SweepType /\ sweep' # NoSweep
    BY <2>1, RegistryAssumption
       DEF Begin, Raising, Lowering, SweepType, NoSweep
  <2>4. TypeOK'
    BY <1>2, <2>1, <2>3 DEF TypeOK, SweepType, States
  <2>5. JobsInv'
    BY <1>2, <2>1, <2>2 DEF JobsInv
  <2>6. SweepInv'
    BY <2>1, <2>3 DEF SweepInv, Expected, Raising, Lowering
  <2>7. RunInv'
    BY <1>2, <2>1, <2>2, <2>3 DEF RunInv, StartedInOrder, NoneRuns
  <2>8. ResourceInv' /\ ShownInv'
    BY <1>2, <2>1 DEF ResourceInv, BusInv, RegistrationInv, MappingInv,
                      ConfiguredInv, ShownInv, NoneRuns
  <2>. QED BY <2>4, <2>5, <2>6, <2>7, <2>8 DEF PInv
<1>4. CASE ~(initialDone /\ new = "READY")
  <2>1. Leave(new) /\ sweep' = NoSweep /\ target' \in States
    BY <1>1, <1>2, <1>4 DEF TypeOK
  <2>. QED BY <1>1, <1>2, <2>1, LeaveStep
<1>. QED BY <1>3, <1>4

(* The end of a requested call, with or without a transition, keeps the     *)
(* invariant.                                                               *)
LEMMA RequestedStep ==
  ASSUME PInv, Requested
  PROVE  PInv'
<1>1. /\ pc = "request" /\ sweep' = NoSweep
      /\ UNCHANGED <<shown, target, comp, failures, lives>>
      /\ state = "INITIALIZING" /\ target = "READY"
      /\ TypeOK /\ JobsInv /\ RunInv /\ ResourceInv /\ ShownInv
  BY DEF Requested, PInv, JobsInv, bounds
<1>2. CASE SweepFailed /\ ~forced
  <2>1. /\ pc' = "rest"
        /\ UNCHANGED <<state, jobs, bus, registration, mapping, configured,
                       initialDone, forced, skipped>>
    BY <1>2 DEF Requested, resources, control
  <2>2. NoSweep \in SweepType
    BY RegistryAssumption DEF NoSweep, SweepType
  <2>3. TypeOK'
    BY <1>1, <2>1, <2>2 DEF TypeOK, SweepType
  <2>4. JobsInv'
    BY <1>1, <2>1 DEF JobsInv
  <2>5. SweepInv'
    BY <1>1, <2>1, RegistryAssumption DEF SweepInv, NoSweep, Raising, Lowering
  <2>6. RunInv'
    BY <1>1, <2>1 DEF RunInv, StartedInOrder, NoneRuns, NoSweep
  <2>7. ResourceInv' /\ ShownInv'
    BY <1>1, <2>1 DEF ResourceInv, BusInv, RegistrationInv, MappingInv,
                      ConfiguredInv, ShownInv, NoneRuns
  <2>. QED BY <2>3, <2>4, <2>5, <2>6, <2>7 DEF PInv
<1>3. CASE ~(SweepFailed /\ ~forced)
  <2>1. Leave("READY")
    BY <1>1, <1>3 DEF Requested
  <2>2. <<state, "InitDone", "READY">> \in Table
    BY <1>1 DEF Table
  <2>3. "READY" \in States /\ "InitDone" \in Transitions /\ target' \in States
    BY <1>1 DEF States, Transitions
  <2>. QED BY <1>1, <2>1, <2>2, <2>3, LeaveStep
<1>. QED BY <1>2, <1>3

(* A job of a state entry that calls no component keeps the invariant.      *)
LEMMA EntryJobStep ==
  ASSUME PInv, EntryJob
  PROVE  PInv'
<1>. DEFINE job == Job(jobs)
            next == Job(Tail(jobs))
<1>1. /\ pc = "entry" /\ jobs # <<>> /\ job \in Simple /\ job = Head(jobs)
      /\ jobs' = Tail(jobs)
      /\ UNCHANGED <<state, pc, target, sweep, comp, initialDone, forced,
                     skipped, failures, lives>>
      /\ TypeOK /\ JobsInv /\ SweepInv /\ RunInv /\ ResourceInv /\ ShownInv
      /\ state \in States /\ jobs \in LeftIn(state)
  BY Now DEF EntryJob, PInv, control, bounds, JobsInv, TypeOK
<1>2. /\ Tail(jobs) \in LeftIn(state)
      /\ job = "Disable" => next = "deinitializing" /\ state \in {"IDLE", "ERROR"}
      /\ job = "Clear" => next = "Publish" /\ state = "IDLE"
      /\ job = "Configure" => next = "initializing" /\ state = "INITIALIZING"
      /\ job = "Enable" => next = "Publish" /\ state = "READY"
      /\ job = "StartMappingEngine" => next = "start" /\ state = "RUNNING"
      /\ job = "Publish" => next = "none"
  BY <1>1, JobDone, Now
<1>3. /\ bus' <=> (job = "Enable" \/ (bus /\ job # "Disable"))
      /\ registration' <=> (registration /\ job # "Enable")
      /\ mapping' <=> (mapping \/ job = "StartMappingEngine")
      /\ configured' <=> (job = "Configure" \/ (configured /\ job # "Clear"))
      /\ bus' \in BOOLEAN /\ registration' \in BOOLEAN
      /\ mapping' \in BOOLEAN /\ configured' \in BOOLEAN
  BY <1>1, Zenon DEF EntryJob
<1>4. shown' = IF job = "Publish" THEN state ELSE shown
  BY <1>1 DEF EntryJob
<1>5. sweep = NoSweep
  BY <1>1 DEF SweepInv, Expected
<1>. HIDE DEF job, next
<1>6. TypeOK'
  <2>1. jobs' \in Seq(Jobs) /\ shown' \in States
    BY <1>1, <1>2, <1>4, NextJobs DEF TypeOK
  <2>. QED BY <1>1, <1>3, <2>1 DEF TypeOK
<1>7. JobsInv'
  BY <1>1, <1>2 DEF JobsInv
<1>8. SweepInv'
  BY <1>1, <1>5, RegistryAssumption DEF SweepInv, NoSweep, Raising, Lowering
<1>9. Job(jobs') = next /\ Job(jobs) = job
  BY <1>1 DEF job, next
<1>10. RunInv'
  BY <1>1, <1>2, <1>5, <1>9
     DEF RunInv, StartedInOrder, NoneRuns, AllRun, NoSweep, Simple
<1>11. ResourceInv'
  <2>1. BusInv'
    BY <1>1, <1>2, <1>3, <1>9 DEF ResourceInv, BusInv, Simple
  <2>2. RegistrationInv'
    BY <1>1, <1>2, <1>3, <1>9 DEF ResourceInv, RegistrationInv, Simple
  <2>3. MappingInv'
    BY <1>1, <1>2, <1>3, <1>9 DEF ResourceInv, MappingInv, Simple
  <2>4. ConfiguredInv'
    BY <1>1, <1>2, <1>3, <1>9 DEF ResourceInv, ConfiguredInv, Simple
  <2>. QED BY <2>1, <2>2, <2>3, <2>4 DEF ResourceInv
<1>12. ShownInv'
  BY <1>1, <1>2, <1>4, <1>9 DEF ShownInv, Simple
<1>. QED BY <1>6, <1>7, <1>8, <1>10, <1>11, <1>12 DEF PInv

(* A state entry that begins a call of the registry keeps the invariant.    *)
LEMMA EntryCallStep ==
  ASSUME PInv, EntryCall
  PROVE  PInv'
<1>. DEFINE job == Job(jobs)
<1>1. /\ pc = "entry" /\ jobs # <<>> /\ job \notin Simple /\ sweep = NoSweep
      /\ sweep' = Begin(job)
      /\ UNCHANGED <<state, shown, pc, target, jobs, comp, bus, registration,
                     mapping, configured, initialDone, forced, skipped,
                     failures, lives>>
      /\ TypeOK /\ JobsInv /\ SweepInv /\ RunInv /\ ResourceInv /\ ShownInv
      /\ state \in States /\ jobs \in LeftIn(state)
  BY Now DEF EntryCall, PInv, control, bounds, resources, JobsInv, TypeOK
<1>2. /\ job \in {"stop", "deinitializing", "initializing", "start"}
      /\ job = "start" <=> state = "RUNNING"
  <2>1. job \in Jobs
    BY <1>1, NextJobs
  <2>. QED BY <1>1, <2>1, Now DEF Jobs, Simple
<1>3. /\ sweep'.op = job /\ ~sweep'.back /\ sweep' # NoSweep
      /\ sweep'.at = IF job \in {"initializing", "start"} THEN 1 ELSE Entries
      /\ sweep' \in SweepType
  <2>. HIDE DEF job
  <2>. QED BY <1>1, <1>2, RegistryAssumption
           DEF Begin, NoSweep, SweepType, Raising, Lowering
<1>4. TypeOK'
  BY <1>1, <1>3 DEF TypeOK, SweepType
<1>5. JobsInv'
  BY <1>1 DEF JobsInv
<1>6. SweepInv'
  BY <1>1, <1>2, <1>3, RegistryAssumption
     DEF SweepInv, Expected, Raising, Lowering, Simple
<1>7. RunInv'
  <2>1. StartedInOrder' /\ RunUpTo(Entries)'
    BY <1>1, Registered DEF RunInv, StartedInOrder, RunUpTo, TypeOK
  <2>2. job = "start" => NoneRuns /\ RunUpTo(0)' /\ RunFrom1To(0)'
    <3>1. job = "start" => NoneRuns
      BY <1>1, <1>2 DEF RunInv
    <3>2. NoneRuns => RunUpTo(0)'
      BY <1>1, RegistryAssumption DEF NoneRuns, RunUpTo
    <3>3. RunFrom1To(0)'
      BY DEF RunFrom1To
    <3>. QED BY <3>1, <3>2, <3>3
  <2>. QED BY <1>1, <1>2, <1>3, <2>1, <2>2 DEF RunInv, NoneRuns
<1>8. ResourceInv' /\ ShownInv'
  BY <1>1 DEF ResourceInv, BusInv, RegistrationInv, MappingInv, ConfiguredInv,
              ShownInv, NoneRuns
<1>. QED BY <1>4, <1>5, <1>6, <1>7, <1>8 DEF PInv

(* A call of the registry that returns to a state entry keeps the invariant.*)
LEMMA EntryReturnStep ==
  ASSUME PInv, EntryReturn
  PROVE  PInv'
<1>. DEFINE job == Job(jobs)
            next == Job(Tail(jobs))
<1>1. /\ pc = "entry" /\ sweep' = NoSweep /\ sweep # NoSweep
      /\ jobs' = IF SweepFailed THEN <<>> ELSE Tail(jobs)
      /\ UNCHANGED <<state, shown, pc, target, comp, bus, registration,
                     mapping, configured, initialDone, forced, skipped,
                     failures, lives>>
      /\ TypeOK /\ JobsInv /\ SweepInv /\ RunInv /\ ResourceInv /\ ShownInv
      /\ state \in States /\ jobs \in LeftIn(state)
  BY DEF EntryReturn, SweepOver, PInv, control, bounds, resources, JobsInv, TypeOK
<1>2. sweep.op = job /\ sweep.op # "none" /\ job \notin Simple /\ jobs # <<>>
  BY <1>1, Now DEF SweepInv, Expected
<1>3. /\ job \in {"stop", "deinitializing", "initializing", "start"}
      /\ job = "start" <=> state = "RUNNING"
      /\ job = "initializing" <=> state = "INITIALIZING"
  <2>1. job \in Jobs
    BY <1>1, <1>2, NextJobs
  <2>. QED BY <1>1, <1>2, <2>1, Now DEF Jobs, Simple
<1>4. /\ Tail(jobs) \in LeftIn(state)
      /\ job = "stop" => next = "Disable"
      /\ job = "deinitializing" =>
           next = IF state = "IDLE" THEN "Clear" ELSE "Publish"
      /\ job \in {"initializing", "start"} => next = "Publish"
  BY <1>1, <1>2, JobDone
<1>5. /\ SweepFailed => job \in {"initializing", "start"} /\ failures > 0
      /\ SweepFailed <=> sweep.back
  BY <1>1, <1>2, <1>3 DEF SweepInv, SweepFailed, Raising, Lowering
<1>6. /\ job = "start" => IF SweepFailed THEN NoneRuns ELSE AllRun
      /\ job # "start" => NoneRuns
  <2>1. job = "start" /\ ~SweepFailed => sweep.at - 1 = Entries /\ AllRun
    BY <1>1, <1>2, <1>5, Registered, RegistryAssumption
       DEF EntryReturn, SweepOver, Raising, RunInv, TypeOK
  <2>2. SweepFailed => sweep.at = 0
    BY <1>5 DEF EntryReturn, SweepOver
  <2>3. job = "start" /\ SweepFailed => NoneRuns
    BY <1>1, <1>2, <1>5, <2>2, Registered DEF RunInv, TypeOK
  <2>4. job = "stop" => sweep.at = 0 /\ NoneRuns
    BY <1>1, <1>2, Registered DEF EntryReturn, SweepOver, Raising, RunInv, TypeOK
  <2>5. job \in {"deinitializing", "initializing"} => NoneRuns
    BY <1>1, <1>3 DEF RunInv
  <2>. QED BY <1>3, <2>1, <2>3, <2>4, <2>5
<1>7. /\ jobs' \in LeftIn(state)
      /\ Job(jobs') = IF SweepFailed THEN "none" ELSE next
      /\ Job(jobs) = job
  BY <1>1, <1>4 DEF LeftIn, Job
<1>. HIDE DEF job, next
<1>8. TypeOK'
  <2>1. NoSweep \in SweepType
    BY RegistryAssumption DEF NoSweep, SweepType
  <2>2. jobs' \in Seq(Jobs)
    BY <1>1, <1>7, NextJobs
  <2>. QED BY <1>1, <2>1, <2>2 DEF TypeOK, SweepType
<1>9. JobsInv'
  BY <1>1, <1>7 DEF JobsInv
<1>10. SweepInv'
  BY <1>1, RegistryAssumption DEF SweepInv, NoSweep, Raising, Lowering
<1>11. RunInv'
  <2>1. /\ StartedInOrder' /\ (NoneRuns' <=> NoneRuns) /\ (AllRun' <=> AllRun)
        /\ sweep'.op = "none"
    BY <1>1 DEF RunInv, StartedInOrder, NoneRuns, AllRun, NoSweep
  <2>. QED BY <1>1, <1>3, <1>4, <1>5, <1>6, <1>7, <2>1 DEF RunInv
<1>12. ResourceInv'
  BY <1>1, <1>3, <1>4, <1>5, <1>7
     DEF ResourceInv, BusInv, RegistrationInv, MappingInv, ConfiguredInv
<1>13. ShownInv'
  BY <1>1, <1>3, <1>4, <1>5, <1>6, <1>7 DEF ShownInv, NoneRuns
<1>. QED BY <1>8, <1>9, <1>10, <1>11, <1>12, <1>13 DEF PInv

(* The steps that leave the components and the state alone.                 *)
LEMMA QuietStep ==
  ASSUME PInv, FireupDone \/ Destroy \/ Entered
  PROVE  PInv'
<1>1. /\ UNCHANGED <<state, shown, target, jobs, sweep, comp, bus,
                     registration, mapping, configured, skipped, failures,
                     lives>>
      /\ initialDone' \in BOOLEAN /\ forced' \in BOOLEAN
      /\ UNCHANGED pc \/ (pc = "entry" /\ jobs = <<>> /\ pc' = "rest")
      /\ TypeOK /\ JobsInv /\ SweepInv /\ RunInv /\ ResourceInv /\ ShownInv
  BY Zenon DEF FireupDone, Destroy, Entered, resources, bounds, control, PInv, TypeOK
<1>2. TypeOK'
  BY <1>1 DEF TypeOK
<1>3. JobsInv'
  BY <1>1 DEF JobsInv
<1>4. SweepInv'
  <2>1. CASE UNCHANGED pc
    BY <1>1, <2>1 DEF SweepInv, Expected
  <2>2. CASE pc = "entry" /\ jobs = <<>> /\ pc' = "rest"
    <3>1. sweep = NoSweep
      BY <1>1, <2>2, Now, NextJobs DEF SweepInv, Expected, Job
    <3>. QED BY <1>1, <2>2, <3>1, RegistryAssumption
             DEF SweepInv, NoSweep, Raising, Lowering
  <2>. QED BY <1>1, <2>1, <2>2
<1>5. RunInv'
  BY <1>1 DEF RunInv, StartedInOrder, NoneRuns, AllRun, RunUpTo, RunFrom1To
<1>6. ResourceInv' /\ ShownInv'
  BY <1>1 DEF ResourceInv, BusInv, RegistrationInv, MappingInv, ConfiguredInv,
              ShownInv, NoneRuns
<1>. QED BY <1>2, <1>3, <1>4, <1>5, <1>6 DEF PInv

(* Create, and what the end of its sweep leads to.                          *)
LEMMA CreateStep ==
  ASSUME PInv, Create \/ Created
  PROVE  PInv'
<1>1. CASE Create
  <2>1. /\ pc = "none" /\ jobs = <<>> /\ lives' \in 0..MaxLives
        /\ pc' = "creating" /\ sweep' = Begin("create")
        /\ state' = "STARTUP" /\ shown' = "STARTUP"
        /\ comp' = [o \in Objects |-> "registered"]
        /\ UNCHANGED <<target, jobs, failures>>
        /\ TypeOK /\ JobsInv /\ Job(<<>>) = "none"
    BY <1>1, RegistryAssumption DEF Create, PInv, JobsInv, TypeOK, Job
  <2>2. /\ ~bus' /\ registration' /\ ~mapping' /\ ~configured' /\ ~skipped'
        /\ bus' \in BOOLEAN /\ registration' \in BOOLEAN /\ mapping' \in BOOLEAN
        /\ configured' \in BOOLEAN /\ initialDone' \in BOOLEAN
        /\ forced' \in BOOLEAN /\ skipped' \in BOOLEAN
    BY <1>1, Zenon DEF Create
  <2>3. /\ sweep' = [op |-> "create", at |-> 1, back |-> FALSE]
        /\ sweep' \in SweepType /\ sweep' # NoSweep
    BY <2>1, RegistryAssumption DEF Begin, Raising, Lowering, SweepType, NoSweep
  <2>4. TypeOK'
    BY <2>1, <2>2, <2>3 DEF TypeOK, SweepType, States, Phases
  <2>5. JobsInv'
    BY <2>1 DEF JobsInv, LeftIn
  <2>6. SweepInv'
    BY <2>1, <2>3 DEF SweepInv, Expected, Raising, Lowering
  <2>7. RunInv'
    BY <2>1, <2>3, RegistryAssumption DEF RunInv, StartedInOrder, NoneRuns
  <2>8. ResourceInv' /\ ShownInv'
    BY <2>1, <2>2 DEF ResourceInv, BusInv, RegistrationInv, MappingInv,
                      ConfiguredInv, ShownInv
  <2>. QED BY <2>4, <2>5, <2>6, <2>7, <2>8 DEF PInv
<1>2. CASE Created
  <2>1. /\ pc = "creating" /\ state = "STARTUP" /\ sweep' = NoSweep
        /\ jobs = <<>> /\ pc' \in {"rest", "entry"}
        /\ jobs' = P \/ jobs' = <<>>
        /\ pc' = "rest" => jobs' = <<>>
        /\ UNCHANGED <<state, shown, target, comp, bus, registration, mapping,
                       configured, initialDone, skipped, failures, lives>>
        /\ TypeOK /\ JobsInv /\ RunInv /\ ResourceInv /\ ShownInv
    BY <1>2 DEF Created, PInv, JobsInv, resources, bounds, P
  <2>2. forced' \in BOOLEAN
    BY <1>2, Zenon DEF Created, PInv, TypeOK
  <2>3. /\ Job(P) = "Publish" /\ Job(<<>>) = "none" /\ NoSweep \in SweepType
        /\ P \in Seq(Jobs) /\ <<>> \in Seq(Jobs)
        /\ P \in LeftIn("STARTUP") /\ <<>> \in LeftIn("STARTUP")
    BY Lists, RegistryAssumption
       DEF Job, P, LeftIn, Jobs, Simple, NoSweep, SweepType
  <2>4. TypeOK'
    BY <2>1, <2>2, <2>3 DEF TypeOK, SweepType
  <2>5. JobsInv'
    BY <2>1, <2>3 DEF JobsInv
  <2>6. SweepInv'
    BY <2>1, RegistryAssumption DEF SweepInv, NoSweep, Raising, Lowering
  <2>7. Job(jobs) = "none" /\ Job(jobs') \in {"none", "Publish"}
    BY <2>1, <2>3
  <2>8. RunInv'
    BY <2>1, <2>7 DEF RunInv, StartedInOrder, NoneRuns, NoSweep
  <2>9. ResourceInv' /\ ShownInv'
    BY <2>1, <2>7 DEF ResourceInv, BusInv, RegistrationInv, MappingInv,
                      ConfiguredInv, ShownInv
  <2>. QED BY <2>4, <2>5, <2>6, <2>8, <2>9 DEF PInv
<1>. QED BY <1>1, <1>2

(* The end of a life.                                                       *)
LEMMA DestroyStep ==
  ASSUME PInv, Rollback \/ Destroyed
  PROVE  PInv'
<1>1. /\ state = "SHUTDOWN" /\ jobs = <<>> /\ Job(jobs) = "none"
      /\ UNCHANGED <<state, shown, target, jobs, comp, registration, mapping,
                     configured, initialDone, forced, skipped, failures, lives>>
      /\ TypeOK /\ JobsInv /\ RunInv /\ ResourceInv /\ ShownInv
  BY Now DEF Rollback, Destroyed, PInv, JobsInv, resources, bounds, control
<1>2. /\ \/ pc' = "destroying" /\ sweep' = Begin("destroy")
         \/ pc' = "none" /\ sweep' = NoSweep
      /\ ~bus' /\ bus' \in BOOLEAN
  <2>1. ~bus /\ bus \in BOOLEAN
    BY <1>1 DEF ResourceInv, BusInv, TypeOK
  <2>2. CASE Rollback
    BY <2>1, <2>2 DEF Rollback, resources
  <2>3. CASE Destroyed
    <3>1. bus' = FALSE /\ pc' = "none" /\ sweep' = NoSweep
      BY <2>3 DEF Destroyed
    <3>2. ~bus' /\ bus' \in BOOLEAN
      BY <3>1, Zenon
    <3>. QED BY <3>1, <3>2
  <2>. QED BY <2>2, <2>3
<1>3. /\ sweep' \in SweepType /\ sweep'.op \in {"destroy", "none"}
      /\ sweep' = NoSweep \/ (sweep' = [op |-> "destroy", at |-> Entries,
                                        back |-> FALSE] /\ pc' = "destroying")
      /\ pc' = "destroying" => sweep' # NoSweep
  <2>1. /\ Begin("destroy") = [op |-> "destroy", at |-> Entries, back |-> FALSE]
        /\ Begin("destroy") \in SweepType /\ NoSweep \in SweepType
        /\ Begin("destroy") # NoSweep
        /\ Begin("destroy").op = "destroy" /\ NoSweep.op = "none"
    BY RegistryAssumption DEF Begin, Raising, Lowering, SweepType, NoSweep
  <2>. QED BY <1>2, <2>1
<1>4. TypeOK'
  BY <1>1, <1>2, <1>3 DEF TypeOK, SweepType
<1>5. JobsInv'
  BY <1>1, <1>2 DEF JobsInv
<1>6. SweepInv'
  BY <1>2, <1>3, RegistryAssumption
     DEF SweepInv, Expected, Raising, Lowering, NoSweep
<1>7. RunInv'
  BY <1>1, <1>3 DEF RunInv, StartedInOrder, NoneRuns
<1>8. ResourceInv' /\ ShownInv'
  BY <1>1, <1>2 DEF ResourceInv, BusInv, RegistrationInv, MappingInv,
                    ConfiguredInv, ShownInv
<1>. QED BY <1>4, <1>5, <1>6, <1>7, <1>8 DEF PInv

-----------------------------------------------------------------------------
(* Every step preserves the invariant.                                      *)
LEMMA PStep == PInv /\ [Next]_vars => PInv'
<1>. SUFFICES ASSUME PInv, [Next]_vars PROVE PInv'
  OBVIOUS
<1>1. CASE UNCHANGED vars
  BY <1>1 DEF vars, resources, control, bounds, PInv, TypeOK, JobsInv, SweepInv,
     Expected, RunInv, StartedInOrder, NoneRuns, AllRun, RunUpTo, RunFrom1To,
     ResourceInv, BusInv, RegistrationInv, MappingInv, ConfiguredInv, ShownInv
<1>2. CASE Create \/ Created
  BY <1>2, CreateStep
<1>3. CASE FireupDone \/ Destroy \/ Entered
  BY <1>3, QuietStep
<1>4. CASE Rollback \/ Destroyed
  BY <1>4, DestroyStep
<1>5. CASE Sweep
  BY <1>5, SweepStep
<1>6. CASE Requested
  BY <1>6, RequestedStep
<1>7. CASE EntryJob
  BY <1>7, EntryJobStep
<1>8. CASE EntryCall
  BY <1>8, EntryCallStep
<1>9. CASE EntryReturn
  BY <1>9, EntryReturnStep
<1>10. ASSUME NEW tr \in Transitions, Change(tr) PROVE PInv'
  BY <1>10, ChangeStep
<1>. QED BY <1>1, <1>2, <1>3, <1>4, <1>5, <1>6, <1>7, <1>8, <1>9, <1>10
         DEF Next, Handler, Terminated

(* In every reachable state.                                                *)
LEMMA PInvariant == Spec => []PInv
BY PInit, PStep, PTL DEF Spec

(* The types of the participant's state.                                    *)
THEOREM ParticipantTypes == Spec => []TypeOK
<1>1. PInv => TypeOK
  BY DEF PInv
<1>. QED BY PInvariant, <1>1, PTL

(* Whatever calls of components fail, and in whatever life: a component     *)
(* runs only while all registered before it run, and outside the entry      *)
(* handlers all of them run, in RUNNING, or none.                           *)
THEOREM RegistryStartsAsOne == Spec => []StartedAsOne
<1>1. PInv => StartedAsOne
  <2>. SUFFICES ASSUME PInv PROVE StartedTogether
    BY DEF PInv, RunInv, StartedAsOne
  <2>. QED BY Now DEF PInv, RunInv, StartedTogether, NoneRuns, AllRun
<1>. QED BY PInvariant, <1>1, PTL

(* Bus, signal registration, mapping and configuration follow the state on  *)
(* every way into and out of READY and RUNNING.                             *)
THEOREM ResourcesFollow == Spec => []ResourcesFollowState
<1>1. PInv => ResourcesFollowState
  BY Now DEF PInv, ResourceInv, BusInv, RegistrationInv, MappingInv,
             ConfiguredInv, ResourcesFollowState, Transmitting
<1>. QED BY PInvariant, <1>1, PTL

(* Header.CurrentState lags only in INITIALIZING or RUNNING, after a        *)
(* failure, and then nothing runs.                                          *)
THEOREM StaleMeansFailed == Spec => []StaleOnlyAfterFailure
<1>1. PInv => StaleOnlyAfterFailure
  BY Now DEF PInv, ShownInv, StaleOnlyAfterFailure, NoneRuns
<1>. QED BY PInvariant, <1>1, PTL
=============================================================================
